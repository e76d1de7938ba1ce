----------------------------- MODULE SetupProofs -----------------------------
(***************************************************************************)
(* What sets a database up: RevisionStaysRecorded and RevisionIsBuilt of   *)
(* module SchemaBuilder, for any builders, any of the dialects and any     *)
(* number of faults; KeysKeepApart and LaterCallsReuse of Provisioning,    *)
(* for any processes, any keys and any number of losses.                   *)
(***************************************************************************)
EXTENDS SchemaBuilder, Provisioning, SequenceTheorems, TLAPS

-----------------------------------------------------------------------------
(* The row of the version.  Whoever has deleted a row and not committed it *)
(* keeps the others from deleting, also when its insert has failed and its *)
(* connection has not been rolled back.                                    *)

Positions == {"start", "migrate", "commit", "delete", "create", "save", "done", "failed"}

Deleting(b) == work[b].gone # {}

\* What holds of one connection.
ConnectionInv(b) ==
    /\ DOMAIN work[b] = {"made", "gone", "new"}
    /\ work[b].gone \subseteq rows
    /\ work[b].new # {} <=> pc[b] = "save" /\ HasTransactions
    /\ Deleting(b) => HasTransactions
    /\ Deleting(b) /\ pc[b] \notin {"create", "save"} => rows \ work[b].gone # {}

OneDeletes == \A b, c \in Builders : Deleting(b) /\ Deleting(c) => b = c

\* There is a row once a build has written it or found it.
Recording ==
    (\E b \in Builders : pc[b] = "done" \/ (pc[b] = "save" /\ ~HasTransactions))
        => \/ rows # {}
           \/ dialect = "mongodb" /\ (faults > 0 \/ \E b \in Builders : pc[b] = "create")

RowInv ==
    /\ pc \in [Builders -> Positions]
    /\ work = [b \in Builders |-> work[b]]
    /\ faults \in Nat
    /\ \A b \in Builders : ConnectionInv(b)
    /\ OneDeletes
    /\ Recording


LEMMA RowInit == Init => RowInv
BY DEF Init, RowInv, ConnectionInv, OneDeletes, Recording, Deleting, NoWork, Positions

\* A connection whose work and rows stay keeps what holds of it.
LEMMA OtherConnections ==
    ASSUME RowInv, NEW b \in Builders, NEW w, NEW p \in Positions,
           work' = [work EXCEPT ![b] = w], pc' = [pc EXCEPT ![b] = p],
           UNCHANGED dialect, faults' \in Nat,
           \A c \in Builders : c # b => work[c].gone \subseteq rows',
           \A c \in Builders : c # b /\ Deleting(c) /\ rows \ work[c].gone # {}
                                 => rows' \ work[c].gone # {},
           ConnectionInv(b)',
           \A c \in Builders : c # b /\ Deleting(c) => w.gone = {},
           Recording'
    PROVE  RowInv'
<1>1. /\ pc' \in [Builders -> Positions] /\ work' = [c \in Builders |-> work'[c]]
      /\ work'[b] = w /\ pc'[b] = p
      /\ \A c \in Builders : c # b => work'[c] = work[c] /\ pc'[c] = pc[c]
    BY DEF RowInv
<1>2. ASSUME NEW c \in Builders PROVE ConnectionInv(c)'
    <2>1. CASE c = b
        BY <2>1
    <2>2. CASE c # b
        <3>1. ConnectionInv(c)
            BY DEF RowInv
        <3> QED
            BY <1>1, <2>2, <3>1 DEF ConnectionInv, Deleting, HasTransactions
    <2> QED
        BY <2>1, <2>2
<1>3. OneDeletes'
    BY <1>1 DEF RowInv, OneDeletes, Deleting
<1> QED
    BY <1>1, <1>2, <1>3 DEF RowInv

\* A builder goes on without touching the rows: reading, a statement inside a
\* transaction, an exception, a death, another call.
LEMMA GoesOn ==
    ASSUME RowInv, NEW b \in Builders, NEW w, NEW p \in Positions,
           work' = [work EXCEPT ![b] = w], pc' = [pc EXCEPT ![b] = p],
           UNCHANGED <<dialect, rows>>, faults' \in Nat, faults' >= faults,
           DOMAIN w = {"made", "gone", "new"}, w.gone \in {work[b].gone, {}}, w.new = {},
           p \notin {"create", "save"},
           w.gone # {} => rows \ w.gone # {},
           p = "done" => rows # {},
           pc[b] = "create" => rows # {} \/ faults' > 0
    PROVE  RowInv'
<1>1. ConnectionInv(b)
    BY DEF RowInv
<1>2. work'[b] = w /\ pc'[b] = p /\ \A c \in Builders : c # b => pc'[c] = pc[c]
    BY DEF RowInv
<1>3. ConnectionInv(b)'
    BY <1>1, <1>2 DEF ConnectionInv, Deleting, HasTransactions
<1>4. Recording'
    <2> SUFFICES ASSUME rows = {}, NEW c \in Builders,
                        pc'[c] = "done" \/ (pc'[c] = "save" /\ ~HasTransactions)
                 PROVE  /\ dialect = "mongodb"
                        /\ faults' > 0 \/ \E d \in Builders : pc'[d] = "create"
        BY DEF Recording, HasTransactions
    <2>1. c # b /\ pc'[c] = pc[c]
        BY <1>2
    <2>2. dialect = "mongodb" /\ (faults > 0 \/ \E d \in Builders : pc[d] = "create")
        BY <2>1 DEF RowInv, Recording
    <2>3. faults \in Nat
        BY DEF RowInv
    <2> QED
        BY <1>2, <2>2, <2>3
<1>5. \A c \in Builders : c # b /\ Deleting(c) => w.gone = {}
    BY <1>1 DEF RowInv, OneDeletes, Deleting
<1>6. \A c \in Builders : work[c].gone \subseteq rows
    BY DEF RowInv, ConnectionInv
<1> QED
    BY <1>3, <1>4, <1>5, <1>6, OtherConnections

\* A commit takes away the rows that were deleted and never all that there are.
LEMMA SettleKeepsRows ==
    ASSUME RowInv, NEW b \in Builders, NEW p \in Positions, pc[b] \notin {"create", "done"},
           rows' = SeenRows(b), work' = [work EXCEPT ![b] = NoWork],
           pc' = [pc EXCEPT ![b] = p], UNCHANGED <<dialect, faults>>,
           p \notin {"create", "save"}, p = "done" => pc[b] = "save"
    PROVE  RowInv'
<1>1. ConnectionInv(b)
    BY DEF RowInv
<1>2. /\ work'[b] = NoWork /\ pc'[b] = p /\ faults \in Nat
      /\ \A c \in Builders : c # b => pc'[c] = pc[c]
    BY DEF RowInv
<1>3. ConnectionInv(b)'
    BY <1>1, <1>2 DEF ConnectionInv, Deleting, HasTransactions, NoWork
<1>4. rows # {} \/ work[b].new # {} => rows' # {}
    BY <1>1 DEF SeenRows, ConnectionInv, Deleting
<1>5. Recording'
    <2> SUFFICES ASSUME rows' = {}, NEW c \in Builders,
                        pc'[c] = "done" \/ (pc'[c] = "save" /\ ~HasTransactions)
                 PROVE  /\ dialect = "mongodb"
                        /\ faults > 0 \/ \E d \in Builders : pc'[d] = "create"
        BY DEF Recording, HasTransactions
    <2>1. \/ c # b /\ pc'[c] = pc[c]
          \/ c = b /\ pc[b] = "save"
        BY <1>2
    <2>2. dialect = "mongodb" /\ (faults > 0 \/ \E d \in Builders : pc[d] = "create")
        BY <1>1, <1>4, <2>1 DEF RowInv, Recording, ConnectionInv
    <2> QED
        BY <1>2, <2>2
<1>6. \A c \in Builders : c # b => /\ work[c].gone \subseteq rows'
                                   /\ Deleting(c) => rows \subseteq rows'
    BY <1>1 DEF RowInv, ConnectionInv, OneDeletes, Deleting, SeenRows
<1>7. NoWork.gone = {}
    BY DEF NoWork
<1> QED
    BY <1>2, <1>3, <1>5, <1>6, <1>7, OtherConnections

\* The row is deleted: nobody else has a deleted row, and the rows there are
\* stay until the commit, but for MongoDB.
LEMMA DeleteKeepsRows ==
    ASSUME RowInv, NEW b \in Builders, DeleteVersion(b)
    PROVE  RowInv'
<1>1. ConnectionInv(b) /\ work[b].new = {} /\ pc[b] = "delete" /\ faults \in Nat
    BY DEF RowInv, ConnectionInv, DeleteVersion
<1>2. pc' = [pc EXCEPT ![b] = "create"] /\ UNCHANGED <<dialect, faults>>
    BY DEF DeleteVersion
<1>3. pc'[b] = "create" /\ \A c \in Builders : c # b => pc'[c] = pc[c]
    BY <1>2 DEF RowInv
<1>4. "create" \in Positions
    BY DEF Positions
<1>5. CASE HasTransactions
    <2> DEFINE w == [work[b] EXCEPT !.gone = work[b].gone \cup rows, !.new = {}]
    <2>1. work' = [work EXCEPT ![b] = w] /\ rows' = rows
        BY <1>5 DEF DeleteVersion, RowInv
    <2>2. DOMAIN w = {"made", "gone", "new"} /\ w.gone = work[b].gone \cup rows /\ w.new = {}
        BY <1>1 DEF ConnectionInv
    <2> HIDE DEF w
    <2>3. work'[b] = w
        BY <2>1 DEF RowInv
    <2>4. ConnectionInv(b)'
        BY <1>1, <1>2, <1>3, <1>5, <2>1, <2>2, <2>3 DEF ConnectionInv, Deleting, HasTransactions
    <2>5. ASSUME NEW c \in Builders, c # b, Deleting(c) PROVE w.gone = {}
        <3>1. work[c].gone \cap SeenRows(b) = {} /\ work[c].gone \subseteq rows
            BY <2>5 DEF DeleteVersion, Others, RowInv, ConnectionInv
        <3>2. ~Deleting(b)
            BY <2>5 DEF RowInv, OneDeletes
        <3>3. rows \subseteq SeenRows(b)
            BY <3>2 DEF SeenRows, Deleting
        <3> QED
            BY <2>5, <3>1, <3>3 DEF Deleting
    <2>6. Recording'
        BY <1>2, <1>3, <1>5, <2>1 DEF RowInv, Recording, HasTransactions
    <2>7. \A c \in Builders : work[c].gone \subseteq rows
        BY DEF RowInv, ConnectionInv
    <2> QED
        BY <1>1, <1>2, <1>4, <2>1, <2>4, <2>5, <2>6, <2>7, OtherConnections
<1>6. CASE ~HasTransactions
    <2>1. work' = work /\ rows' = {}
        BY <1>6 DEF DeleteVersion
    <2>2. ASSUME NEW c \in Builders PROVE ConnectionInv(c)'
        BY <1>1, <1>2, <1>3, <1>6, <2>1
        DEF RowInv, ConnectionInv, Deleting, HasTransactions
    <2>3. Recording'
        BY <1>2, <1>3, <1>6 DEF Recording, HasTransactions
    <2> QED
        BY <1>1, <1>2, <1>4, <2>1, <2>2, <2>3 DEF RowInv, OneDeletes, Deleting
<1> QED
    BY <1>5, <1>6

\* The row is inserted again.
LEMMA CreateKeepsRows ==
    ASSUME RowInv, NEW b \in Builders, CreateVersion(b)
    PROVE  RowInv'
<1>1. ConnectionInv(b) /\ work[b].new = {} /\ pc[b] = "create" /\ faults \in Nat
    BY DEF RowInv, ConnectionInv, CreateVersion
<1>2. pc' = [pc EXCEPT ![b] = "save"] /\ UNCHANGED <<dialect, faults>>
    BY DEF CreateVersion
<1>3. pc'[b] = "save" /\ \A c \in Builders : c # b => pc'[c] = pc[c]
    BY <1>2 DEF RowInv
<1>4. "save" \in Positions
    BY DEF Positions
<1>5. CASE HasTransactions
    <2> DEFINE w == [work[b] EXCEPT !.new = {Recorded(b)}]
    <2>1. work' = [work EXCEPT ![b] = w] /\ rows' = rows
        BY <1>5 DEF CreateVersion, RowInv
    <2>2. /\ DOMAIN w = {"made", "gone", "new"}
          /\ w.gone = work[b].gone /\ w.new = {Recorded(b)}
        BY <1>1 DEF ConnectionInv
    <2> HIDE DEF w
    <2>3. work'[b] = w
        BY <2>1 DEF RowInv
    <2>4. ConnectionInv(b)'
        BY <1>1, <1>2, <1>3, <1>5, <2>1, <2>2, <2>3 DEF ConnectionInv, Deleting, HasTransactions
    <2>5. \A c \in Builders : c # b /\ Deleting(c) => w.gone = {}
        BY <2>2 DEF RowInv, OneDeletes, Deleting
    <2>6. Recording'
        BY <1>2, <1>3, <1>5, <2>1 DEF RowInv, Recording, HasTransactions
    <2>7. \A c \in Builders : work[c].gone \subseteq rows
        BY DEF RowInv, ConnectionInv
    <2> QED
        BY <1>1, <1>2, <1>4, <2>1, <2>4, <2>5, <2>6, <2>7, OtherConnections
<1>6. CASE ~HasTransactions
    <2>1. work' = work /\ rows' # {} /\ rows \subseteq rows'
        BY <1>6 DEF CreateVersion
    <2>2. ASSUME NEW c \in Builders PROVE ConnectionInv(c)'
        BY <1>1, <1>2, <1>3, <1>6, <2>1
        DEF RowInv, ConnectionInv, Deleting, HasTransactions
    <2>3. Recording'
        BY <2>1 DEF Recording
    <2> QED
        BY <1>1, <1>2, <1>4, <2>1, <2>2, <2>3 DEF RowInv, OneDeletes, Deleting
<1> QED
    BY <1>5, <1>6

\* Where a builder goes after a migration or a look at the row.
LEMMA EnterGoes ==
    ASSUME NEW b, NEW n, Enter(b, n)
    PROVE  \E p \in Positions : p \in {"migrate", "delete"} /\ pc' = [pc EXCEPT ![b] = p]
BY DEF Enter, Positions

LEMMA ReadingKeepsRows ==
    ASSUME RowInv, NEW b \in Builders, ReadRevision(b) \/ ReadNothing(b)
    PROVE  RowInv'
<1>1. ConnectionInv(b) /\ work[b].new = {} /\ pc[b] = "start" /\ faults \in Nat
    BY DEF RowInv, ConnectionInv, ReadRevision, ReadNothing
<1>2. UNCHANGED <<dialect, rows, faults>> /\ faults' \in Nat /\ faults' >= faults
    BY <1>1 DEF ReadRevision, ReadNothing
<1>3. PICK w : /\ work' = [work EXCEPT ![b] = w] /\ w \in {work[b], NoWork}
    <2>1. work = [work EXCEPT ![b] = work[b]]
        BY DEF RowInv
    <2>2. work' = work \/ work' = [work EXCEPT ![b] = NoWork]
        BY DEF ReadRevision, ReadNothing
    <2> QED
        BY <2>1, <2>2
<1>4. /\ DOMAIN w = {"made", "gone", "new"} /\ w.gone \in {work[b].gone, {}} /\ w.new = {}
      /\ w.gone # {} => rows \ w.gone # {}
    BY <1>1, <1>3 DEF ConnectionInv, NoWork, Deleting
<1>5. PICK p \in Positions : /\ pc' = [pc EXCEPT ![b] = p] /\ p \in {"migrate", "delete", "done"}
                             /\ p = "done" => rows # {}
    <2>1. CASE ReadRevision(b)
        <3>1. SeenRows(b) # {} /\ SeenRows(b) \subseteq rows
            BY <1>1, <2>1 DEF ReadRevision, Readable, SeenRows
        <3> QED
            BY <2>1, <3>1, EnterGoes DEF ReadRevision, Positions
    <2>2. CASE ReadNothing(b)
        BY <2>2, EnterGoes DEF ReadNothing
    <2> QED
        BY <2>1, <2>2
<1> QED
    BY <1>1, <1>2, <1>3, <1>4, <1>5, GoesOn

\* A statement inside a transaction leaves the rows of the connection alone.
LEMMA StatementKeepsRows ==
    ASSUME RowInv, NEW b \in Builders, ExecuteInTransaction(b)
    PROVE  RowInv'
<1>1. ConnectionInv(b) /\ work[b].new = {} /\ pc[b] = "migrate" /\ faults \in Nat
    BY DEF RowInv, ConnectionInv, ExecuteInTransaction
<1>2. UNCHANGED <<dialect, rows, faults>> /\ faults' \in Nat /\ faults' >= faults
    BY <1>1 DEF ExecuteInTransaction
<1> DEFINE w == [work[b] EXCEPT !.made = work[b].made \cup Created(b)]
<1>3. work' = [work EXCEPT ![b] = w]
    BY DEF ExecuteInTransaction, RowInv
<1>4. /\ DOMAIN w = {"made", "gone", "new"} /\ w.gone = work[b].gone /\ w.new = {}
      /\ w.gone # {} => rows \ w.gone # {}
    BY <1>1 DEF ConnectionInv, Deleting
<1> HIDE DEF w
<1>5. PICK p \in {"migrate", "commit"} : pc' = [pc EXCEPT ![b] = p]
    <2>1. pc = [pc EXCEPT ![b] = "migrate"]
        BY <1>1 DEF RowInv
    <2>2. UNCHANGED pc \/ pc' = [pc EXCEPT ![b] = "commit"]
        BY DEF ExecuteInTransaction, NextStatement
    <2> QED
        BY <2>1, <2>2
<1>6. p \in Positions /\ p \notin {"create", "save", "done"}
    BY DEF Positions
<1> QED
    BY <1>1, <1>2, <1>3, <1>4, <1>5, <1>6, GoesOn

\* A build that raises or dies, and one that is called again.  An insert raises
\* only where somebody else has inserted the row.
LEMMA FailureKeepsRows ==
    ASSUME RowInv, NEW b \in Builders,
           ExecuteRaises(b) \/ CreateRaises(b) \/ Fault(b) \/ Again(b)
    PROVE  RowInv'
<1>1. (ConnectionInv(b) /\ pc[b] \notin {"save", "done"}) \/ Fault(b)
    BY DEF RowInv, ExecuteRaises, CreateRaises, Again
<1>2. ConnectionInv(b) /\ faults \in Nat /\ work = [work EXCEPT ![b] = work[b]]
    BY DEF RowInv
<1>3. UNCHANGED <<dialect, rows>> /\ faults' \in Nat /\ faults' >= faults
    BY <1>2 DEF ExecuteRaises, CreateRaises, Raise, Again, Fault
<1>4. PICK p \in {"failed", "start"} : pc' = [pc EXCEPT ![b] = p]
    BY DEF ExecuteRaises, CreateRaises, Raise, Again, Fault
<1>5. PICK w : /\ work' = [work EXCEPT ![b] = w]
               /\ w = NoWork \/ (w = work[b] /\ ~Fault(b))
    <2>1. CASE Fault(b)
        BY <2>1 DEF Fault
    <2>2. CASE ~Fault(b) /\ (ExecuteRaises(b) \/ CreateRaises(b))
        BY <1>2, <2>2 DEF ExecuteRaises, CreateRaises, Raise
    <2>3. CASE ~Fault(b) /\ Again(b)
        BY <1>2, <2>3 DEF Again
    <2> QED
        BY <2>1, <2>2, <2>3
<1>6. pc[b] = "create" => \/ Fault(b) /\ faults' > 0
                          \/ SeenRows(b) # {} /\ work[b].new = {}
    BY <1>2 DEF ExecuteRaises, CreateRaises, Again, Fault, ConnectionInv
<1>7. /\ DOMAIN w = {"made", "gone", "new"} /\ w.gone \in {work[b].gone, {}} /\ w.new = {}
      /\ w.gone # {} => rows \ w.gone # {}
    BY <1>1, <1>2, <1>5, <1>6 DEF ConnectionInv, NoWork, Deleting, SeenRows
<1>8. pc[b] = "create" => rows # {} \/ faults' > 0
    BY <1>6 DEF SeenRows
<1>9. p \in Positions /\ p \notin {"create", "save", "done"}
    BY DEF Positions
<1> QED
    BY <1>3, <1>4, <1>5, <1>7, <1>8, <1>9, GoesOn

\* Every statement of a database without transactional DDL commits, and so do the
\* end of a migration and of the build.
LEMMA CommitKeepsRows ==
    ASSUME RowInv, NEW b \in Builders,
           ExecuteDurable(b) \/ CommitMigration(b) \/ CommitVersion(b)
    PROVE  RowInv'
<1>1. /\ rows' = SeenRows(b) /\ work' = [work EXCEPT ![b] = NoWork]
      /\ UNCHANGED <<dialect, faults>> /\ pc[b] \in {"migrate", "commit", "save"}
    BY DEF ExecuteDurable, CommitMigration, CommitVersion, Settle
<1>2. pc = [pc EXCEPT ![b] = pc[b]]
    BY DEF RowInv
<1>3. \E p \in Positions : /\ pc' = [pc EXCEPT ![b] = p] /\ p \notin {"create", "save"}
                           /\ p = "done" => pc[b] = "save"
    <2>1. CASE ExecuteDurable(b)
        <3>1. \/ UNCHANGED pc
              \/ pc' = [pc EXCEPT ![b] = "commit"]
              \/ Enter(b, num[b] + 1)
            BY <2>1 DEF ExecuteDurable, NextStatement
        <3>2. pc[b] = "migrate"
            BY <2>1 DEF ExecuteDurable
        <3> QED
            BY <1>2, <3>1, <3>2, EnterGoes DEF Positions
    <2>2. CASE CommitMigration(b)
        <3>1. pc' = [pc EXCEPT ![b] = "migrate"] \/ Enter(b, num[b] + 1)
            BY <2>2 DEF CommitMigration
        <3> QED
            BY <3>1, EnterGoes DEF Positions
    <2>3. CASE CommitVersion(b)
        BY <2>3 DEF CommitVersion, Positions
    <2> QED
        BY <2>1, <2>2, <2>3
<1>4. PICK p \in Positions : /\ pc' = [pc EXCEPT ![b] = p] /\ p \notin {"create", "save"}
                             /\ p = "done" => pc[b] = "save"
    BY <1>3
<1> QED
    BY <1>1, <1>4, SettleKeepsRows

LEMMA RowStep == RowInv /\ [Next]_vars => RowInv'
<1> SUFFICES ASSUME RowInv, [Next]_vars PROVE RowInv'
    OBVIOUS
<1>1. CASE UNCHANGED vars
    BY <1>1 DEF vars, RowInv, ConnectionInv, OneDeletes, Recording, Deleting, HasTransactions
<1>2. ASSUME NEW b \in Builders, Build(b) \/ Fault(b) PROVE RowInv'
    BY <1>2, ReadingKeepsRows, StatementKeepsRows, FailureKeepsRows, CommitKeepsRows,
       DeleteKeepsRows, CreateKeepsRows DEF Build
<1> QED
    BY <1>1, <1>2 DEF Next

\* Once a build has returned the revision stays recorded, whatever the other builders
\* delete, fail or leave uncommitted (Builder.execute: delete, create, commit), except
\* for MongoDB, which has no transaction to undo a delete.
THEOREM RecordsStay == Spec => []RevisionStaysRecorded
<1>1. RowInv => RevisionStaysRecorded
    BY DEF RowInv, Recording, RevisionStaysRecorded
<1> QED
    BY <1>1, RowInit, RowStep, PTL DEF Spec

-----------------------------------------------------------------------------
(* The migrations.                                                         *)

\* The migrations of one dialect: no revision and no migration is empty.
Blocks(T) == {m \in Seq(T) : m # <<>>}

\* An Oracle block creates at most its first structure without an index.
OracleBlocks(T) == {m \in Blocks(T) : \A k \in 2 .. Len(m) : "on" \in DOMAIN m[k]}

SqlStructures ==
    {SchemaVersion, Entity, Process, Session, Conversation, ConversationMessage, EntityFact,
     FrequencyIndex, EmbeddingIndex, ProcessAttribute, Subject, Predicate, Object,
     KnowledgeGraph, EntityFactMention, MentionIndex}

Collections ==
    {"schema_version", "entity", "process", "session", "conversation", "conversation_message",
     "entity_fact", "process_attribute", "subject", "predicate", "object", "knowledge_graph",
     "entity_fact_mention"}

\* The keys of MongoDB's indexes; a plain index goes by its name.
IndexKeys ==
    {{"num"}, {"external_id"}, {"uuid"}, {"entity_id", "id"}, {"process_id", "id"},
     {"session_id"}, {"conversation_id", "id"}, {"entity_id", "uniq"}, {"process_id", "uniq"},
     {"uniq"}, {"entity_id", "subject_id", "predicate_id", "object_id"}, {"subject_id", "id"},
     {"predicate_id", "id"}, {"object_id", "id"}, {"entity_id", "fact_id", "conversation_id"},
     {"idx_freq"}, {"idx_entity_conversation"}}

MongodbStructures ==
    [name : Collections \X IndexKeys, table : Collections, keys : SUBSET IndexKeys, refs : {{}}]

\* Scripts that are run one after the other.
LEMMA ScriptsJoin ==
    ASSUME NEW M, NEW s \in Seq(M), NEW t \in Seq(M), s # <<>>
    PROVE  s \o t \in Seq(M) /\ s \o t # <<>>
BY ConcatProperties, EmptySeq

\* A migration for each statement.
LEMMA SinglyDoes ==
    ASSUME NEW T, NEW s \in Seq(T), s # <<>>
    PROVE  Singly(s) \in Seq(OracleBlocks(T)) /\ Singly(s) # <<>>
<1>1. ASSUME NEW i \in 1 .. Len(s) PROVE <<s[i]>> \in OracleBlocks(T)
    <2>1. s[i] \in T
        OBVIOUS
    <2>2. <<s[i]>> \in Seq(T) /\ Len(<<s[i]>>) = 1 /\ <<s[i]>> # <<>>
        BY <2>1
    <2> QED
        BY <2>2 DEF OracleBlocks, Blocks
<1>2. Singly(s) = [i \in 1 .. Len(s) |-> <<s[i]>>]
    BY DEF Singly
<1>3. Len(s) \in Nat /\ Len(s) # 0
    OBVIOUS
<1>4. Singly(s) \in Seq(OracleBlocks(T)) /\ Len(Singly(s)) = Len(s)
    BY <1>1, <1>2, <1>3, IsASeq
<1> QED
    BY <1>3, <1>4


SqlScripts == Seq(OracleBlocks(SqlStructures))

\* The parts the SQL dialects share are made of statements of their own.
LEMMA SinglePartsAre ==
    /\ \A s \in {SqliteSessions, PostgresqlSessions, MysqlSessions, OracleSessions,
                 SqliteFacts, MysqlFacts, SqliteGraph, PostgresqlGraph, MysqlGraph,
                 OracleGraph, SqliteMentions, PostgresqlMentions, MysqlMentions} :
          s \in SqlScripts /\ s # <<>>
<1> USE DEF SqlScripts
<1>1. Singly(<<SchemaVersion, Entity, Process, Session, Conversation, ConversationMessage>>)
         \in SqlScripts \ {<<>>}
    <2>1. <<SchemaVersion, Entity, Process, Session, Conversation, ConversationMessage>>
             \in Seq(SqlStructures) \ {<<>>}
        BY DEF SqlStructures
    <2> QED
        BY <2>1, SinglyDoes
<1>2. Singly(<<EntityFact, FrequencyIndex, EmbeddingIndex, ProcessAttribute>>)
         \in SqlScripts \ {<<>>}
    <2>1. <<EntityFact, FrequencyIndex, EmbeddingIndex, ProcessAttribute>>
             \in Seq(SqlStructures) \ {<<>>}
        BY DEF SqlStructures
    <2> QED
        BY <2>1, SinglyDoes
<1>3. Singly(<<EntityFact, ProcessAttribute>>) \in SqlScripts \ {<<>>}
    <2>1. <<EntityFact, ProcessAttribute>> \in Seq(SqlStructures) \ {<<>>}
        BY DEF SqlStructures
    <2> QED
        BY <2>1, SinglyDoes
<1>4. Singly(<<Subject, Predicate, Object, KnowledgeGraph>>) \in SqlScripts \ {<<>>}
    <2>1. <<Subject, Predicate, Object, KnowledgeGraph>> \in Seq(SqlStructures) \ {<<>>}
        BY DEF SqlStructures
    <2> QED
        BY <2>1, SinglyDoes
<1>5. Singly(<<EntityFactMention, MentionIndex>>) \in SqlScripts \ {<<>>}
    <2>1. <<EntityFactMention, MentionIndex>> \in Seq(SqlStructures) \ {<<>>}
        BY DEF SqlStructures
    <2> QED
        BY <2>1, SinglyDoes
<1>6. Singly(<<EntityFactMention>>) \in SqlScripts \ {<<>>}
    <2>1. <<EntityFactMention>> \in Seq(SqlStructures) \ {<<>>}
        BY DEF SqlStructures
    <2> QED
        BY <2>1, SinglyDoes
<1> QED
    BY <1>1, <1>2, <1>3, <1>4, <1>5, <1>6, Zenon
    DEF SqliteSessions, PostgresqlSessions, MysqlSessions, OracleSessions, SqliteFacts,
        MysqlFacts, SqliteGraph, PostgresqlGraph, MysqlGraph, OracleGraph, SqliteMentions,
        PostgresqlMentions, MysqlMentions

\* A table and its indexes in one block: behind the table there are only indexes.
LEMMA BlockPartsAre ==
    \A s \in {PostgresqlFacts, OracleFacts, OracleMentions} : s \in SqlScripts /\ s # <<>>
<1>1. "on" \in DOMAIN FrequencyIndex /\ "on" \in DOMAIN EmbeddingIndex /\ "on" \in DOMAIN MentionIndex
    BY DEF FrequencyIndex, EmbeddingIndex, MentionIndex, Index
<1>2. <<EntityFact, FrequencyIndex, EmbeddingIndex>> \in OracleBlocks(SqlStructures)
    <2>1. <<EntityFact, FrequencyIndex, EmbeddingIndex>> \in Seq(SqlStructures)
        BY DEF SqlStructures
    <2> DEFINE m == <<EntityFact, FrequencyIndex, EmbeddingIndex>>
    <2>2. Len(m) = 3 /\ m # <<>> /\ m[2] = FrequencyIndex /\ m[3] = EmbeddingIndex
        OBVIOUS
    <2>3. ASSUME NEW k \in 2 .. Len(m) PROVE "on" \in DOMAIN m[k]
        <3>1. k = 2 \/ k = 3
            BY <2>2
        <3> HIDE DEF m
        <3> QED
            BY <1>1, <2>2, <3>1
    <2> QED
        BY <2>1, <2>2, <2>3 DEF OracleBlocks, Blocks
<1>3. <<ProcessAttribute>> \in OracleBlocks(SqlStructures)
    BY DEF OracleBlocks, Blocks, SqlStructures
<1>4. <<EntityFactMention, MentionIndex>> \in OracleBlocks(SqlStructures)
    <2>1. <<EntityFactMention, MentionIndex>> \in Seq(SqlStructures)
        BY DEF SqlStructures
    <2> DEFINE m == <<EntityFactMention, MentionIndex>>
    <2>2. Len(m) = 2 /\ m # <<>> /\ m[2] = MentionIndex
        OBVIOUS
    <2>3. ASSUME NEW k \in 2 .. Len(m) PROVE "on" \in DOMAIN m[k]
        <3>1. k = 2
            BY <2>2
        <3> HIDE DEF m
        <3> QED
            BY <1>1, <2>2, <3>1
    <2> QED
        BY <2>1, <2>2, <2>3 DEF OracleBlocks, Blocks
<1>5. \A a, b \in OracleBlocks(SqlStructures) :
         <<a, b>> \in SqlScripts /\ <<a, b>> # <<>> /\ <<a>> \in SqlScripts /\ <<a>> # <<>>
    BY DEF SqlScripts
<1> QED
    BY <1>2, <1>3, <1>4, <1>5, Zenon DEF PostgresqlFacts, OracleFacts, OracleMentions

\* Two revisions, each of them a script with something in it.
Scripted(revisions, S) ==
    \E a, b \in S : revisions = <<a, b>> /\ a # <<>> /\ b # <<>>

LEMMA SqlMigrationsAre ==
    \A d \in AllDialects \ {"mongodb"} : Scripted(Migrations[d], SqlScripts)
<1> DEFINE P == SqlScripts \ {<<>>}
<1>1. \A s, t \in P : s \o t \in P
    BY ScriptsJoin DEF SqlScripts
<1>2. \A s, t \in P : Scripted(<<s, t>>, SqlScripts)
    BY DEF Scripted
<1>3. SqliteSessions \in P /\ PostgresqlSessions \in P /\ MysqlSessions \in P
      /\ OracleSessions \in P /\ SqliteFacts \in P /\ MysqlFacts \in P /\ SqliteGraph \in P
      /\ PostgresqlGraph \in P /\ MysqlGraph \in P /\ OracleGraph \in P
      /\ SqliteMentions \in P /\ PostgresqlMentions \in P /\ MysqlMentions \in P
    BY SinglePartsAre, Zenon
<1>4. PostgresqlFacts \in P /\ OracleFacts \in P /\ OracleMentions \in P
    BY BlockPartsAre, Zenon
<1> HIDE DEF P
<1>5. Scripted(Migrations["sqlite"], SqlScripts)
    BY <1>1, <1>2, <1>3 DEF Migrations
<1>6. Scripted(Migrations["postgresql"], SqlScripts)
    BY <1>1, <1>2, <1>3, <1>4 DEF Migrations
<1>7. Scripted(Migrations["mysql"], SqlScripts)
    BY <1>1, <1>2, <1>3 DEF Migrations
<1>8. Scripted(Migrations["tidb"], SqlScripts)
    BY <1>1, <1>2, <1>3 DEF Migrations, TidbSessions, TidbLater
<1>9. Scripted(Migrations["oceanbase"], SqlScripts)
    BY <1>1, <1>2, <1>3 DEF Migrations, OceanbaseSessions, OceanbaseLater
<1>10. Scripted(Migrations["oracle"], SqlScripts)
    BY <1>1, <1>2, <1>3, <1>4 DEF Migrations
<1> QED
    BY <1>5, <1>6, <1>7, <1>8, <1>9, <1>10 DEF AllDialects

MongodbScripts == Seq(Blocks(MongodbStructures))

\* A migration of MongoDB is a list of create_index calls, and at least one.
LEMMA UniqueIndexesDo ==
    ASSUME NEW c \in Collections, NEW keys \in Seq(IndexKeys), keys # <<>>
    PROVE  UniqueIndexes(c, keys) \in Blocks(MongodbStructures)
<1>1. Len(keys) \in Nat /\ Len(keys) # 0 /\ DOMAIN keys = 1 .. Len(keys)
    OBVIOUS
<1> DEFINE s(i) == [name |-> <<c, keys[i]>>, table |-> c, keys |-> {keys[i]}, refs |-> {}]
<1>2. ASSUME NEW i \in 1 .. Len(keys) PROVE s(i) \in MongodbStructures
    BY <1>1 DEF MongodbStructures
<1>3. UniqueIndexes(c, keys) = [i \in 1 .. Len(keys) |-> s(i)]
    BY <1>1 DEF UniqueIndexes
<1> HIDE DEF s
<1>4. UniqueIndexes(c, keys) \in Seq(MongodbStructures)
      /\ Len(UniqueIndexes(c, keys)) = Len(keys)
    BY <1>1, <1>2, <1>3, IsASeq
<1> QED
    BY <1>1, <1>4 DEF Blocks

LEMMA PlainIndexDoes ==
    ASSUME NEW i, {i} \in IndexKeys, NEW c \in Collections
    PROVE  PlainIndex(i, c) \in Blocks(MongodbStructures)
<1>1. [name |-> <<c, {i}>>, table |-> c, keys |-> {}, refs |-> {}] \in MongodbStructures
    BY DEF MongodbStructures
<1> QED
    BY <1>1 DEF PlainIndex, Blocks

LEMMA MongodbMigrationsAre == Scripted(Migrations["mongodb"], MongodbScripts)
<1> DEFINE B == Blocks(MongodbStructures)
<1>1. \A m, n \in B : m \o n \in B
    BY ScriptsJoin DEF Blocks
<1>2. \A c \in Collections, keys \in Seq(IndexKeys) \ {<<>>} : UniqueIndexes(c, keys) \in B
    BY UniqueIndexesDo
<1>3. \A i, c : {i} \in IndexKeys /\ c \in Collections => PlainIndex(i, c) \in B
    BY PlainIndexDoes
<1> HIDE DEF B
<1>4. \A c \in Collections, k \in IndexKeys : UniqueIndexes(c, <<k>>) \in B
    <2>1. ASSUME NEW k \in IndexKeys PROVE <<k>> \in Seq(IndexKeys) \ {<<>>}
        OBVIOUS
    <2> QED
        BY <1>2, <2>1
<1>5. \A c \in Collections, k, l \in IndexKeys : UniqueIndexes(c, <<k, l>>) \in B
    <2>1. ASSUME NEW k \in IndexKeys, NEW l \in IndexKeys
          PROVE  <<k, l>> \in Seq(IndexKeys) \ {<<>>}
        OBVIOUS
    <2> QED
        BY <1>2, <2>1
<1>6. \A c \in Collections, k, l, m \in IndexKeys : UniqueIndexes(c, <<k, l, m>>) \in B
    <2>1. ASSUME NEW k \in IndexKeys, NEW l \in IndexKeys, NEW m \in IndexKeys
          PROVE  <<k, l, m>> \in Seq(IndexKeys) \ {<<>>}
        OBVIOUS
    <2> QED
        BY <1>2, <2>1
<1>7. \A c \in Collections, k, l, m, n, o, p \in IndexKeys :
         UniqueIndexes(c, <<k, l, m, n, o, p>>) \in B
    <2>1. ASSUME NEW k \in IndexKeys, NEW l \in IndexKeys, NEW m \in IndexKeys,
                 NEW n \in IndexKeys, NEW o \in IndexKeys, NEW p \in IndexKeys
          PROVE  <<k, l, m, n, o, p>> \in Seq(IndexKeys) \ {<<>>}
        OBVIOUS
    <2> QED
        BY <1>2, <2>1
<1>8. /\ {"num"} \in IndexKeys
      /\ {"external_id"} \in IndexKeys
      /\ {"uuid"} \in IndexKeys
      /\ {"entity_id", "id"} \in IndexKeys
      /\ {"process_id", "id"} \in IndexKeys
      /\ {"session_id"} \in IndexKeys
      /\ {"conversation_id", "id"} \in IndexKeys
      /\ {"entity_id", "uniq"} \in IndexKeys
      /\ {"process_id", "uniq"} \in IndexKeys
      /\ {"uniq"} \in IndexKeys
      /\ {"entity_id", "subject_id", "predicate_id", "object_id"} \in IndexKeys
      /\ {"subject_id", "id"} \in IndexKeys
      /\ {"predicate_id", "id"} \in IndexKeys
      /\ {"object_id", "id"} \in IndexKeys
      /\ {"entity_id", "fact_id", "conversation_id"} \in IndexKeys
      /\ {"idx_freq"} \in IndexKeys
      /\ {"idx_entity_conversation"} \in IndexKeys
    BY Zenon DEF IndexKeys
<1>9. \A c \in {"schema_version", "entity", "process", "session", "conversation",
              "conversation_message", "entity_fact", "process_attribute", "subject",
              "predicate", "object", "knowledge_graph", "entity_fact_mention"} : c \in Collections
    BY DEF Collections
<1>10. MongodbSessions \in Seq(B) \ {<<>>}
    <2>1. UniqueIndexes("schema_version", <<{"num"}>>) \in B
        BY <1>4, <1>5, <1>6, <1>7, <1>8, <1>9, Zenon
    <2>2. UniqueIndexes("entity", <<{"external_id"}, {"uuid"}>>) \in B
        BY <1>4, <1>5, <1>6, <1>7, <1>8, <1>9, Zenon
    <2>3. UniqueIndexes("process", <<{"external_id"}, {"uuid"}>>) \in B
        BY <1>4, <1>5, <1>6, <1>7, <1>8, <1>9, Zenon
    <2>4. UniqueIndexes("session", <<{"uuid"}, {"entity_id", "id"}, {"process_id", "id"}>>) \in B
        BY <1>4, <1>5, <1>6, <1>7, <1>8, <1>9, Zenon
    <2>5. UniqueIndexes("conversation", <<{"session_id"}, {"uuid"}>>) \in B
        BY <1>4, <1>5, <1>6, <1>7, <1>8, <1>9, Zenon
    <2>6. UniqueIndexes("conversation_message", <<{"uuid"}, {"conversation_id", "id"}>>) \in B
        BY <1>4, <1>5, <1>6, <1>7, <1>8, <1>9, Zenon
    <2> QED
        BY <2>1, <2>2, <2>3, <2>4, <2>5, <2>6 DEF MongodbSessions
<1>11. MongodbFacts \in Seq(B) \ {<<>>}
    <2>1. UniqueIndexes("entity_fact", <<{"uuid"}, {"entity_id", "id"}, {"entity_id", "uniq"}>>) \in B
        BY <1>4, <1>5, <1>6, <1>7, <1>8, <1>9, Zenon
    <2>2. UniqueIndexes("process_attribute",
                        <<{"uuid"}, {"process_id", "id"}, {"process_id", "uniq"}>>) \in B
        BY <1>4, <1>5, <1>6, <1>7, <1>8, <1>9, Zenon
    <2>3. PlainIndex("idx_freq", "entity_fact") \in B
        BY <1>3 DEF Collections, IndexKeys
    <2> QED
        BY <1>1, <2>1, <2>2, <2>3 DEF MongodbFacts
<1>12. MongodbGraph \in Seq(B) \ {<<>>}
    <2>1. UniqueIndexes("subject", <<{"uuid"}, {"uniq"}>>) \in B
        BY <1>4, <1>5, <1>6, <1>7, <1>8, <1>9, Zenon
    <2>2. UniqueIndexes("predicate", <<{"uuid"}, {"uniq"}>>) \in B
        BY <1>4, <1>5, <1>6, <1>7, <1>8, <1>9, Zenon
    <2>3. UniqueIndexes("object", <<{"uuid"}, {"uniq"}>>) \in B
        BY <1>4, <1>5, <1>6, <1>7, <1>8, <1>9, Zenon
    <2>4. UniqueIndexes("knowledge_graph",
                        <<{"uuid"}, {"entity_id", "id"},
                          {"entity_id", "subject_id", "predicate_id", "object_id"},
                          {"subject_id", "id"}, {"predicate_id", "id"}, {"object_id", "id"}>>) \in B
        BY <1>4, <1>5, <1>6, <1>7, <1>8, <1>9, Zenon
    <2> QED
        BY <2>1, <2>2, <2>3, <2>4 DEF MongodbGraph
<1>13. MongodbMentions \in Seq(B) \ {<<>>}
    <2>1. UniqueIndexes("entity_fact_mention",
                        <<{"uuid"}, {"entity_id", "fact_id", "conversation_id"}>>) \in B
        BY <1>4, <1>5, <1>6, <1>7, <1>8, <1>9, Zenon
    <2>2. PlainIndex("idx_entity_conversation", "entity_fact_mention") \in B
        BY <1>3 DEF Collections, IndexKeys
    <2> QED
        BY <1>1, <2>1, <2>2 DEF MongodbMentions
<1>14. (MongodbSessions \o MongodbFacts) \o MongodbGraph \in Seq(B) \ {<<>>}
    BY <1>10, <1>11, <1>12, ScriptsJoin
<1> QED
    BY <1>13, <1>14 DEF Migrations, Scripted, MongodbScripts, B

\* What the builder needs of the migrations: two revisions of migrations, none of them
\* empty, and in an Oracle block nothing but indexes behind the first statement.
LEMMA MigrationsAre ==
    ASSUME NEW d \in AllDialects, NEW r \in 1 .. LatestRevision
    PROVE  /\ Len(Migrations[d][r]) \in Nat \ {0}
           /\ DOMAIN Migrations[d][r] = 1 .. Len(Migrations[d][r])
           /\ \A j \in 1 .. Len(Migrations[d][r]) :
                 LET m == Migrations[d][r][j]
                 IN  /\ Len(m) \in Nat \ {0} /\ DOMAIN m = 1 .. Len(m)
                     /\ d = "oracle" => \A k \in 2 .. Len(m) : "on" \in DOMAIN m[k]
<1>1. ASSUME NEW T, NEW s \in Seq(Blocks(T)), s # <<>>
      PROVE  /\ Len(s) \in Nat \ {0} /\ DOMAIN s = 1 .. Len(s)
             /\ \A j \in 1 .. Len(s) : Len(s[j]) \in Nat \ {0} /\ DOMAIN s[j] = 1 .. Len(s[j])
    <2>1. Len(s) \in Nat \ {0} /\ DOMAIN s = 1 .. Len(s) /\ \A j \in 1 .. Len(s) : s[j] \in Blocks(T)
        BY <1>1
    <2>2. \A m \in Blocks(T) : Len(m) \in Nat \ {0} /\ DOMAIN m = 1 .. Len(m)
        BY DEF Blocks
    <2> QED
        BY <2>1, <2>2
<1>2. CASE d = "mongodb"
    <2>1. Migrations[d][r] \in Seq(Blocks(MongodbStructures)) /\ Migrations[d][r] # <<>>
        BY <1>2, MongodbMigrationsAre DEF Scripted, MongodbScripts, LatestRevision
    <2> QED
        BY <1>1, <1>2, <2>1
<1>3. CASE d # "mongodb"
    <2>1. Migrations[d][r] \in Seq(OracleBlocks(SqlStructures)) /\ Migrations[d][r] # <<>>
        BY <1>3, SqlMigrationsAre DEF Scripted, SqlScripts, LatestRevision
    <2>2. Seq(OracleBlocks(SqlStructures)) \subseteq Seq(Blocks(SqlStructures))
        BY DEF OracleBlocks
    <2>3. \A j \in 1 .. Len(Migrations[d][r]) :
             Migrations[d][r][j] \in OracleBlocks(SqlStructures)
        BY <2>1
    <2> QED
        BY <1>1, <2>1, <2>2, <2>3 DEF OracleBlocks
<1> QED
    BY <1>2, <1>3

\* The same of one migration.
LEMMA MigrationIs ==
    ASSUME NEW d \in AllDialects, NEW r \in 1 .. LatestRevision,
           NEW m \in 1 .. Len(Migrations[d][r])
    PROVE  /\ Len(Migrations[d][r][m]) \in Nat \ {0}
           /\ d = "oracle" => \A k \in 2 .. Len(Migrations[d][r][m]) :
                                 "on" \in DOMAIN Migrations[d][r][m][k]
<1>1. \A j \in 1 .. Len(Migrations[d][r]) :
         LET n == Migrations[d][r][j]
         IN  /\ Len(n) \in Nat \ {0} /\ DOMAIN n = 1 .. Len(n)
             /\ d = "oracle" => \A k \in 2 .. Len(n) : "on" \in DOMAIN n[k]
    BY MigrationsAre
<1> QED
    BY <1>1, Zenon

-----------------------------------------------------------------------------
(* How far a build has come.  A builder stands in front of a statement of  *)
(* its release, and whatever is promised before it is there, or in the     *)
(* transaction of its connection.                                          *)

Names(d) == {s.name : s \in Statements(d, LatestRevision)}

\* A statement whose structure the releases rely on: see Promised.
Due(d, s) == d = "oracle" => "on" \notin DOMAIN s

Before(i, j, l, r, m, k) == i < r \/ (i = r /\ (j < m \/ (j = m /\ l < k)))

\* Everything due before statement k of migration m of revision r is in S.
Built(d, S, r, m, k) ==
    \A i \in 1 .. LatestRevision :
        \A j \in 1 .. Len(Migrations[d][i]) :
            \A l \in 1 .. Len(Migrations[d][i][j]) :
                Due(d, Migrations[d][i][j][l]) /\ Before(i, j, l, r, m, k)
                    => Migrations[d][i][j][l].name \in S

\* A revision that may be recorded.
Recordable(n) == n \in 1 .. LatestRevision /\ Built(dialect, made, n + 1, 1, 1)

Stands(b) ==
    /\ work[b].made \subseteq Names(dialect)
    /\ ~Transactional => work[b].made = {}
    /\ \A n \in work[b].new : Recordable(n)
    /\ pc[b] \in {"migrate", "commit"} => num[b] \in 1 .. release[b]
    /\ pc[b] = "migrate" =>
          /\ at[b][1] <= Len(Migrations[dialect][num[b]])
          /\ at[b][2] <= Len(Migration(b))
          /\ Built(dialect, Seen(b), num[b], at[b][1], at[b][2])
    /\ pc[b] = "commit" => Built(dialect, Seen(b), num[b], at[b][1] + 1, 1)
    /\ pc[b] \in {"delete", "create", "save"} =>
          num[b] > release[b] /\ Recordable(num[b] - 1)
    /\ pc[b] = "done" => Built(dialect, made, release[b] + 1, 1, 1)

BuiltInv ==
    /\ dialect \in Dialects
    /\ release \in [Builders -> 1 .. LatestRevision]
    /\ num \in [Builders -> 0 .. LatestRevision + 1]
    /\ at \in [Builders -> (Nat \ {0}) \X (Nat \ {0})]
    /\ broken \in [Builders -> BOOLEAN]
    /\ faults \in 0 .. MaxFaults
    /\ made \subseteq Names(dialect)
    /\ \A n \in rows : Recordable(n)
    /\ \A b \in Builders : Stands(b)


\* What has been built stays built as structures are added.
LEMMA StaysBuilt ==
    ASSUME NEW d, NEW S, NEW T, S \subseteq T, NEW r, NEW m, NEW k, Built(d, S, r, m, k)
    PROVE  Built(d, T, r, m, k)
BY Zenon DEF Built

\* Nothing is due before the first statement.
LEMMA NothingBefore == ASSUME NEW d, NEW S PROVE Built(d, S, 1, 1, 1)
<1> SUFFICES ASSUME NEW i \in 1 .. LatestRevision, NEW j \in 1 .. Len(Migrations[d][i]),
                    NEW l \in 1 .. Len(Migrations[d][i][j]), Before(i, j, l, 1, 1, 1)
             PROVE  FALSE
    BY Zenon DEF Built
<1> HIDE DEF LatestRevision
<1>1. i >= 1 /\ ~(i < 1)
    BY DEF LatestRevision
<1>2. ~(j < 1) /\ ~(l < 1)
    OBVIOUS
<1> QED
    BY <1>1, <1>2 DEF Before

\* The statement after one that has run.
LEMMA NextStatementBuilt ==
    ASSUME NEW d, NEW S, NEW r \in Nat, NEW m \in Nat, NEW k \in Nat,
           Built(d, S, r, m, k),
           Due(d, Migrations[d][r][m][k]) => Migrations[d][r][m][k].name \in S
    PROVE  Built(d, S, r, m, k + 1)
<1> SUFFICES ASSUME NEW i \in 1 .. LatestRevision, NEW j \in 1 .. Len(Migrations[d][i]),
                    NEW l \in 1 .. Len(Migrations[d][i][j]),
                    Due(d, Migrations[d][i][j][l]), Before(i, j, l, r, m, k + 1)
             PROVE  Migrations[d][i][j][l].name \in S
    BY Zenon DEF Built
<1>1. Before(i, j, l, r, m, k) \/ (i = r /\ j = m /\ l = k)
    BY DEF Before
<1> QED
    BY <1>1, Zenon DEF Built

\* The migration after one whose last statements have run, or are not due.
LEMMA NextMigrationBuilt ==
    ASSUME NEW d, NEW S, NEW r \in Nat, NEW m \in Nat, NEW k \in Nat,
           Built(d, S, r, m, k),
           \A l \in 1 .. Len(Migrations[d][r][m]) :
              l >= k /\ Due(d, Migrations[d][r][m][l]) => Migrations[d][r][m][l].name \in S
    PROVE  Built(d, S, r, m + 1, 1)
<1> SUFFICES ASSUME NEW i \in 1 .. LatestRevision, NEW j \in 1 .. Len(Migrations[d][i]),
                    NEW l \in 1 .. Len(Migrations[d][i][j]),
                    Due(d, Migrations[d][i][j][l]), Before(i, j, l, r, m + 1, 1)
             PROVE  Migrations[d][i][j][l].name \in S
    BY Zenon DEF Built
<1>1. Before(i, j, l, r, m, k) \/ (i = r /\ j = m /\ l >= k)
    BY DEF Before
<1> QED
    BY <1>1, Zenon DEF Built

\* The revision after one whose migrations have run.
LEMMA NextRevisionBuilt ==
    ASSUME NEW d, NEW S, NEW r \in Nat, NEW m \in Nat, m > Len(Migrations[d][r]),
           Len(Migrations[d][r]) \in Nat, Built(d, S, r, m, 1)
    PROVE  Built(d, S, r + 1, 1, 1)
<1> SUFFICES ASSUME NEW i \in 1 .. LatestRevision, NEW j \in 1 .. Len(Migrations[d][i]),
                    NEW l \in 1 .. Len(Migrations[d][i][j]),
                    Due(d, Migrations[d][i][j][l]), Before(i, j, l, r + 1, 1, 1)
             PROVE  Migrations[d][i][j][l].name \in S
    BY Zenon DEF Built
<1>1. i \in Nat /\ j \in Nat /\ l \in Nat /\ j >= 1 /\ l >= 1
    BY DEF LatestRevision
<1>2. Before(i, j, l, r, m, 1)
    <2>1. i < r \/ i = r
        BY <1>1 DEF Before
    <2>2. i = r => j < m
        BY <1>1
    <2> QED
        BY <2>1, <2>2 DEF Before
<1> QED
    BY <1>2, Zenon DEF Built

\* A later revision has everything of an earlier one.
LEMMA EarlierRevisionBuilt ==
    ASSUME NEW d, NEW S, NEW r \in Nat, NEW q \in Nat, q <= r, Built(d, S, r, 1, 1)
    PROVE  Built(d, S, q, 1, 1)
<1> SUFFICES ASSUME NEW i \in 1 .. LatestRevision, NEW j \in 1 .. Len(Migrations[d][i]),
                    NEW l \in 1 .. Len(Migrations[d][i][j]),
                    Due(d, Migrations[d][i][j][l]), Before(i, j, l, q, 1, 1)
             PROVE  Migrations[d][i][j][l].name \in S
    BY Zenon DEF Built
<1>1. Before(i, j, l, r, 1, 1)
    BY DEF Before, LatestRevision
<1> QED
    BY <1>1, Zenon DEF Built

\* The statements of the first r revisions, each at its place.
LEMMA StatementsAre ==
    ASSUME NEW d, NEW r, NEW s
    PROVE  s \in Statements(d, r) <=>
              \E i \in 1 .. r : \E j \in DOMAIN Migrations[d][i] :
                  \E l \in DOMAIN Migrations[d][i][j] : s = Migrations[d][i][j][l]
<1> DEFINE In(i) == UNION {Range(m) : m \in Range(Migrations[d][i])}
<1>1. ASSUME NEW i
      PROVE  s \in In(i) <=> \E j \in DOMAIN Migrations[d][i] :
                  \E l \in DOMAIN Migrations[d][i][j] : s = Migrations[d][i][j][l]
    <2>1. s \in In(i) <=> \E m \in Range(Migrations[d][i]) : s \in Range(m)
        OBVIOUS
    <2> HIDE DEF In
    <2>2. QED
        BY <2>1 DEF Range
<1>2. Statements(d, r) = UNION {In(i) : i \in 1 .. r}
    BY DEF Statements
<1> HIDE DEF In
<1>3. s \in Statements(d, r) <=> \E i \in 1 .. r : s \in In(i)
    BY <1>2
<1> QED
    BY <1>1, <1>3

\* What a revision promises has been built once the next one is begun.
LEMMA PromisedIsBuilt ==
    ASSUME NEW d \in AllDialects, NEW S, NEW r \in 1 .. LatestRevision,
           Built(d, S, r + 1, 1, 1)
    PROVE  Promised(d, r) \subseteq S
<1> SUFFICES ASSUME NEW s \in Statements(d, r), d = "oracle" => "on" \notin DOMAIN s
             PROVE  s.name \in S
    BY Zenon DEF Promised
<1>1. PICK i \in 1 .. r : \E j \in DOMAIN Migrations[d][i] :
                              \E l \in DOMAIN Migrations[d][i][j] : s = Migrations[d][i][j][l]
    BY StatementsAre
<1>2. i \in 1 .. LatestRevision /\ i < r + 1
    BY DEF LatestRevision
<1>3. PICK j \in DOMAIN Migrations[d][i] :
               \E l \in DOMAIN Migrations[d][i][j] : s = Migrations[d][i][j][l]
    BY <1>1
<1>4. PICK l \in DOMAIN Migrations[d][i][j] : s = Migrations[d][i][j][l]
    BY <1>3
<1>5. j \in 1 .. Len(Migrations[d][i]) /\ l \in 1 .. Len(Migrations[d][i][j])
    <2>1. j \in 1 .. Len(Migrations[d][i])
        BY <1>2, MigrationsAre
    <2>2. DOMAIN Migrations[d][i][j] = 1 .. Len(Migrations[d][i][j])
        BY <1>2, <2>1, MigrationsAre
    <2> QED
        BY <2>1, <2>2
<1>6. Before(i, j, l, r + 1, 1, 1) /\ Due(d, Migrations[d][i][j][l])
    BY <1>2, <1>4, Zenon DEF Before, Due
<1> QED
    BY <1>2, <1>4, <1>5, <1>6, Zenon DEF Built

\* Every statement's structure is one of those the releases know.
LEMMA NamesOfStatements ==
    ASSUME NEW d \in AllDialects, NEW i \in 1 .. LatestRevision,
           NEW j \in 1 .. Len(Migrations[d][i]), NEW l \in 1 .. Len(Migrations[d][i][j])
    PROVE  Migrations[d][i][j][l].name \in Names(d)
<1>1. j \in DOMAIN Migrations[d][i] /\ l \in DOMAIN Migrations[d][i][j]
    BY MigrationsAre, Zenon
<1>2. Migrations[d][i][j][l] \in Statements(d, LatestRevision)
    BY <1>1, StatementsAre, Zenon
<1> QED
    BY <1>2, Zenon DEF Names

-----------------------------------------------------------------------------
(* The actions.  One builder moves, structures are only ever added, and    *)
(* the others stand as they stood.                                         *)

LEMMA BuiltInit == Init => BuiltInv
<1> SUFFICES ASSUME Init PROVE BuiltInv
    OBVIOUS
<1>1. ASSUME NEW b \in Builders PROVE Stands(b)
    BY DEF Init, Stands, NoWork
<1>2. at \in [Builders -> (Nat \ {0}) \X (Nat \ {0})]
    BY DEF Init
<1>3. num \in [Builders -> 0 .. LatestRevision + 1]
    BY DEF Init, LatestRevision
<1> QED
    BY <1>1, <1>2, <1>3, BuilderAssumption DEF Init, BuiltInv

LEMMA BuilderMoves ==
    ASSUME RowInv, BuiltInv, NEW b \in Builders,
           UNCHANGED <<dialect, release>>,
           made \subseteq made', made' \subseteq Names(dialect),
           num' \in [Builders -> 0 .. LatestRevision + 1],
           at' \in [Builders -> (Nat \ {0}) \X (Nat \ {0})],
           broken' \in [Builders -> BOOLEAN], faults' \in 0 .. MaxFaults,
           \A c \in Builders \ {b} : /\ pc'[c] = pc[c] /\ num'[c] = num[c]
                                     /\ at'[c] = at[c] /\ work'[c] = work[c],
           \A n \in rows' : Recordable(n)',
           Stands(b)'
    PROVE  BuiltInv'
<1>1. \A n : Recordable(n) => Recordable(n)'
    BY StaysBuilt, Zenon DEF Recordable
<1>2. ASSUME NEW c \in Builders, c # b PROVE Stands(c)'
    <2>1. Stands(c)
        BY DEF BuiltInv
    <2>2. /\ pc'[c] = pc[c] /\ num'[c] = num[c] /\ at'[c] = at[c] /\ work'[c] = work[c]
          /\ dialect' = dialect /\ release' = release
        BY <1>2
    <2>3. Seen(c) \subseteq Seen(c)'
        BY <2>2 DEF Seen
    <2>4. \A r, m, k : /\ Built(dialect, Seen(c), r, m, k) => Built(dialect, Seen(c)', r, m, k)
                       /\ Built(dialect, made, r, m, k) => Built(dialect, made', r, m, k)
        BY <2>3, StaysBuilt, Zenon
    <2>5. /\ work'[c].made \subseteq Names(dialect')
          /\ ~Transactional' => work'[c].made = {}
          /\ \A n \in work'[c].new : Recordable(n)'
          /\ pc'[c] \in {"migrate", "commit"} => num'[c] \in 1 .. release'[c]
        BY <1>1, <2>1, <2>2 DEF Stands, Transactional
    <2>6. ASSUME pc[c] = "migrate"
          PROVE  /\ at[c][1] <= Len(Migrations[dialect][num[c]])
                 /\ at[c][2] <= Len(Migration(c))
                 /\ Built(dialect, Seen(c)', num[c], at[c][1], at[c][2])
        BY <2>1, <2>4, <2>6, Zenon DEF Stands
    <2>7. ASSUME pc[c] = "commit" PROVE Built(dialect, Seen(c)', num[c], at[c][1] + 1, 1)
        BY <2>1, <2>4, <2>7, Zenon DEF Stands
    <2>8. ASSUME pc[c] \in {"delete", "create", "save"}
          PROVE  /\ num[c] > release[c] /\ num[c] - 1 \in 1 .. LatestRevision
                 /\ Built(dialect, made', num[c] - 1 + 1, 1, 1)
        BY <2>1, <2>4, <2>8 DEF Stands, Recordable
    <2>9. ASSUME pc[c] = "done" PROVE Built(dialect, made', release[c] + 1, 1, 1)
        BY <2>1, <2>4, <2>9 DEF Stands
    <2> QED
        BY <2>2, <2>5, <2>6, <2>7, <2>8, <2>9 DEF Stands, Recordable, Migration
<1> QED
    BY <1>2, Zenon DEF BuiltInv

\* A builder begins a revision whose predecessors have been built, or has built
\* all of its release.
LEMMA EnterStands ==
    ASSUME RowInv, BuiltInv, NEW b \in Builders, NEW n \in Nat, n > 0, n <= LatestRevision + 1,
           Enter(b, n), UNCHANGED <<dialect, release>>,
           Built(dialect, made', n, 1, 1),
           work'[b].made \subseteq Names(dialect), ~Transactional => work'[b].made = {},
           work'[b].new = {}
    PROVE  /\ num' \in [Builders -> 0 .. LatestRevision + 1]
           /\ at' \in [Builders -> (Nat \ {0}) \X (Nat \ {0})]
           /\ \A c \in Builders \ {b} : pc'[c] = pc[c] /\ num'[c] = num[c] /\ at'[c] = at[c]
           /\ Stands(b)'
<1>1. /\ num' \in [Builders -> 0 .. LatestRevision + 1] /\ num'[b] = n
      /\ \A c \in Builders \ {b} : num'[c] = num[c]
    BY DEF Enter, BuiltInv, LatestRevision
<1>2. /\ at' \in [Builders -> (Nat \ {0}) \X (Nat \ {0})] /\ at'[b] = <<1, 1>>
      /\ \A c \in Builders \ {b} : at'[c] = at[c]
    BY DEF Enter, BuiltInv
<1>3. /\ pc'[b] = IF n \in 1 .. release[b] THEN "migrate" ELSE "delete"
      /\ \A c \in Builders \ {b} : pc'[c] = pc[c]
    BY DEF Enter, RowInv
<1>4. release[b] \in 1 .. LatestRevision /\ dialect \in AllDialects
    BY BuilderAssumption DEF BuiltInv
<1>5. Transactional' <=> Transactional
    BY DEF Transactional
<1>6. CASE n \in 1 .. release[b]
    <2>1. n \in 1 .. LatestRevision
        BY <1>4, <1>6 DEF LatestRevision
    <2>2. 1 \in 1 .. Len(Migrations[dialect][n])
        BY <1>4, <2>1, MigrationsAre
    <2>3. /\ Len(Migrations[dialect][n]) \in Nat \ {0}
          /\ Len(Migrations[dialect][n][1]) \in Nat \ {0}
        BY <1>4, <2>1, <2>2, MigrationsAre
    <2>4. Built(dialect, Seen(b)', n, 1, 1)
        BY StaysBuilt, Zenon DEF Seen
    <2> QED
        BY <1>1, <1>2, <1>3, <1>5, <1>6, <2>3, <2>4 DEF Stands, Migration
<1>7. CASE n \notin 1 .. release[b]
    <2>1. n > release[b] /\ n - 1 \in 1 .. LatestRevision /\ n - 1 + 1 = n
        BY <1>4, <1>7 DEF LatestRevision
    <2>2. Recordable(n - 1)'
        BY <2>1 DEF Recordable
    <2> QED
        BY <1>1, <1>2, <1>3, <1>5, <1>7, <2>1, <2>2 DEF Stands, Recordable
<1> QED
    BY <1>1, <1>2, <1>3, <1>6, <1>7

LEMMA ReadingBuilds ==
    ASSUME RowInv, BuiltInv, NEW b \in Builders, ReadRevision(b) \/ ReadNothing(b)
    PROVE  BuiltInv'
<1>1. Stands(b) /\ work[b].new = {} /\ pc[b] = "start" /\ release[b] \in 1 .. LatestRevision
    BY DEF BuiltInv, RowInv, ConnectionInv, ReadRevision, ReadNothing
<1>2. UNCHANGED <<dialect, release, made, rows, faults>>
    BY DEF ReadRevision, ReadNothing
<1>3. broken' \in [Builders -> BOOLEAN]
    BY Zenon DEF ReadRevision, ReadNothing, BuiltInv
<1>4. /\ work'[b] \in {work[b], NoWork}
      /\ \A c \in Builders \ {b} : work'[c] = work[c]
    BY DEF ReadRevision, ReadNothing, RowInv
<1>5. /\ work'[b].made \subseteq Names(dialect) /\ work'[b].new = {}
      /\ ~Transactional => work'[b].made = {}
    BY <1>1, <1>4 DEF Stands, NoWork
<1>6. \A n \in rows' : Recordable(n)'
    BY <1>2 DEF BuiltInv, Recordable
<1>7. ASSUME NEW n \in Nat, n > 0, n <= LatestRevision + 1, Enter(b, n),
             Built(dialect, made, n, 1, 1)
      PROVE  BuiltInv'
    <2>1. Built(dialect, made', n, 1, 1)
        BY <1>2, <1>7
    <2>2. /\ num' \in [Builders -> 0 .. LatestRevision + 1]
          /\ at' \in [Builders -> (Nat \ {0}) \X (Nat \ {0})]
          /\ \A c \in Builders \ {b} : pc'[c] = pc[c] /\ num'[c] = num[c] /\ at'[c] = at[c]
          /\ Stands(b)'
        BY <1>2, <1>5, <1>7, <2>1, EnterStands
    <2>3. made \subseteq made' /\ made' \subseteq Names(dialect) /\ faults' \in 0 .. MaxFaults
        BY <1>2 DEF BuiltInv
    <2> QED
        BY <1>2, <1>3, <1>4, <1>6, <2>2, <2>3, BuilderMoves
<1>8. CASE ReadNothing(b)
    <2>1. Built(dialect, made, 1, 1, 1)
        BY NothingBefore
    <2>2. Enter(b, 1) /\ 1 <= LatestRevision + 1
        BY <1>8 DEF ReadNothing, LatestRevision
    <2> QED
        BY <1>7, <2>1, <2>2
<1>9. CASE ReadRevision(b)
    <2>1. PICK n \in SeenRows(b) :
             \/ UpToDate(b, n) /\ pc' = [pc EXCEPT ![b] = "done"] /\ UNCHANGED <<num, at>>
             \/ ~UpToDate(b, n) /\ Enter(b, n + 1)
        BY <1>9 DEF ReadRevision
    <2>2. n \in 1 .. LatestRevision /\ Built(dialect, made, n + 1, 1, 1)
        BY <1>1, <2>1 DEF SeenRows, BuiltInv, Recordable
    <2>3. CASE ~UpToDate(b, n) /\ Enter(b, n + 1)
        BY <1>7, <2>2, <2>3 DEF LatestRevision
    <2>4. CASE UpToDate(b, n) /\ pc' = [pc EXCEPT ![b] = "done"] /\ UNCHANGED <<num, at>>
        <3>1. pc'[b] = "done" /\ \A c \in Builders \ {b} : pc'[c] = pc[c]
            BY <2>4 DEF RowInv
        <3>2. Stands(b)'
            BY <1>2, <1>5, <2>2, <2>4, <3>1 DEF Stands, UpToDate, Transactional
        <3>3. /\ num' \in [Builders -> 0 .. LatestRevision + 1]
              /\ at' \in [Builders -> (Nat \ {0}) \X (Nat \ {0})]
              /\ made \subseteq made' /\ made' \subseteq Names(dialect)
              /\ faults' \in 0 .. MaxFaults
            BY <1>2, <2>4 DEF BuiltInv
        <3> QED
            BY <1>2, <1>3, <1>4, <1>6, <2>4, <3>1, <3>2, <3>3, BuilderMoves
    <2> QED
        BY <2>1, <2>3, <2>4
<1> QED
    BY <1>8, <1>9

\* A statement that has run, or was not due, and what comes behind it.
LEMMA StatementBuilds ==
    ASSUME RowInv, BuiltInv, NEW b \in Builders, pc[b] = "migrate",
           NEW S, S = Seen(b) \cup Created(b)
    PROVE  /\ S \subseteq Names(dialect)
           /\ EndsMigration(b) => Built(dialect, S, num[b], at[b][1] + 1, 1)
           /\ ~EndsMigration(b) => /\ at[b][2] < Len(Migration(b))
                                   /\ Built(dialect, S, num[b], at[b][1], at[b][2] + 1)
<1> DEFINE d == dialect
           r == num[b]
           m == at[b][1]
           k == at[b][2]
<1>1. Stands(b)
    BY DEF BuiltInv
<1>2. d \in AllDialects /\ r \in 1 .. LatestRevision
    <2>1. r \in 1 .. release[b] /\ release[b] \in 1 .. LatestRevision
        BY <1>1 DEF BuiltInv, Stands
    <2> QED
        BY <2>1, BuilderAssumption DEF BuiltInv, LatestRevision
<1>3. m \in Nat \ {0} /\ k \in Nat \ {0}
    BY DEF BuiltInv
<1>4. m \in 1 .. Len(Migrations[d][r])
    <2>1. Len(Migrations[d][r]) \in Nat
        BY <1>2, MigrationsAre
    <2> QED
        BY <1>1, <1>3, <2>1 DEF Stands
<1>5. /\ Len(Migrations[d][r][m]) \in Nat
      /\ d = "oracle" => \A l \in 2 .. Len(Migrations[d][r][m]) :
                            "on" \in DOMAIN Migrations[d][r][m][l]
    BY <1>2, <1>4, MigrationIs
<1>6. k \in 1 .. Len(Migrations[d][r][m]) /\ Built(d, Seen(b), r, m, k)
    BY <1>1, <1>3, <1>5 DEF Stands, Migration
<1>7. Statement(b) = Migrations[d][r][m][k]
    BY DEF Statement, Migration
<1>8. Statement(b).name \in Names(d)
    BY <1>2, <1>4, <1>6, <1>7, NamesOfStatements
<1>9. S \subseteq Names(d)
    BY <1>1, <1>8 DEF Created, Seen, BuiltInv, Stands
<1>10. Due(d, Statement(b)) => Statement(b).name \in S
    BY DEF Due, Created, AlreadyThere
<1>11. Built(d, S, r, m, k)
    BY <1>6, StaysBuilt, Zenon
<1>12. ASSUME EndsMigration(b) PROVE Built(d, S, r, m + 1, 1)
    <2>1. ASSUME NEW l \in 1 .. Len(Migrations[d][r][m]), l >= k, Due(d, Migrations[d][r][m][l])
          PROVE  Migrations[d][r][m][l].name \in S
        <3>1. CASE l = k
            BY <1>7, <1>10, <2>1, <3>1
        <3>2. CASE l # k
            <4>1. l > k /\ l \in 2 .. Len(Migrations[d][r][m]) /\ k # Len(Migrations[d][r][m])
                BY <1>3, <1>5, <2>1, <3>2
            <4>2. d = "oracle"
                BY <1>12, <4>1 DEF EndsMigration, Migration
            <4> QED
                BY <1>5, <2>1, <4>1, <4>2 DEF Due
        <3> QED
            BY <3>1, <3>2
    <2>2. \A l \in 1 .. Len(Migrations[d][r][m]) :
             l >= k /\ Due(d, Migrations[d][r][m][l]) => Migrations[d][r][m][l].name \in S
        BY <2>1, Zenon
    <2>3. r \in Nat /\ m \in Nat /\ k \in Nat
        BY <1>2, <1>3 DEF LatestRevision
    <2> HIDE DEF d, r, m, k
    <2> QED
        BY <1>11, <2>2, <2>3, NextMigrationBuilt, Zenon
<1>13. ASSUME ~EndsMigration(b) PROVE k < Len(Migration(b)) /\ Built(d, S, r, m, k + 1)
    <2>1. k < Len(Migration(b))
        BY <1>5, <1>6, <1>13 DEF EndsMigration, Migration
    <2>2. Built(d, S, r, m, k + 1)
        BY <1>2, <1>3, <1>7, <1>10, <1>11, NextStatementBuilt DEF LatestRevision
    <2> QED
        BY <2>1, <2>2
<1> QED
    BY <1>9, <1>12, <1>13

\* The migration behind one that is finished, or the next revision.
LEMMA NextMigrationStands ==
    ASSUME RowInv, BuiltInv, NEW b \in Builders, pc[b] \in {"migrate", "commit"},
           Built(dialect, made', num[b], at[b][1] + 1, 1),
           UNCHANGED <<dialect, release>>,
           work'[b].made \subseteq Names(dialect), ~Transactional => work'[b].made = {},
           work'[b].new = {},
           IF at[b][1] < Len(Migrations[dialect][num[b]])
              THEN /\ at' = [at EXCEPT ![b] = <<at[b][1] + 1, 1>>]
                   /\ pc' = [pc EXCEPT ![b] = "migrate"]
                   /\ UNCHANGED num
              ELSE Enter(b, num[b] + 1)
    PROVE  /\ num' \in [Builders -> 0 .. LatestRevision + 1]
           /\ at' \in [Builders -> (Nat \ {0}) \X (Nat \ {0})]
           /\ \A c \in Builders \ {b} : pc'[c] = pc[c] /\ num'[c] = num[c] /\ at'[c] = at[c]
           /\ Stands(b)'
<1>1. num[b] \in 1 .. release[b] /\ release[b] \in 1 .. LatestRevision
    BY DEF BuiltInv, Stands
<1>2. /\ dialect \in AllDialects /\ num[b] \in Nat /\ num[b] \in 1 .. LatestRevision
      /\ num[b] + 1 \in Nat /\ num[b] + 1 > 0 /\ num[b] + 1 <= LatestRevision + 1
    BY <1>1, BuilderAssumption DEF BuiltInv, LatestRevision
<1>3. at[b][1] \in Nat \ {0} /\ at[b] \in (Nat \ {0}) \X (Nat \ {0})
    BY DEF BuiltInv
<1>4. Len(Migrations[dialect][num[b]]) \in Nat
    BY <1>2, MigrationsAre
<1>5. CASE at[b][1] < Len(Migrations[dialect][num[b]])
    <2>1. /\ at' = [at EXCEPT ![b] = <<at[b][1] + 1, 1>>]
          /\ pc' = [pc EXCEPT ![b] = "migrate"]
          /\ UNCHANGED num
        BY <1>5
    <2>2. /\ at' \in [Builders -> (Nat \ {0}) \X (Nat \ {0})]
          /\ at'[b] = <<at[b][1] + 1, 1>> /\ \A c \in Builders \ {b} : at'[c] = at[c]
        BY <1>3, <2>1 DEF BuiltInv
    <2>3. pc'[b] = "migrate" /\ \A c \in Builders \ {b} : pc'[c] = pc[c]
        BY <2>1 DEF RowInv
    <2>4. at[b][1] + 1 \in 1 .. Len(Migrations[dialect][num[b]])
        BY <1>3, <1>4, <1>5
    <2>5. Len(Migrations[dialect][num[b]][at[b][1] + 1]) \in Nat \ {0}
        BY <1>2, <2>4, MigrationsAre
    <2>6. Built(dialect, Seen(b)', num[b], at[b][1] + 1, 1)
        <3>1. made' \subseteq Seen(b)'
            BY DEF Seen
        <3> QED
            BY <3>1, StaysBuilt, Zenon
    <2>7. Stands(b)'
        BY <1>1, <2>1, <2>2, <2>3, <2>4, <2>5, <2>6 DEF Stands, Migration, Transactional
    <2> QED
        BY <2>1, <2>2, <2>3, <2>7 DEF BuiltInv
<1>6. CASE ~(at[b][1] < Len(Migrations[dialect][num[b]]))
    <2>1. Built(dialect, made', num[b] + 1, 1, 1)
        BY <1>2, <1>3, <1>4, <1>6, NextRevisionBuilt
    <2>2. Enter(b, num[b] + 1)
        BY <1>6
    <2> QED
        BY <1>2, <2>1, <2>2, EnterStands
<1> QED
    BY <1>5, <1>6

\* There is a statement behind one that is not the last.
LEMMA StatementsLeft ==
    ASSUME BuiltInv, NEW b \in Builders, pc[b] = "migrate", at[b][2] < Len(Migration(b))
    PROVE  at[b][2] + 1 <= Len(Migration(b))
<1>1. Stands(b) /\ at[b] \in (Nat \ {0}) \X (Nat \ {0})
    BY DEF BuiltInv
<1>2. dialect \in AllDialects /\ num[b] \in 1 .. LatestRevision
    BY <1>1, BuilderAssumption DEF BuiltInv, Stands, LatestRevision
<1>3. Len(Migrations[dialect][num[b]]) \in Nat
    BY <1>2, MigrationsAre
<1>4. at[b][1] \in 1 .. Len(Migrations[dialect][num[b]])
    BY <1>1, <1>3 DEF Stands
<1>5. Len(Migration(b)) \in Nat
    BY <1>2, <1>4, MigrationIs DEF Migration
<1> QED
    BY <1>1, <1>5

\* A statement outside a transaction: its structure is there at once.
LEMMA DurableBuilds ==
    ASSUME RowInv, BuiltInv, NEW b \in Builders, ExecuteDurable(b)
    PROVE  BuiltInv'
<1>1. Stands(b) /\ pc[b] = "migrate" /\ ~Transactional /\ work[b].made = {}
    BY DEF BuiltInv, ExecuteDurable, Stands
<1>2. /\ UNCHANGED <<dialect, release, broken, faults>> /\ made' = made \cup Created(b)
      /\ rows' = SeenRows(b) /\ work' = [work EXCEPT ![b] = NoWork] /\ NextStatement(b)
    BY DEF ExecuteDurable
<1>3. made' = Seen(b) \cup Created(b)
    BY <1>1, <1>2 DEF Seen
<1>4. /\ made' \subseteq Names(dialect)
      /\ EndsMigration(b) => Built(dialect, made', num[b], at[b][1] + 1, 1)
      /\ ~EndsMigration(b) => /\ at[b][2] < Len(Migration(b))
                              /\ Built(dialect, made', num[b], at[b][1], at[b][2] + 1)
    BY <1>1, <1>3, StatementBuilds
<1>5. work'[b] = NoWork /\ \A c \in Builders \ {b} : work'[c] = work[c]
    BY <1>2 DEF RowInv
<1>6. /\ work'[b].made \subseteq Names(dialect) /\ work'[b].made = {} /\ work'[b].new = {}
    BY <1>5 DEF NoWork
<1>7. \A n \in rows' : Recordable(n)'
    <2>1. \A n \in rows' : Recordable(n)
        BY <1>1, <1>2 DEF BuiltInv, Stands, SeenRows
    <2>2. made \subseteq made'
        BY <1>2
    <2> QED
        BY <1>2, <2>1, <2>2, StaysBuilt, Zenon DEF Recordable
<1>8. /\ num' \in [Builders -> 0 .. LatestRevision + 1]
      /\ at' \in [Builders -> (Nat \ {0}) \X (Nat \ {0})]
      /\ \A c \in Builders \ {b} : pc'[c] = pc[c] /\ num'[c] = num[c] /\ at'[c] = at[c]
      /\ Stands(b)'
    <2>1. CASE EndsMigration(b)
        <3>1. pc = [pc EXCEPT ![b] = "migrate"]
            BY <1>1 DEF RowInv
        <3>2. IF at[b][1] < Len(Migrations[dialect][num[b]])
                 THEN /\ at' = [at EXCEPT ![b] = <<at[b][1] + 1, 1>>]
                      /\ pc' = [pc EXCEPT ![b] = "migrate"]
                      /\ UNCHANGED num
                 ELSE Enter(b, num[b] + 1)
            BY <1>1, <1>2, <2>1, <3>1 DEF NextStatement
        <3> QED
            BY <1>1, <1>2, <1>4, <1>6, <2>1, <3>2, NextMigrationStands
    <2>2. CASE ~EndsMigration(b)
        <3>1. at' = [at EXCEPT ![b] = <<at[b][1], at[b][2] + 1>>] /\ UNCHANGED <<pc, num>>
            BY <1>2, <2>2 DEF NextStatement
        <3>2. at[b] \in (Nat \ {0}) \X (Nat \ {0})
            BY DEF BuiltInv
        <3>3. /\ at' \in [Builders -> (Nat \ {0}) \X (Nat \ {0})]
              /\ at'[b] = <<at[b][1], at[b][2] + 1>> /\ \A c \in Builders \ {b} : at'[c] = at[c]
            BY <3>1, <3>2 DEF BuiltInv
        <3>4. Built(dialect, Seen(b)', num[b], at[b][1], at[b][2] + 1)
            <4>1. made' \subseteq Seen(b)'
                BY DEF Seen
            <4> QED
                BY <1>4, <2>2, <4>1, StaysBuilt, Zenon
        <3>5. at[b][2] + 1 <= Len(Migration(b))
            BY <1>1, <1>4, <2>2, StatementsLeft
        <3>6. Stands(b)'
            BY <1>1, <1>2, <1>6, <3>1, <3>3, <3>4, <3>5 DEF Stands, Migration, Transactional
        <3> QED
            BY <3>1, <3>3, <3>6 DEF BuiltInv
    <2> QED
        BY <2>1, <2>2
<1>9. made \subseteq made' /\ broken' \in [Builders -> BOOLEAN] /\ faults' \in 0 .. MaxFaults
    BY <1>2 DEF BuiltInv
<1> QED
    BY <1>2, <1>4, <1>5, <1>7, <1>8, <1>9, BuilderMoves

\* A statement inside a transaction: its structure is there for the connection.
LEMMA TransactionBuilds ==
    ASSUME RowInv, BuiltInv, NEW b \in Builders, ExecuteInTransaction(b)
    PROVE  BuiltInv'
<1>1. Stands(b) /\ pc[b] = "migrate" /\ Transactional /\ work[b].new = {}
    BY DEF BuiltInv, ExecuteInTransaction, RowInv, ConnectionInv
<1>2. /\ UNCHANGED <<dialect, release, made, rows, broken, faults>> /\ NextStatement(b)
      /\ work' = [work EXCEPT ![b].made = work[b].made \cup Created(b)]
    BY DEF ExecuteInTransaction
<1>3. /\ work'[b].made = work[b].made \cup Created(b) /\ work'[b].new = {}
      /\ \A c \in Builders \ {b} : work'[c] = work[c]
    BY <1>1, <1>2 DEF RowInv, ConnectionInv
<1>4. Seen(b)' = Seen(b) \cup Created(b)
    BY <1>2, <1>3 DEF Seen
<1>5. /\ Seen(b)' \subseteq Names(dialect)
      /\ EndsMigration(b) => Built(dialect, Seen(b)', num[b], at[b][1] + 1, 1)
      /\ ~EndsMigration(b) => /\ at[b][2] < Len(Migration(b))
                              /\ Built(dialect, Seen(b)', num[b], at[b][1], at[b][2] + 1)
    BY <1>1, <1>4, StatementBuilds
<1>6. work'[b].made \subseteq Names(dialect)
    BY <1>5 DEF Seen
<1>7. \A n \in rows' : Recordable(n)'
    BY <1>2 DEF BuiltInv, Recordable
<1>8. /\ num' = num
      /\ at' \in [Builders -> (Nat \ {0}) \X (Nat \ {0})]
      /\ \A c \in Builders \ {b} : pc'[c] = pc[c] /\ at'[c] = at[c]
      /\ Stands(b)'
    <2>1. CASE EndsMigration(b)
        <3>1. pc' = [pc EXCEPT ![b] = "commit"] /\ UNCHANGED <<at, num>>
            BY <1>1, <1>2, <2>1 DEF NextStatement
        <3>2. pc'[b] = "commit" /\ \A c \in Builders \ {b} : pc'[c] = pc[c]
            BY <3>1 DEF RowInv
        <3>3. Stands(b)'
            BY <1>1, <1>2, <1>3, <1>5, <1>6, <2>1, <3>1, <3>2 DEF Stands, Transactional
        <3> QED
            BY <3>1, <3>2, <3>3 DEF BuiltInv
    <2>2. CASE ~EndsMigration(b)
        <3>1. at' = [at EXCEPT ![b] = <<at[b][1], at[b][2] + 1>>] /\ UNCHANGED <<pc, num>>
            BY <1>2, <2>2 DEF NextStatement
        <3>2. at[b] \in (Nat \ {0}) \X (Nat \ {0})
            BY DEF BuiltInv
        <3>3. /\ at' \in [Builders -> (Nat \ {0}) \X (Nat \ {0})]
              /\ at'[b] = <<at[b][1], at[b][2] + 1>> /\ \A c \in Builders \ {b} : at'[c] = at[c]
            BY <3>1, <3>2 DEF BuiltInv
        <3>4. at[b][2] + 1 <= Len(Migration(b))
            BY <1>1, <1>5, <2>2, StatementsLeft
        <3>5. Stands(b)'
            BY <1>1, <1>2, <1>3, <1>5, <1>6, <2>2, <3>1, <3>3, <3>4
            DEF Stands, Migration, Transactional
        <3> QED
            BY <3>1, <3>3, <3>5 DEF BuiltInv
    <2> QED
        BY <2>1, <2>2
<1>9. /\ made \subseteq made' /\ made' \subseteq Names(dialect)
      /\ num' \in [Builders -> 0 .. LatestRevision + 1]
      /\ \A c \in Builders \ {b} : num'[c] = num[c]
      /\ broken' \in [Builders -> BOOLEAN] /\ faults' \in 0 .. MaxFaults
    BY <1>2, <1>8 DEF BuiltInv
<1> QED
    BY <1>2, <1>3, <1>7, <1>8, <1>9, BuilderMoves

\* A commit shows the others what the connection has made and recorded.
LEMMA SettleBuilds ==
    ASSUME RowInv, BuiltInv, NEW b \in Builders, Settle(b), UNCHANGED <<dialect, release>>
    PROVE  /\ made \subseteq made' /\ made' \subseteq Names(dialect) /\ made' = Seen(b)
           /\ \A n \in rows' : Recordable(n)'
           /\ work'[b] = NoWork /\ \A c \in Builders \ {b} : work'[c] = work[c]
<1>1. Stands(b)
    BY DEF BuiltInv
<1>2. made' = Seen(b) /\ rows' = SeenRows(b) /\ work' = [work EXCEPT ![b] = NoWork]
    BY DEF Settle
<1>3. made \subseteq made' /\ made' \subseteq Names(dialect)
    BY <1>1, <1>2 DEF Seen, BuiltInv, Stands
<1>4. \A n \in rows' : Recordable(n)
    BY <1>1, <1>2 DEF SeenRows, BuiltInv, Stands
<1>5. \A n \in rows' : Recordable(n)'
    BY <1>3, <1>4, StaysBuilt, Zenon DEF Recordable
<1>6. work'[b] = NoWork /\ \A c \in Builders \ {b} : work'[c] = work[c]
    BY <1>2 DEF RowInv
<1> QED
    BY <1>2, <1>3, <1>5, <1>6

LEMMA CommitMigrationBuilds ==
    ASSUME RowInv, BuiltInv, NEW b \in Builders, CommitMigration(b)
    PROVE  BuiltInv'
<1>1. Stands(b) /\ pc[b] = "commit"
    BY DEF BuiltInv, CommitMigration
<1>2. UNCHANGED <<dialect, release, broken, faults>> /\ Settle(b)
    BY DEF CommitMigration
<1>3. /\ made \subseteq made' /\ made' \subseteq Names(dialect) /\ made' = Seen(b)
      /\ \A n \in rows' : Recordable(n)'
      /\ work'[b] = NoWork /\ \A c \in Builders \ {b} : work'[c] = work[c]
    BY <1>2, SettleBuilds
<1>4. /\ work'[b].made \subseteq Names(dialect) /\ work'[b].made = {} /\ work'[b].new = {}
    BY <1>3 DEF NoWork
<1>5. Built(dialect, made', num[b], at[b][1] + 1, 1)
    BY <1>1, <1>3 DEF Stands
<1>6. IF at[b][1] < Len(Migrations[dialect][num[b]])
         THEN /\ at' = [at EXCEPT ![b] = <<at[b][1] + 1, 1>>]
              /\ pc' = [pc EXCEPT ![b] = "migrate"]
              /\ UNCHANGED num
         ELSE Enter(b, num[b] + 1)
    BY DEF CommitMigration
<1>7. /\ num' \in [Builders -> 0 .. LatestRevision + 1]
      /\ at' \in [Builders -> (Nat \ {0}) \X (Nat \ {0})]
      /\ \A c \in Builders \ {b} : pc'[c] = pc[c] /\ num'[c] = num[c] /\ at'[c] = at[c]
      /\ Stands(b)'
    BY <1>1, <1>2, <1>4, <1>5, <1>6, NextMigrationStands
<1>8. broken' \in [Builders -> BOOLEAN] /\ faults' \in 0 .. MaxFaults
    BY <1>2 DEF BuiltInv
<1> QED
    BY <1>2, <1>3, <1>7, <1>8, BuilderMoves

\* A step after which the builder keeps its numbers and nothing is made.
LEMMA PlainStepBuilds ==
    ASSUME RowInv, BuiltInv, NEW b \in Builders, NEW p, NEW w,
           UNCHANGED <<dialect, release, made, num, at>>,
           pc' = [pc EXCEPT ![b] = p], work' = [work EXCEPT ![b] = w],
           broken' \in [Builders -> BOOLEAN], faults' \in 0 .. MaxFaults,
           \A n \in rows' : Recordable(n), \A n \in w.new : Recordable(n),
           w.made \in {work[b].made, {}},
           p \in {"failed", "start"} \/ (pc[b] \in {"delete", "create"} /\ p \in {"create", "save"})
    PROVE  BuiltInv'
<1>1. Stands(b)
    BY DEF BuiltInv
<1>2. /\ pc'[b] = p /\ work'[b] = w
      /\ \A c \in Builders \ {b} : pc'[c] = pc[c] /\ work'[c] = work[c]
    BY DEF RowInv
<1>3. \A n : Recordable(n) => Recordable(n)'
    BY DEF Recordable
<1>4. /\ w.made \subseteq Names(dialect) /\ ~Transactional => w.made = {}
      /\ pc'[b] \notin {"migrate", "commit", "done"}
      /\ pc'[b] \in {"delete", "create", "save"} => pc[b] \in {"delete", "create", "save"}
    BY <1>1, <1>2 DEF Stands
<1>5. Stands(b)'
    BY <1>1, <1>2, <1>3, <1>4 DEF Stands, Recordable, Transactional
<1>6. \A n \in rows' : Recordable(n)'
    BY <1>3
<1>7. /\ made \subseteq made' /\ made' \subseteq Names(dialect)
      /\ num' \in [Builders -> 0 .. LatestRevision + 1]
      /\ at' \in [Builders -> (Nat \ {0}) \X (Nat \ {0})]
      /\ \A c \in Builders \ {b} : num'[c] = num[c] /\ at'[c] = at[c]
    BY DEF BuiltInv
<1> QED
    BY <1>2, <1>5, <1>6, <1>7, BuilderMoves

LEMMA FailureBuilds ==
    ASSUME RowInv, BuiltInv, NEW b \in Builders,
           ExecuteRaises(b) \/ CreateRaises(b) \/ Fault(b) \/ Again(b)
    PROVE  BuiltInv'
<1>1. Stands(b) /\ work = [work EXCEPT ![b] = work[b]]
    BY DEF BuiltInv, RowInv
<1>2. UNCHANGED <<dialect, release, made, rows, num, at>>
    BY DEF ExecuteRaises, CreateRaises, Raise, Again, Fault
<1>3. PICK p \in {"failed", "start"} : pc' = [pc EXCEPT ![b] = p]
    BY DEF ExecuteRaises, CreateRaises, Raise, Again, Fault
<1>4. PICK w \in {work[b], NoWork} : work' = [work EXCEPT ![b] = w]
    BY <1>1 DEF ExecuteRaises, CreateRaises, Raise, Again, Fault
<1>5. w.made \in {work[b].made, {}} /\ \A n \in w.new : Recordable(n)
    BY <1>1, <1>4 DEF Stands, NoWork
<1>6. broken' \in [Builders -> BOOLEAN]
    <2>1. CASE ExecuteRaises(b) \/ CreateRaises(b)
        <3>1. broken' = [broken EXCEPT ![b] = Transactional] /\ Transactional \in BOOLEAN
            BY <2>1 DEF ExecuteRaises, CreateRaises, Raise, Transactional
        <3> HIDE DEF Transactional
        <3> QED
            BY <3>1 DEF BuiltInv
    <2>2. CASE Fault(b) \/ Again(b)
        BY <2>2 DEF Fault, Again, BuiltInv
    <2> QED
        BY <2>1, <2>2
<1>7. faults' \in 0 .. MaxFaults
    BY BuilderAssumption DEF ExecuteRaises, CreateRaises, Raise, Again, Fault, BuiltInv
<1>8. \A n \in rows' : Recordable(n)
    BY <1>2 DEF BuiltInv
<1> QED
    BY <1>2, <1>3, <1>4, <1>5, <1>6, <1>7, <1>8, PlainStepBuilds

\* The row is deleted and inserted with a revision that has been built.
LEMMA RecordingBuilds ==
    ASSUME RowInv, BuiltInv, NEW b \in Builders, DeleteVersion(b) \/ CreateVersion(b)
    PROVE  BuiltInv'
<1>1. Stands(b) /\ work = [work EXCEPT ![b] = work[b]] /\ ConnectionInv(b)
    BY DEF BuiltInv, RowInv
<1>2. UNCHANGED <<dialect, release, made, num, at, broken, faults>>
    BY DEF DeleteVersion, CreateVersion
<1>3. PICK p \in {"create", "save"} : pc' = [pc EXCEPT ![b] = p]
    BY DEF DeleteVersion, CreateVersion
<1>4. pc[b] \in {"delete", "create"} /\ Recordable(Recorded(b))
    BY <1>1 DEF DeleteVersion, CreateVersion, Stands, Recorded
<1>5. PICK w : /\ work' = [work EXCEPT ![b] = w] /\ w.made = work[b].made
               /\ \A n \in w.new : Recordable(n)
    <2>1. \A n \in work[b].new : Recordable(n)
        BY <1>1 DEF Stands
    <2>2. CASE work' = work
        BY <1>1, <2>1, <2>2
    <2>3. CASE DeleteVersion(b) /\ work' # work
        <3> DEFINE w == [work[b] EXCEPT !.gone = work[b].gone \cup rows, !.new = {}]
        <3>1. work' = [work EXCEPT ![b] = w]
            BY <1>1, <2>3 DEF DeleteVersion
        <3>2. w.made = work[b].made /\ w.new = {}
            BY <1>1 DEF ConnectionInv
        <3> QED
            BY <3>1, <3>2
    <2>4. CASE CreateVersion(b) /\ work' # work
        <3> DEFINE w == [work[b] EXCEPT !.new = {Recorded(b)}]
        <3>1. work' = [work EXCEPT ![b] = w]
            BY <1>1, <2>4 DEF CreateVersion
        <3>2. w.made = work[b].made /\ w.new = {Recorded(b)}
            BY <1>1 DEF ConnectionInv
        <3> QED
            BY <1>4, <3>1, <3>2
    <2> QED
        BY <2>2, <2>3, <2>4
<1>6. \A n \in rows' : Recordable(n)
    BY <1>4 DEF DeleteVersion, CreateVersion, BuiltInv
<1>7. broken' \in [Builders -> BOOLEAN] /\ faults' \in 0 .. MaxFaults
    BY <1>2 DEF BuiltInv
<1> QED
    BY <1>2, <1>3, <1>4, <1>5, <1>6, <1>7, PlainStepBuilds

LEMMA CommitVersionBuilds ==
    ASSUME RowInv, BuiltInv, NEW b \in Builders, CommitVersion(b)
    PROVE  BuiltInv'
<1>1. Stands(b) /\ pc[b] = "save"
    BY DEF BuiltInv, CommitVersion
<1>2. /\ UNCHANGED <<dialect, release, num, at, broken, faults>> /\ Settle(b)
      /\ pc' = [pc EXCEPT ![b] = "done"]
    BY DEF CommitVersion
<1>3. /\ made \subseteq made' /\ made' \subseteq Names(dialect)
      /\ \A n \in rows' : Recordable(n)'
      /\ work'[b] = NoWork /\ \A c \in Builders \ {b} : work'[c] = work[c]
    BY <1>2, SettleBuilds
<1>4. pc'[b] = "done" /\ \A c \in Builders \ {b} : pc'[c] = pc[c]
    BY <1>2 DEF RowInv
<1>5. Built(dialect, made', release[b] + 1, 1, 1)
    <2>1. num[b] > release[b] /\ Built(dialect, made, num[b] - 1 + 1, 1, 1)
        BY <1>1 DEF Stands, Recordable
    <2>2. release[b] + 1 \in Nat /\ num[b] - 1 + 1 \in Nat /\ release[b] + 1 <= num[b] - 1 + 1
        BY <2>1 DEF BuiltInv, LatestRevision
    <2>3. Built(dialect, made, release[b] + 1, 1, 1)
        BY <2>1, <2>2, EarlierRevisionBuilt
    <2> QED
        BY <1>3, <2>3, StaysBuilt, Zenon
<1>6. Stands(b)'
    BY <1>2, <1>3, <1>4, <1>5 DEF Stands, NoWork
<1>7. /\ num' \in [Builders -> 0 .. LatestRevision + 1]
      /\ at' \in [Builders -> (Nat \ {0}) \X (Nat \ {0})]
      /\ \A c \in Builders \ {b} : num'[c] = num[c] /\ at'[c] = at[c]
      /\ broken' \in [Builders -> BOOLEAN] /\ faults' \in 0 .. MaxFaults
    BY <1>2 DEF BuiltInv
<1> QED
    BY <1>2, <1>3, <1>4, <1>6, <1>7, BuilderMoves

LEMMA BuiltStep == RowInv /\ BuiltInv /\ [Next]_vars => BuiltInv'
<1> SUFFICES ASSUME RowInv, BuiltInv, [Next]_vars PROVE BuiltInv'
    OBVIOUS
<1>1. CASE UNCHANGED vars
    BY <1>1, Zenon
    DEF vars, BuiltInv, Stands, Recordable, Seen, Migration, Transactional
<1>2. ASSUME NEW b \in Builders, Build(b) \/ Fault(b)
      PROVE  BuiltInv'
    <2>1. CASE ReadRevision(b) \/ ReadNothing(b)
        BY <2>1, ReadingBuilds
    <2>2. CASE ExecuteDurable(b)
        BY <2>2, DurableBuilds
    <2>3. CASE ExecuteInTransaction(b)
        BY <2>3, TransactionBuilds
    <2>4. CASE CommitMigration(b)
        BY <2>4, CommitMigrationBuilds
    <2>5. CASE DeleteVersion(b) \/ CreateVersion(b)
        BY <2>5, RecordingBuilds
    <2>6. CASE CommitVersion(b)
        BY <2>6, CommitVersionBuilds
    <2>7. CASE ExecuteRaises(b) \/ CreateRaises(b) \/ Fault(b) \/ Again(b)
        BY <2>7, FailureBuilds
    <2> QED
        BY <1>2, <2>1, <2>2, <2>3, <2>4, <2>5, <2>6, <2>7 DEF Build
<1> QED
    BY <1>1, <1>2 DEF Next

\* The invariants give the property.
LEMMA BuiltGives == RowInv /\ BuiltInv => RevisionIsBuilt
<1> SUFFICES ASSUME RowInv, BuiltInv PROVE RevisionIsBuilt
    OBVIOUS
<1>1. dialect \in AllDialects
    BY BuilderAssumption DEF BuiltInv
<1>2. \A n \in rows : Promised(dialect, n) \subseteq made
    BY <1>1, PromisedIsBuilt DEF BuiltInv, Recordable
<1>3. ASSUME NEW b \in Builders, pc[b] = "done"
      PROVE  Promised(dialect, release[b]) \subseteq made
    <2>1. release[b] \in 1 .. LatestRevision /\ Built(dialect, made, release[b] + 1, 1, 1)
        BY <1>3 DEF BuiltInv, Stands
    <2> QED
        BY <1>1, <2>1, PromisedIsBuilt
<1>4. ASSUME NEW b \in Builders
      PROVE  /\ work[b].made \subseteq {s.name : s \in Statements(dialect, LatestRevision)}
             /\ work[b].gone \cup work[b].new \subseteq 1 .. LatestRevision
             /\ pc[b] = "migrate" => /\ at[b][1] <= Len(Migrations[dialect][num[b]])
                                     /\ at[b][2] <= Len(Migration(b))
    <2>1. Stands(b) /\ ConnectionInv(b)
        BY DEF BuiltInv, RowInv
    <2>2. rows \subseteq 1 .. LatestRevision
        BY DEF BuiltInv, Recordable
    <2> QED
        BY <2>1, <2>2 DEF Stands, ConnectionInv, Names, Recordable
<1>5. /\ dialect \in Dialects /\ release \in [Builders -> 1 .. LatestRevision]
      /\ made \subseteq {s.name : s \in Statements(dialect, LatestRevision)}
      /\ rows \subseteq 1 .. LatestRevision
      /\ num \in [Builders -> 0 .. LatestRevision + 1]
      /\ at \in [Builders -> (Nat \ {0}) \X (Nat \ {0})]
      /\ broken \in [Builders -> BOOLEAN]
      /\ faults \in 0 .. MaxFaults
    BY DEF BuiltInv, Names, Recordable
<1>6. pc \in [Builders -> {"start", "migrate", "commit", "delete", "create", "save",
                           "done", "failed"}]
    BY DEF RowInv, Positions
<1>7. TypeOK
    BY <1>4, <1>5, <1>6, Zenon DEF TypeOK
<1> QED
    BY <1>2, <1>3, <1>7 DEF RevisionIsBuilt

\* A revision that is recorded has been built: whoever reads it skips only what
\* is there, and a build that returned leaves all that its release relies on,
\* however many builders of whichever releases there are, and whatever dies.
THEOREM RevisionsAreBuilt == Spec => []RevisionIsBuilt
<1>1. Init => RowInv /\ BuiltInv
    BY RowInit, BuiltInit
<1>2. (RowInv /\ BuiltInv) /\ [Next]_vars => (RowInv /\ BuiltInv)'
    BY RowStep, BuiltStep
<1>3. RowInv /\ BuiltInv => RevisionIsBuilt
    BY BuiltGives
<1> QED
    BY <1>1, <1>2, <1>3, PTL DEF Spec

-----------------------------------------------------------------------------
(***************************************************************************)
(* Provisioning                                                            *)
(***************************************************************************)
-----------------------------------------------------------------------------
(* What the invariant needs beyond KeysKeepApart: the entries of the file  *)
(* are right although it may not parse now, so are the entries a process   *)
(* is about to write, and who has asked the provider has its answer.       *)

\* Every entry names an instance that was created for its key.
RightlyKeyed(entries) == \A k \in Keys : entries[k] # 0 => issued[entries[k]] = k

ProvisionInv ==
    /\ PTypeOK
    /\ RightlyKeyed(file)
    /\ \A c \in Clients : RightlyKeyed(view[c])
    /\ \A c \in Clients : got[c] # 0 => issued[got[c]] = key[c]
    /\ \A c \in Clients : stage[c] \in {"set", "keep", "keeping"} => got[c] # 0

\* What a reader of the file finds is right too: _read takes a file that does
\* not parse for an empty one.
LEMMA EntriesAreRight ==
    ASSUME ProvisionInv
    PROVE  Entries \in [Keys -> 0 .. Len(issued)] /\ RightlyKeyed(Entries)
<1>1. NoEntries \in [Keys -> 0 .. Len(issued)] /\ RightlyKeyed(NoEntries)
    BY DEF NoEntries, RightlyKeyed, ProvisionInv, PTypeOK
<1> QED
    BY <1>1 DEF Entries, ProvisionInv, PTypeOK

\* The invariant holds when nobody has begun.
LEMMA ProvisionInvInit == PInit => ProvisionInv
<1> SUFFICES ASSUME PInit PROVE ProvisionInv
    OBVIOUS
<1>1. issued = <<>> /\ Len(issued) = 0 /\ issued \in Seq(Keys)
    BY DEF PInit
<1>2. NoEntries \in [Keys -> 0 .. Len(issued)] /\ RightlyKeyed(NoEntries)
    BY <1>1 DEF NoEntries, RightlyKeyed
<1>3. PTypeOK
    <2>1. key \in [Clients -> Keys] /\ cached \in [Clients -> BOOLEAN] /\ intact \in BOOLEAN
        BY DEF PInit
    <2>2. file \in [Keys -> 0 .. Len(issued)] /\ view \in [Clients -> [Keys -> 0 .. Len(issued)]]
        <3>1. file = NoEntries /\ view = [c \in Clients |-> NoEntries]
            BY DEF PInit
        <3>2. NoEntries \in [Keys -> 0 .. Len(issued)]
            BY <1>2
        <3>3. [c \in Clients |-> NoEntries] \in [Clients -> [Keys -> 0 .. Len(issued)]]
            BY <3>2
        <3> QED
            BY <3>1, <3>2, <3>3
    <2>3. got \in [Clients -> 0 .. Len(issued)]
        BY <1>1 DEF PInit
    <2>4. /\ stage \in [Clients -> {"start", "drop", "dropping", "post", "set", "keep",
                                    "keeping", "ready", "failed"}]
          /\ \A c \in Clients : stage[c] = "ready" => got[c] # 0
        BY DEF PInit
    <2>5. expired \subseteq 1 .. Len(issued) /\ overlap \in BOOLEAN
        BY DEF PInit
    <2>6. losses \in 0 .. MaxLosses
        BY LossesAssumption DEF PInit
    <2> QED
        BY <1>1, <2>1, <2>2, <2>3, <2>4, <2>5, <2>6 DEF PTypeOK
<1> QED
    BY <1>2, <1>3 DEF PInit, ProvisionInv

\* Reading, missing, dropping: the call moves, or takes a right view or entry.
LEMMA BeginKeepsInv ==
    ASSUME ProvisionInv, NEW c \in Clients, Hit(c) \/ Miss(c) \/ Stale(c)
    PROVE  ProvisionInv'
<1>1. Entries \in [Keys -> 0 .. Len(issued)] /\ RightlyKeyed(Entries)
    BY EntriesAreRight
<1>2. CASE Hit(c)
    <2>1. /\ Entries[key[c]] \in 0 .. Len(issued) /\ Entries[key[c]] # 0
          /\ issued[Entries[key[c]]] = key[c]
        BY <1>1, <1>2 DEF Hit, RightlyKeyed, ProvisionInv, PTypeOK
    <2>2. /\ got' = [got EXCEPT ![c] = Entries[key[c]]]
          /\ stage' = [stage EXCEPT ![c] = "ready"]
          /\ overlap' \in BOOLEAN
          /\ UNCHANGED <<key, cached, file, intact, view, issued, expired, losses>>
        BY <1>2 DEF Hit, Begin, ProvisionInv, PTypeOK
    <2> QED
        BY <2>1, <2>2 DEF ProvisionInv, PTypeOK, RightlyKeyed
<1>3. CASE Miss(c)
    BY <1>3 DEF Miss, Begin, ProvisionInv, PTypeOK, RightlyKeyed, Running
<1>4. CASE Stale(c)
    <2> DEFINE rest == [Entries EXCEPT ![key[c]] = 0]
    <2>1. rest \in [Keys -> 0 .. Len(issued)] /\ RightlyKeyed(rest)
        BY <1>1 DEF RightlyKeyed, ProvisionInv, PTypeOK
    <2>2. /\ view' = [view EXCEPT ![c] = rest]
          /\ stage' = [stage EXCEPT ![c] = "drop"]
          /\ overlap' \in BOOLEAN
          /\ UNCHANGED <<key, cached, file, intact, got, issued, expired, losses>>
        BY <1>4 DEF Stale, Begin, ProvisionInv, PTypeOK
    <2> HIDE DEF rest
    <2> QED
        BY <2>1, <2>2 DEF ProvisionInv, PTypeOK, RightlyKeyed
<1> QED
    BY <1>2, <1>3, <1>4

\* A new instance is numbered behind all others, so no entry speaks of it yet.
LEMMA PostKeepsInv ==
    ASSUME ProvisionInv, NEW c \in Clients, Post(c)
    PROVE  ProvisionInv'
<1>1. /\ issued' = Append(issued, key[c]) /\ issued' \in Seq(Keys)
      /\ Len(issued) \in Nat /\ Len(issued') = Len(issued) + 1
      /\ \A i \in 1 .. Len(issued) : issued'[i] = issued[i]
      /\ issued'[NewInstance] = key[c]
    BY DEF Post, ProvisionInv, PTypeOK, NewInstance
<1>2. ASSUME NEW entries \in [Keys -> 0 .. Len(issued)], RightlyKeyed(entries)
      PROVE  entries \in [Keys -> 0 .. Len(issued')] /\ \A k \in Keys : entries[k] # 0 => issued'[entries[k]] = k
    BY <1>1, <1>2 DEF RightlyKeyed
<1>3. PTypeOK'
    <2>1. file' \in [Keys -> 0 .. Len(issued')]
        BY <1>2 DEF Post, ProvisionInv, PTypeOK
    <2>2. view' \in [Clients -> [Keys -> 0 .. Len(issued')]]
        <3>1. 0 .. Len(issued) \subseteq 0 .. Len(issued')
            BY <1>1
        <3>2. [Keys -> 0 .. Len(issued)] \subseteq [Keys -> 0 .. Len(issued')]
            BY <3>1
        <3>3. view' = view /\ view \in [Clients -> [Keys -> 0 .. Len(issued)]]
            BY DEF Post, ProvisionInv, PTypeOK
        <3> QED
            BY <3>2, <3>3
    <2>3. got' \in [Clients -> 0 .. Len(issued')]
        BY <1>1 DEF Post, ProvisionInv, PTypeOK, NewInstance
    <2>4. /\ stage' \in [Clients -> {"start", "drop", "dropping", "post", "set", "keep",
                                     "keeping", "ready", "failed"}]
          /\ \A d \in Clients : stage'[d] = "ready" => got'[d] # 0
        BY <1>1 DEF Post, ProvisionInv, PTypeOK, NewInstance
    <2>5. expired' \subseteq 1 .. Len(issued')
        BY <1>1 DEF Post, ProvisionInv, PTypeOK
    <2> QED
        BY <1>1, <2>1, <2>2, <2>3, <2>4, <2>5 DEF Post, ProvisionInv, PTypeOK
<1>4. RightlyKeyed(file)'
    BY <1>2 DEF Post, ProvisionInv, PTypeOK, RightlyKeyed
<1>5. \A d \in Clients : RightlyKeyed(view[d])'
    <2> SUFFICES ASSUME NEW d \in Clients
                 PROVE  \A k \in Keys : view[d][k] # 0 => issued'[view[d][k]] = k
        BY DEF Post, RightlyKeyed
    <2>1. view[d] \in [Keys -> 0 .. Len(issued)] /\ RightlyKeyed(view[d])
        BY DEF ProvisionInv, PTypeOK
    <2> QED
        BY <2>1, <1>2
<1>6. \A d \in Clients : got'[d] # 0 => issued'[got'[d]] = key'[d]
    <2> SUFFICES ASSUME NEW d \in Clients, got'[d] # 0 PROVE issued'[got'[d]] = key[d]
        BY DEF Post
    <2>1. CASE d = c
        BY <1>1, <2>1 DEF Post, ProvisionInv, PTypeOK
    <2>2. CASE d # c
        <3>1. got'[d] = got[d] /\ got[d] \in 1 .. Len(issued)
            BY <2>2 DEF Post, ProvisionInv, PTypeOK
        <3> QED
            BY <1>1, <3>1 DEF ProvisionInv
    <2> QED
        BY <2>1, <2>2
<1>7. \A d \in Clients : stage'[d] \in {"set", "keep", "keeping"} => got'[d] # 0
    BY <1>1 DEF Post, ProvisionInv, PTypeOK, NewInstance
<1> QED
    BY <1>3, <1>4, <1>5, <1>6, <1>7 DEF ProvisionInv

\* set reads the file again and puts its own instance under its own key.
LEMMA ReadAgainKeepsInv ==
    ASSUME ProvisionInv, NEW c \in Clients, ReadAgain(c)
    PROVE  ProvisionInv'
<1>1. Entries \in [Keys -> 0 .. Len(issued)] /\ RightlyKeyed(Entries)
    BY EntriesAreRight
<1>2. Updated(c) \in [Keys -> 0 .. Len(issued)] /\ RightlyKeyed(Updated(c))
    BY <1>1 DEF Updated, KeptUnder, RightlyKeyed, ProvisionInv, PTypeOK
<1> QED
    BY <1>2 DEF ReadAgain, ProvisionInv, PTypeOK, RightlyKeyed

\* Opening, filling and losing the file: what is written is a view.
LEMMA FileKeepsInv ==
    ASSUME ProvisionInv, NEW c \in Clients, OpenFile(c) \/ FillFile(c)
    PROVE  ProvisionInv'
<1>1. CASE OpenFile(c)
    BY <1>1 DEF OpenFile, ProvisionInv, PTypeOK, RightlyKeyed
<1>2. CASE FillFile(c)
    BY <1>2 DEF FillFile, ProvisionInv, PTypeOK, RightlyKeyed
<1> QED
    BY <1>1, <1>2

\* The invariant is kept by every step.
LEMMA ProvisionInvNext == ProvisionInv /\ [PNext]_pvars => ProvisionInv'
<1> SUFFICES ASSUME ProvisionInv, [PNext]_pvars PROVE ProvisionInv'
    OBVIOUS
<1>1. CASE Expire
    BY <1>1, LossesAssumption DEF Expire, ProvisionInv, PTypeOK, RightlyKeyed
<1>2. ASSUME NEW c \in Clients, Provision(c) PROVE ProvisionInv'
    BY <1>2, BeginKeepsInv, FileKeepsInv, PostKeepsInv, ReadAgainKeepsInv DEF Provision
<1>3. ASSUME NEW c \in Clients, Lose(c) PROVE ProvisionInv'
    BY <1>3, LossesAssumption DEF Lose, ProvisionInv, PTypeOK, RightlyKeyed, Running
<1>4. CASE UNCHANGED pvars
    BY <1>4 DEF pvars, ProvisionInv, PTypeOK, RightlyKeyed
<1> QED
    BY <1>1, <1>2, <1>3, <1>4 DEF PNext

\* An instance is kept, and handed out, only under the key it was created for,
\* however many processes rewrite the cache file without a lock, and wherever
\* they die.
THEOREM InstancesKeepTheirKeys == PSpec => []KeysKeepApart
<1>1. ProvisionInv => KeysKeepApart
    <2> SUFFICES ASSUME ProvisionInv PROVE KeysKeepApart
        OBVIOUS
    <2>1. RightlyKeyed(Entries)
        BY EntriesAreRight
    <2> QED
        BY <2>1 DEF ProvisionInv, KeysKeepApart, RightlyKeyed
<1> QED
    BY <1>1, ProvisionInvInit, ProvisionInvNext, PTL DEF PSpec
-----------------------------------------------------------------------------
(* What makes calls reuse that neither overlap nor die: there is one call  *)
(* at a time, and from one to the next the file keeps what was handed out. *)

Stages == {"start", "drop", "dropping", "post", "set", "keep", "keeping", "ready", "failed"}

Undisturbed == ~overlap /\ \A c \in Clients : stage[c] # "failed"

\* The call has an instance which the next one of its key should find.
Reusable(c) == stage[c] = "ready" /\ cached[c] /\ got[c] \notin expired

OneAtATime == \A c, d \in Clients : Running(c) /\ Running(d) => c = d

\* The file parses unless somebody is writing it.
WrittenInFull == intact <=> \A c \in Clients : stage[c] \notin {"dropping", "keeping"}

KeptInFile == \A c \in Clients : Reusable(c) => file[key[c]] = got[c]

\* A call drops an entry only when it has expired, and puts one where there is none.
WritesItsOwn(c) ==
    /\ stage[c] \in {"drop", "dropping"} =>
          file[key[c]] \in expired /\ view[c] = [file EXCEPT ![key[c]] = 0]
    /\ cached[c] /\ stage[c] \in {"post", "set", "keep", "keeping"} => file[key[c]] = 0
    /\ stage[c] \in {"keep", "keeping"} => view[c] = [file EXCEPT ![key[c]] = got[c]]
    /\ stage[c] \in {"drop", "dropping", "set", "keep", "keeping"} => cached[c]

ReuseInv == Undisturbed => /\ OneAtATime /\ WrittenInFull /\ KeptInFile
                           /\ \A c \in Clients : WritesItsOwn(c)

\* Nobody comes back from a failure, and an overlap is not forgotten.
LEMMA WasUndisturbed ==
    ASSUME ProvisionInv, NEW c \in Clients, Provision(c), Undisturbed'
    PROVE  /\ Undisturbed /\ stage[c] # "failed"
           /\ \A d \in Clients : d # c => stage'[d] = stage[d]
<1>1. /\ overlap' = FALSE => overlap = FALSE
      /\ stage[c] # "failed"
      /\ \E to : stage' = [stage EXCEPT ![c] = to]
    BY DEF Provision, Hit, Miss, Stale, Begin, OpenFile, FillFile, Post, ReadAgain,
           ProvisionInv, PTypeOK
<1>2. \A d \in Clients : d # c => stage'[d] = stage[d]
    BY <1>1 DEF ProvisionInv, PTypeOK
<1>3. overlap \in BOOLEAN /\ overlap' = FALSE
    BY DEF Undisturbed, ProvisionInv, PTypeOK
<1> QED
    BY <1>1, <1>2, <1>3 DEF Undisturbed

\* A call that begins undisturbed finds nobody running and the file written in full.
LEMMA BeginsAlone ==
    ASSUME ProvisionInv, ReuseInv, NEW c \in Clients, Begin(c), Undisturbed, Undisturbed'
    PROVE  Entries = file /\ \A d \in Clients : ~Running(d)
<1>1. \A d \in Clients : ~Running(d)
    BY DEF Begin, Undisturbed
<1>2. WrittenInFull
    BY DEF ReuseInv
<1> QED
    BY <1>1, <1>2 DEF WrittenInFull, Running, Entries

\* A call that finds its entry hands out what the others have.
LEMMA HitReuses ==
    ASSUME ProvisionInv, ReuseInv, NEW c \in Clients, Hit(c), Undisturbed, Undisturbed'
    PROVE  ReuseInv'
<1>1. Entries = file /\ \A d \in Clients : ~Running(d)
    BY BeginsAlone DEF Hit
<1>2. /\ got' = [got EXCEPT ![c] = file[key[c]]] /\ stage' = [stage EXCEPT ![c] = "ready"]
      /\ UNCHANGED <<key, cached, file, intact, view, expired>>
    BY <1>1 DEF Hit
<1>3. stage \in [Clients -> Stages] /\ got \in [Clients -> 0 .. Len(issued)]
    BY DEF ProvisionInv, PTypeOK, Stages
<1>4. \A d \in Clients : ~Running(d)'
    BY <1>1, <1>2, <1>3 DEF Running
<1>5. OneAtATime' /\ \A d \in Clients : WritesItsOwn(d)'
    BY <1>4 DEF OneAtATime, WritesItsOwn, Running
<1>6. WrittenInFull'
    BY <1>1, <1>2 DEF ReuseInv, WrittenInFull, Running
<1>7. KeptInFile'
    BY <1>2, <1>3 DEF ReuseInv, KeptInFile, Reusable
<1> QED
    BY <1>5, <1>6, <1>7 DEF ReuseInv

\* A call that finds nothing, or an entry that has expired, has no other to fear.
LEMMA MissReuses ==
    ASSUME ProvisionInv, ReuseInv, NEW c \in Clients, Miss(c) \/ Stale(c),
           Undisturbed, Undisturbed'
    PROVE  ReuseInv'
<1>1. Entries = file /\ \A d \in Clients : ~Running(d)
    BY BeginsAlone DEF Miss, Stale
<1>2. /\ stage' = [stage EXCEPT ![c] = stage'[c]] /\ stage'[c] \in {"post", "drop"}
      /\ UNCHANGED <<key, cached, file, intact, got, expired>>
    BY DEF Miss, Stale, ProvisionInv, PTypeOK
<1>3. /\ stage \in [Clients -> Stages] /\ view \in [Clients -> [Keys -> 0 .. Len(issued)]]
      /\ key \in [Clients -> Keys] /\ cached \in [Clients -> BOOLEAN]
    BY DEF ProvisionInv, PTypeOK, Stages
<1>4. OneAtATime' /\ \A d \in Clients : d # c => ~Running(d)'
    BY <1>1, <1>2, <1>3 DEF OneAtATime, Running
<1>5. WrittenInFull' /\ KeptInFile'
    BY <1>1, <1>2, <1>3 DEF ReuseInv, WrittenInFull, KeptInFile, Reusable, Running
<1>6. WritesItsOwn(c)'
    BY <1>1, <1>2, <1>3 DEF Miss, Stale, WritesItsOwn
<1>7. \A d \in Clients : WritesItsOwn(d)'
    BY <1>4, <1>6 DEF WritesItsOwn, Running
<1> QED
    BY <1>4, <1>5, <1>7 DEF ReuseInv

\* A call goes on alone, and leaves the file and what the others have.
LEMMA GoesOnAlone ==
    ASSUME ProvisionInv, ReuseInv, NEW c \in Clients, OpenFile(c) \/ Post(c) \/ ReadAgain(c),
           Undisturbed, Undisturbed'
    PROVE  ReuseInv'
<1>1. /\ Running(c) /\ \A d \in Clients : Running(d) => d = c
    BY DEF ReuseInv, OneAtATime, OpenFile, Post, ReadAgain, Running
<1>2. /\ stage' = [stage EXCEPT ![c] = stage'[c]]
      /\ got' = [got EXCEPT ![c] = got'[c]] /\ view' = [view EXCEPT ![c] = view'[c]]
      /\ UNCHANGED <<key, cached, file, expired>>
    BY DEF OpenFile, Post, ReadAgain, ProvisionInv, PTypeOK
<1>3. /\ stage \in [Clients -> Stages] /\ view \in [Clients -> [Keys -> 0 .. Len(issued)]]
      /\ key \in [Clients -> Keys] /\ cached \in [Clients -> BOOLEAN]
      /\ got \in [Clients -> 0 .. Len(issued)]
    BY DEF ProvisionInv, PTypeOK, Stages
<1>4. OneAtATime' /\ \A d \in Clients : d # c => ~Running(d)'
    BY <1>1, <1>2, <1>3 DEF OneAtATime, Running
<1>5. WrittenInFull'
    <2>1. CASE OpenFile(c)
        <3>1. ~intact' /\ stage'[c] \in {"dropping", "keeping"}
            BY <1>3, <2>1 DEF OpenFile
        <3> QED
            BY <3>1, Zenon DEF WrittenInFull
    <2>2. CASE Post(c) \/ ReadAgain(c)
        <3>1. stage[c] \in {"post", "set"} /\ stage'[c] \in {"set", "ready", "keep"} /\ intact' = intact
            BY <1>3, <2>2 DEF Post, ReadAgain
        <3>2. \A d \in Clients : stage[d] \notin {"dropping", "keeping"}
            BY <1>1, <3>1 DEF Running
        <3>3. \A d \in Clients : stage'[d] \notin {"dropping", "keeping"}
            BY <1>4, <3>1, <3>2 DEF Running
        <3>4. WrittenInFull
            BY DEF ReuseInv
        <3> QED
            BY <3>1, <3>2, <3>3, <3>4, Zenon DEF WrittenInFull
    <2> QED
        BY <2>1, <2>2
<1>6. ~Reusable(c)'
    BY <1>3 DEF OpenFile, Post, ReadAgain, Reusable
<1>7. KeptInFile'
    BY <1>2, <1>3, <1>6 DEF ReuseInv, KeptInFile, Reusable
<1>8. WritesItsOwn(c)'
    <2>1. WritesItsOwn(c)
        BY DEF ReuseInv
    <2>2. CASE OpenFile(c)
        BY <1>3, <2>1, <2>2 DEF OpenFile, WritesItsOwn
    <2>3. CASE Post(c)
        BY <1>3, <2>1, <2>3 DEF Post, WritesItsOwn
    <2>4. CASE ReadAgain(c)
        <3>1. Entries = file
            BY <1>1, <2>4 DEF ReadAgain, ReuseInv, WrittenInFull, Entries, Running
        <3> QED
            BY <1>3, <2>1, <2>4, <3>1 DEF ReadAgain, WritesItsOwn, Updated, KeptUnder
    <2> QED
        BY <2>2, <2>3, <2>4
<1>9. \A d \in Clients : WritesItsOwn(d)'
    BY <1>4, <1>8 DEF WritesItsOwn, Running
<1> QED
    BY <1>4, <1>5, <1>7, <1>9 DEF ReuseInv

\* What is written over was expired, or not there: nobody had it to reuse.
LEMMA FillReuses ==
    ASSUME ProvisionInv, ReuseInv, NEW c \in Clients, FillFile(c), Undisturbed, Undisturbed'
    PROVE  ReuseInv'
<1>1. /\ Running(c) /\ \A d \in Clients : Running(d) => d = c
    BY DEF ReuseInv, OneAtATime, FillFile, Running
<1>2. /\ stage' = [stage EXCEPT ![c] = stage'[c]] /\ stage'[c] \in {"post", "ready"}
      /\ stage'[c] = "post" <=> stage[c] = "dropping"
      /\ stage[c] \in {"dropping", "keeping"}
      /\ file' = view[c] /\ UNCHANGED <<key, cached, view, got, expired>>
    BY DEF FillFile, ProvisionInv, PTypeOK
<1>3. /\ stage \in [Clients -> Stages] /\ view \in [Clients -> [Keys -> 0 .. Len(issued)]]
      /\ key \in [Clients -> Keys] /\ cached \in [Clients -> BOOLEAN]
      /\ got \in [Clients -> 0 .. Len(issued)] /\ file \in [Keys -> 0 .. Len(issued)]
      /\ \A d \in Clients : stage[d] = "ready" => got[d] # 0
    BY DEF ProvisionInv, PTypeOK, Stages
<1>4. OneAtATime' /\ \A d \in Clients : d # c => ~Running(d)'
    BY <1>1, <1>2, <1>3 DEF OneAtATime, Running
<1>5. WritesItsOwn(c)
    BY DEF ReuseInv
<1>6. intact'
    <2>1. ~intact
        BY <1>2 DEF ReuseInv, WrittenInFull, ProvisionInv, PTypeOK
    <2> QED
        BY <2>1 DEF FillFile
<1>7. ASSUME NEW d \in Clients, Reusable(d)' PROVE file'[key[d]] = got[d]
    <2>1. CASE d = c
        BY <1>2, <1>3, <1>5, <1>7, <2>1 DEF Reusable, WritesItsOwn
    <2>2. CASE d # c
        <3>1. Reusable(d) /\ file[key[d]] = got[d] /\ got[d] \notin expired /\ got[d] # 0
            BY <1>2, <1>3, <1>7, <2>2 DEF Reusable, ReuseInv, KeptInFile
        <3>2. key[d] # key[c]
            BY <1>2, <1>5, <3>1 DEF WritesItsOwn
        <3>3. view[c][key[d]] = file[key[d]]
            BY <1>2, <1>3, <1>5, <3>2 DEF WritesItsOwn
        <3> QED
            BY <1>2, <3>1, <3>3
    <2> QED
        BY <2>1, <2>2
<1>8. KeptInFile' /\ WrittenInFull'
    BY <1>2, <1>4, <1>3, <1>6, <1>7 DEF KeptInFile, WrittenInFull, Running
<1>9. WritesItsOwn(c)'
    <2>1. CASE stage[c] = "dropping"
        BY <1>2, <1>3, <1>5, <2>1 DEF WritesItsOwn
    <2>2. CASE stage[c] = "keeping"
        BY <1>2, <1>3, <2>2 DEF WritesItsOwn
    <2> QED
        BY <1>2, <2>1, <2>2
<1>10. \A d \in Clients : WritesItsOwn(d)'
    BY <1>4, <1>9 DEF WritesItsOwn, Running
<1> QED
    BY <1>4, <1>8, <1>10 DEF ReuseInv

LEMMA ReuseInit == PInit => ReuseInv
BY DEF PInit, ReuseInv, OneAtATime, WrittenInFull, KeptInFile, WritesItsOwn, Running, Reusable

LEMMA ReuseStep == ProvisionInv /\ ReuseInv /\ [PNext]_pvars => ReuseInv'
<1> SUFFICES ASSUME ProvisionInv, ReuseInv, [PNext]_pvars, Undisturbed' PROVE ReuseInv'
    BY DEF ReuseInv
<1>1. CASE Expire
    <2>1. Undisturbed /\ expired \subseteq expired'
          /\ UNCHANGED <<key, cached, file, intact, stage, view, got>>
        BY <1>1 DEF Expire, Undisturbed
    <2>2. OneAtATime' /\ WrittenInFull'
        BY <2>1 DEF ReuseInv, OneAtATime, WrittenInFull, Running
    <2>3. KeptInFile'
        BY <2>1 DEF ReuseInv, KeptInFile, Reusable
    <2>4. \A c \in Clients : WritesItsOwn(c)'
        BY <2>1 DEF ReuseInv, WritesItsOwn
    <2> QED
        BY <2>2, <2>3, <2>4 DEF ReuseInv
<1>2. ASSUME NEW c \in Clients, Provision(c) PROVE ReuseInv'
    BY <1>2, WasUndisturbed, HitReuses, MissReuses, GoesOnAlone, FillReuses DEF Provision
<1>3. ASSUME NEW c \in Clients, Lose(c) PROVE ReuseInv'
    BY <1>3 DEF Lose, Undisturbed, ProvisionInv, PTypeOK
<1>4. CASE UNCHANGED pvars
    BY <1>4 DEF pvars, ReuseInv, Undisturbed, OneAtATime, WrittenInFull, KeptInFile,
                WritesItsOwn, Running, Reusable
<1> QED
    BY <1>1, <1>2, <1>3, <1>4 DEF PNext

\* Calls that do not overlap reuse: none asks the provider while another of its key
\* has a live instance, unless calls overlapped or one died (ProvisionCache reads and
\* writes the file whole and without a lock).
THEOREM CallsReuseInstances == PSpec => []LaterCallsReuse
<1>1. ProvisionInv /\ ReuseInv => LaterCallsReuse
    <2> SUFFICES ASSUME ProvisionInv, ReuseInv, NEW c \in Clients, NEW d \in Clients,
                        stage[d] = "post", cached[d], stage[c] = "ready", cached[c],
                        key[c] = key[d], got[c] \notin expired, Undisturbed
                 PROVE  FALSE
        BY DEF LaterCallsReuse, Undisturbed
    <2>1. file[key[c]] = got[c] /\ got[c] # 0
        BY DEF ReuseInv, KeptInFile, Reusable, ProvisionInv, PTypeOK
    <2>2. file[key[d]] = 0
        BY DEF ReuseInv, WritesItsOwn
    <2> QED
        BY <2>1, <2>2
<1> QED
    BY <1>1, ProvisionInvInit, ProvisionInvNext, ReuseInit, ReuseStep, PTL DEF PSpec
=============================================================================
