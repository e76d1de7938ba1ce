---------------------------- MODULE SchemaBuilder ----------------------------
(***************************************************************************)
(* memori/storage/_builder.py: several processes call build() on one       *)
(* database, each with its own adapter (one connection), possibly of two   *)
(* releases of the SDK.  A builder reads the recorded revision, runs the   *)
(* migrations of every later one and commits each, and at last replaces    *)
(* the recorded revision.                                                  *)
(*                                                                         *)
(* The databases: PostgreSQL runs DDL inside the transaction; the others   *)
(* make a DDL statement durable at once, with what the connection had not  *)
(* committed; MongoDB has no transaction at all.  SQLite admits one        *)
(* writer.  A unique key makes an insert wait for another one's            *)
(* uncommitted row and fail once that row is committed.                    *)
(***************************************************************************)
EXTENDS Schema, FiniteSets

CONSTANTS Builders,    \* processes that call build()
          Dialects,    \* dialects the database may have
          MaxFaults    \* bound on lost connections and process deaths

ASSUME BuilderAssumption == Dialects \subseteq AllDialects /\ MaxFaults \in Nat

VARIABLES dialect,   \* of the database
          release,   \* latest revision each builder's SDK knows
          made,      \* names of the structures the database has
          rows,      \* committed rows of memori_schema_version
          pc,        \* where each builder stands
          num,       \* the revision it is building, then the one it records
          at,        \* <<migration, statement>> it runs next
          work,      \* what its connection has not committed
          broken,    \* its PostgreSQL transaction is aborted
          faults

vars == <<dialect, release, made, rows, pc, num, at, work, broken, faults>>

NoWork == [made |-> {}, gone |-> {}, new |-> {}]

Transactional == dialect = "postgresql"

\* Seeded fault: no connection holds its work back until a commit.
Autocommits == FALSE

HasTransactions == dialect # "mongodb"

\* Seeded fault: the flag of the PostgreSQL driver is missing.
RollbackForgotten == dialect \in {"oceanbase", "oracle"}

\* Driver.requires_rollback_on_error
RequiresRollback == dialect \in {"postgresql", "oceanbase", "oracle"}

Others(b) == Builders \ {b}
Seen(b) == made \cup work[b].made
HasTable(b, t) == \E n \in Seen(b) : n[1] = t
SeenRows(b) == (rows \ work[b].gone) \cup work[b].new

Init ==
    /\ dialect \in Dialects
    /\ release \in [Builders -> 1 .. LatestRevision]
    /\ made = {}
    /\ rows = {}
    /\ pc = [b \in Builders |-> "start"]
    /\ num = [b \in Builders |-> 0]
    /\ at = [b \in Builders |-> <<1, 1>>]
    /\ work = [b \in Builders |-> NoWork]
    /\ broken = [b \in Builders |-> FALSE]
    /\ faults = 0

-----------------------------------------------------------------------------
(***************************************************************************)
(* Reading the recorded revision.  Any exception counts as revision 0: no  *)
(* table, an empty table (fetchone() is None), an aborted transaction.     *)
(***************************************************************************)
Enter(b, n) ==
    /\ num' = [num EXCEPT ![b] = n]
    /\ at' = [at EXCEPT ![b] = <<1, 1>>]
    /\ pc' = [pc EXCEPT ![b] = IF n \in 1 .. release[b] THEN "migrate" ELSE "delete"]

Readable(b) == ~broken[b] /\ HasTable(b, "schema_version") /\ SeenRows(b) # {}

UpToDate(b, n) == n = release[b]

ReadRevision(b) ==
    /\ pc[b] = "start"
    /\ Readable(b)
    /\ \E n \in SeenRows(b) :
          \/ UpToDate(b, n) /\ pc' = [pc EXCEPT ![b] = "done"] /\ UNCHANGED <<num, at>>
          \/ ~UpToDate(b, n) /\ Enter(b, n + 1)
    /\ UNCHANGED <<dialect, release, made, rows, work, broken, faults>>

ReadNothing(b) ==
    /\ pc[b] = "start"
    /\ ~Readable(b)
    /\ IF RequiresRollback
          THEN /\ work' = [work EXCEPT ![b] = NoWork]
               /\ broken' = [broken EXCEPT ![b] = FALSE]
          ELSE /\ broken' = [broken EXCEPT ![b] =
                               @ \/ (Transactional /\ ~HasTable(b, "schema_version"))]
               /\ UNCHANGED work
    /\ Enter(b, 1)
    /\ UNCHANGED <<dialect, release, made, rows, faults>>

-----------------------------------------------------------------------------
(***************************************************************************)
(* One migration                                                           *)
(***************************************************************************)
Migration(b) == Migrations[dialect][num[b]][at[b][1]]
Statement(b) == Migration(b)[at[b][2]]

\* IF NOT EXISTS, the -955 and -1408 handlers, create_index of an equal index
AlreadyThere(b) ==
    \/ Statement(b).name \in Seen(b)
    \/ /\ dialect = "oracle"
       /\ "on" \in DOMAIN Statement(b)
       /\ Statement(b).on \in UniqueKeys(dialect, Statement(b).table)

\* Seeded fault: only the first statement of a migration is executed.
FirstEndsMigration(b) == TRUE

\* The statement after which adapter.execute() returns.
EndsMigration(b) ==
    \/ at[b][2] = Len(Migration(b))
    \/ dialect = "oracle" /\ AlreadyThere(b)

NextStatement(b) ==
    IF ~EndsMigration(b) THEN
        /\ at' = [at EXCEPT ![b] = <<@[1], @[2] + 1>>]
        /\ UNCHANGED <<pc, num>>
    ELSE IF Transactional THEN
        /\ pc' = [pc EXCEPT ![b] = "commit"]
        /\ UNCHANGED <<at, num>>
    ELSE IF at[b][1] < Len(Migrations[dialect][num[b]]) THEN
        /\ at' = [at EXCEPT ![b] = <<@[1] + 1, 1>>]
        /\ UNCHANGED <<pc, num>>
    ELSE Enter(b, num[b] + 1)

\* A foreign key to a table that is not there: only SQLite accepts it.
RefersToMissing(b) ==
    /\ dialect \notin {"sqlite", "mongodb"}
    /\ ~AlreadyThere(b)
    /\ \E t \in Statement(b).refs : ~HasTable(b, t)

Created(b) == IF AlreadyThere(b) THEN {} ELSE {Statement(b).name}

ExecuteDurable(b) ==
    /\ pc[b] = "migrate"
    /\ ~Transactional
    /\ ~RefersToMissing(b)
    /\ made' = made \cup Created(b)
    /\ rows' = SeenRows(b)
    /\ work' = [work EXCEPT ![b] = NoWork]
    /\ NextStatement(b)
    /\ UNCHANGED <<dialect, release, broken, faults>>

ExecuteInTransaction(b) ==
    /\ pc[b] = "migrate"
    /\ Transactional
    /\ ~broken[b]
    /\ ~RefersToMissing(b)
    /\ \A c \in Others(b) : Statement(b).name \notin work[c].made
    /\ work' = [work EXCEPT ![b].made = @ \cup Created(b)]
    /\ NextStatement(b)
    /\ UNCHANGED <<dialect, release, made, rows, broken, faults>>

\* The statement raises and build() with it.
Raise(b) ==
    /\ pc' = [pc EXCEPT ![b] = "failed"]
    /\ broken' = [broken EXCEPT ![b] = Transactional]
    /\ work' = IF Transactional THEN [work EXCEPT ![b] = NoWork] ELSE work
    /\ UNCHANGED <<dialect, release, made, rows, num, at, faults>>

\* Two create the same structure at once: IF NOT EXISTS has not seen the
\* other one's, and the unique keys of PostgreSQL's catalog refuse the second.
CreatedElsewhere(b) ==
    Transactional /\ \E c \in Others(b) : Statement(b).name \in work[c].made

ExecuteRaises(b) ==
    /\ pc[b] = "migrate"
    /\ broken[b] \/ RefersToMissing(b) \/ CreatedElsewhere(b)
    /\ Raise(b)

Settle(b) ==
    /\ made' = Seen(b)
    /\ rows' = SeenRows(b)
    /\ work' = [work EXCEPT ![b] = NoWork]

CommitMigration(b) ==
    /\ pc[b] = "commit"
    /\ Settle(b)
    /\ IF at[b][1] < Len(Migrations[dialect][num[b]])
          THEN /\ at' = [at EXCEPT ![b] = <<@[1] + 1, 1>>]
               /\ pc' = [pc EXCEPT ![b] = "migrate"]
               /\ UNCHANGED num
          ELSE Enter(b, num[b] + 1)
    /\ UNCHANGED <<dialect, release, broken, faults>>

-----------------------------------------------------------------------------
(***************************************************************************)
(* Recording the revision: delete, create(num - 1), commit                 *)
(***************************************************************************)
Writing(b) == pc[b] \in {"create", "save"}

DeleteVersion(b) ==
    /\ pc[b] = "delete"
    /\ \A c \in Others(b) :
          /\ work[c].gone \cap SeenRows(b) = {}
          /\ dialect = "sqlite" => ~Writing(c)
    /\ IF HasTransactions
          THEN work' = [work EXCEPT ![b].gone = @ \cup rows, ![b].new = {}] /\ UNCHANGED rows
          ELSE rows' = {} /\ UNCHANGED work
    /\ pc' = [pc EXCEPT ![b] = "create"]
    /\ UNCHANGED <<dialect, release, made, num, at, broken, faults>>

\* The counter of the loop has passed the revision that was built.
Recorded(b) == num[b] - 1

CreateVersion(b) ==
    /\ pc[b] = "create"
    /\ Recorded(b) \notin SeenRows(b)
    /\ \A c \in Others(b) : Recorded(b) \notin work[c].new
    /\ IF HasTransactions
          THEN work' = [work EXCEPT ![b].new = {Recorded(b)}] /\ UNCHANGED rows
          ELSE rows' = rows \cup {Recorded(b)} /\ UNCHANGED work
    /\ pc' = [pc EXCEPT ![b] = "save"]
    /\ UNCHANGED <<dialect, release, made, num, at, broken, faults>>

\* Another builder committed the same row between the delete and the insert.
CreateRaises(b) ==
    /\ pc[b] = "create"
    /\ Recorded(b) \in SeenRows(b)
    /\ Raise(b)

CommitVersion(b) ==
    /\ pc[b] = "save"
    /\ Settle(b)
    /\ pc' = [pc EXCEPT ![b] = "done"]
    /\ UNCHANGED <<dialect, release, num, at, broken, faults>>

-----------------------------------------------------------------------------
(***************************************************************************)
(* The connection is lost or the process dies: nothing uncommitted stays.  *)
(* The application calls build() again.                                    *)
(***************************************************************************)
Fault(b) ==
    /\ faults < MaxFaults
    /\ pc[b] \notin {"start", "done", "failed"}
    /\ faults' = faults + 1
    /\ pc' = [pc EXCEPT ![b] = "failed"]
    /\ work' = [work EXCEPT ![b] = NoWork]
    /\ broken' = [broken EXCEPT ![b] = FALSE]
    /\ UNCHANGED <<dialect, release, made, rows, num, at>>

Again(b) ==
    /\ pc[b] = "failed"
    /\ pc' = [pc EXCEPT ![b] = "start"]
    /\ UNCHANGED <<dialect, release, made, rows, num, at, work, broken, faults>>

Build(b) ==
    \/ ReadRevision(b) \/ ReadNothing(b)
    \/ ExecuteDurable(b) \/ ExecuteInTransaction(b) \/ ExecuteRaises(b)
    \/ CommitMigration(b)
    \/ DeleteVersion(b) \/ CreateVersion(b) \/ CreateRaises(b) \/ CommitVersion(b)
    \/ Again(b)

Next == \E b \in Builders : Build(b) \/ Fault(b)

\* Each builder is a thread of its own, and its application calls again.
Fairness == \A b \in Builders : WF_vars(Build(b))

Spec == Init /\ [][Next]_vars /\ Fairness
-----------------------------------------------------------------------------
(***************************************************************************)
(* Properties                                                              *)
(***************************************************************************)
\* What revision r promises: its tables, collections and keys, and its
\* indexes, except that Oracle's blocks may leave an index out.
Promised(d, r) ==
    {s.name : s \in {u \in Statements(d, r) : d = "oracle" => "on" \notin DOMAIN u}}

\* The shape of the state.
TypeOK ==
    /\ dialect \in Dialects
    /\ release \in [Builders -> 1 .. LatestRevision]
    /\ made \subseteq {s.name : s \in Statements(dialect, LatestRevision)}
    /\ rows \subseteq 1 .. LatestRevision
    /\ pc \in [Builders -> {"start", "migrate", "commit", "delete", "create", "save",
                            "done", "failed"}]
    /\ num \in [Builders -> 0 .. LatestRevision + 1]
    /\ at \in [Builders -> (Nat \ {0}) \X (Nat \ {0})]
    /\ \A b \in Builders :
          /\ work[b].made \subseteq {s.name : s \in Statements(dialect, LatestRevision)}
          /\ work[b].gone \cup work[b].new \subseteq 1 .. LatestRevision
          /\ pc[b] = "migrate" => /\ at[b][1] <= Len(Migrations[dialect][num[b]])
                                  /\ at[b][2] <= Len(Migration(b))
    /\ broken \in [Builders -> BOOLEAN]
    /\ faults \in 0 .. MaxFaults

\* A recorded revision is never ahead of the database: whoever reads it, at
\* whatever time, skips only migrations whose structures are all there, and a
\* build() that returned leaves every structure its release relies on.  The
\* builder records a revision after its last commit, whatever dies in between
\* and whichever release the other builders are of.
RevisionIsBuilt ==
    /\ TypeOK
    /\ \A n \in rows : Promised(dialect, n) \subseteq made
    /\ \A b \in Builders : pc[b] = "done" => Promised(dialect, release[b]) \subseteq made

\* Once a build has returned the revision stays recorded, so that later starts
\* need no migration; MongoDB, where the delete is not undone, may lose it to
\* a process that dies before it inserts the row again.
RevisionStaysRecorded ==
    (\E b \in Builders : pc[b] = "done")
        => \/ rows # {}
           \/ dialect = "mongodb" /\ (faults > 0 \/ \E b \in Builders : pc[b] = "create")

\* Every builder gets there: no migration meets a foreign key to a table that
\* an earlier one should have made; the loser of the race for the row, a builder
\* whose read met no table and one whose process died get there by calling again.
BuildsEnd == <>[](\A b \in Builders : pc[b] = "done")
=============================================================================
