---------------------------- MODULE MemoryStore ----------------------------
(***************************************************************************)
(* The tables a write batch touches and what one write operation does to   *)
(* them: execute_batch_ops of core/src/storage/manager.rs with the SQL of  *)
(* core/src/storage/drivers.  No state of its own: WriteBatch and          *)
(* AtomicStore are both built on it.                                       *)
(*                                                                         *)
(* A fact stands for its uniq value (the hash of its normalised text) and  *)
(* an owner for an entity or a process; the ids the database generates and *)
(* the embeddings are left out.                                            *)
(***************************************************************************)
EXTENDS Naturals, Sequences, FiniteSets, SequencesExt

CONSTANTS Owners,          \* external ids of entities and processes
          Conversations,   \* external conversation (session) ids
          Facts,           \* uniq values of facts
          Texts,           \* contents of messages and summaries
          None,            \* NULL, an empty id, an empty text
          MergesRepeats    \* TRUE on SQLite and MySQL, FALSE on PostgreSQL

ASSUME NoneIsNothing == None \notin Owners \cup Conversations \cup Facts \cup Texts

Store ==
    [owners   : SUBSET Owners,                          \* memori_entity, memori_process
     sessions : SUBSET Conversations,                   \* memori_session, by uuid
     owner    : [Conversations -> Owners \cup {None}],  \* its entity_id
     convs    : SUBSET Conversations,                   \* memori_conversation, by session
     messages : [Conversations -> Seq(Texts)],
     summary  : [Conversations -> Texts \cup {None}],
     times    : [Owners -> [Facts -> Nat]],             \* num_times, 0: no such row
     mentions : SUBSET (Owners \X Facts \X Conversations),
     links    : [Owners -> SUBSET Facts]]               \* triples and attributes

EmptyStore ==
    [owners   |-> {}, sessions |-> {}, convs |-> {}, mentions |-> {},
     owner    |-> [c \in Conversations |-> None],
     messages |-> [c \in Conversations |-> <<>>],
     summary  |-> [c \in Conversations |-> None],
     times    |-> [o \in Owners |-> [f \in Facts |-> 0]],
     links    |-> [o \in Owners |-> {}]]

(* The write operations, by what their items are; upsert_fact is a "facts" *)
(* operation with one fact and no conversation, and an unknown op_type has *)
(* kind "unknown".                                                         *)
TextOps == [kind : {"messages", "summary", "unknown"}, conv : Conversations \cup {None},
            owner : Owners \cup {None}, items : Seq(Texts)]
FactOps == [kind : {"facts", "links"}, conv : Conversations \cup {None},
            owner : Owners \cup {None}, items : Seq(Facts)]
Ops     == TextOps \cup FactOps

(* What the tables say of each other: a conversation has its session, a    *)
(* message and a summary their conversation, and a mention its fact, its   *)
(* owner and its conversation.                                             *)
References(db) ==
    /\ db.convs \subseteq db.sessions
    /\ \A c \in Conversations :
          /\ db.messages[c] # <<>> \/ db.summary[c] # None => c \in db.convs
          /\ db.owner[c] # None => db.owner[c] \in db.owners /\ c \in db.sessions
    /\ \A o \in Owners, f \in Facts : db.times[o][f] > 0 => o \in db.owners
    /\ \A m \in db.mentions : db.times[m[1]][m[2]] > 0 /\ m[3] \in db.convs

(* Get-or-create of the owner, the session and its conversation.           *)
OwnerCreate(db, o) == [db EXCEPT !.owners = @ \cup {o}]

\* Seeded fault: a NULL owner replaces the one there is.
SessionOverwrite(db, c, o) == [db EXCEPT !.sessions = @ \cup {c}, !.owner[c] = o]

(* A NULL owner keeps the one the session has.                            *)
SessionCreate(db, c, o) ==
    [db EXCEPT !.sessions = @ \cup {c}, !.owner[c] = IF o = None THEN @ ELSE o]

(* A session has one conversation.                                         *)
ConversationCreate(db, c) == [db EXCEPT !.convs = @ \cup {c}]

Occurrences(f, facts) == Cardinality({i \in DOMAIN facts : facts[i] = f})

(* entity_fact_create: one multi-row upsert that counts a fact again, and  *)
(* a mention of each fact in the conversation, if there is one.            *)
FactsCreate(db, o, facts, c) ==
    [db EXCEPT !.times[o] = [f \in Facts |-> @[f] + Occurrences(f, facts)],
               !.mentions = IF c = None THEN @ ELSE @ \cup ({o} \X ToSet(facts) \X {c})]

Applied(db) == [status |-> "applied", db |-> db]
Skipped(db) == [status |-> "skipped", db |-> db]
Failed(db)  == [status |-> "failed",  db |-> db]

(* One pass of the loop over the batch.  Only PostgreSQL refuses an INSERT *)
(* ... ON CONFLICT DO UPDATE that meets the same row twice.                *)
RunMessages(db, op) ==
    IF op.conv = None \/ op.items = <<>> THEN Skipped(db)
    ELSE LET found == ConversationCreate(SessionCreate(db, op.conv, None), op.conv)
         IN  Applied([found EXCEPT !.messages[op.conv] = @ \o op.items])

\* Seeded fault: the conversation of the facts is not created.
RunFactsUnlinked(db, op) ==
    IF op.owner = None \/ op.items = <<>> THEN Skipped(db)
    ELSE Applied(FactsCreate(OwnerCreate(db, op.owner), op.owner, op.items, op.conv))

RunFacts(db, op) ==
    IF op.owner = None \/ op.items = <<>> THEN Skipped(db)
    ELSE LET owned == OwnerCreate(db, op.owner)
             found == IF op.conv = None THEN owned
                      ELSE ConversationCreate(SessionCreate(owned, op.conv, op.owner), op.conv)
         IN  IF MergesRepeats \/ IsInjective(op.items)
             THEN Applied(FactsCreate(found, op.owner, op.items, op.conv))
             ELSE Failed(found)

RunLinks(db, op) ==
    IF op.owner = None THEN Skipped(db)
    ELSE LET owned == OwnerCreate(db, op.owner)
         IN  IF op.items = <<>> THEN Skipped(owned)
             ELSE Applied([owned EXCEPT !.links[op.owner] = @ \cup ToSet(op.items)])

RunSummary(db, op) ==
    IF op.conv \notin db.sessions \cap db.convs \/ op.items = <<>> THEN Skipped(db)
    ELSE Applied([db EXCEPT !.summary[op.conv] = Head(op.items)])

RunOp(db, op) ==
    CASE op.kind = "messages" -> RunMessages(db, op)
      [] op.kind = "facts"    -> RunFacts(db, op)
      [] op.kind = "links"    -> RunLinks(db, op)
      [] op.kind = "summary"  -> RunSummary(db, op)
      [] op.kind = "unknown"  -> Failed(db)

(* A whole batch, applied to a store at once. *)
RunAll(db, ops) ==
    LET after[i \in 0 .. Len(ops)] ==
            IF i = 0 THEN db ELSE RunOp(after[i - 1], ops[i]).db
    IN  after[Len(ops)]
=============================================================================
