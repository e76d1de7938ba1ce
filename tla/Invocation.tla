----------------------------- MODULE Invocation -----------------------------
(***************************************************************************)
(* What a wrapped LLM client does around a call: llm/_base.py, llm/invoke, *)
(* llm/pipelines, the adapters, memory/_manager.py and                     *)
(* memory/augmentation/_handler.py.                                        *)
(*                                                                         *)
(* A call puts recalled facts and the history of the conversation in front *)
(* of the caller's question, asks the provider, and stores question and    *)
(* answer: from its own messages it leaves out as many as the invoker says *)
(* it has injected.  The invoker and Config are shared by all calls of the *)
(* client, which are threads or tasks and may overlap.                     *)
(*                                                                         *)
(* Conversations are numbered like the sessions they belong to.  How a     *)
(* turn is written is the matter of module Turns: here it is one step.     *)
(***************************************************************************)
EXTENDS Naturals, FiniteSets, Sequences, SequencesExt, Lists

CONSTANTS Calls,
          Plans,        \* how the client is used
          MaxAttempts,  \* config.request_num_backoff
          MaxSessions   \* bound on new_session

Kinds == {"plain", "iterator", "events", "body", "generator"}

Styles == {"messages", "aside", "instructed"}

ASSUME InvocationAssumption ==
    /\ Plans \subseteq [calls : SUBSET Calls, cloud : BOOLEAN, local : BOOLEAN,
                        engine : BOOLEAN, overlap : BOOLEAN, tools : SUBSET Calls,
                        style : Styles, kind : [Calls -> Kinds]]
    /\ MaxAttempts \in Nat \ {0} /\ MaxSessions \in Nat \ {0}

VARIABLES plan,
          count,        \* invoke._injected_message_count
          remembered,   \* invoke._cloud_conversation_messages
          session,      \* config.session_id
          conversation, \* config.cache.conversation_id; 0: None
          stored,       \* the messages of each conversation in the database
          left,         \* what failed copies left to the next commit
          accepted,     \* the turns that have reached the cloud
          stage,        \* where each call stands
          messages,     \* what it sends to the provider
          turn,         \* the session and the messages it is going to store
          tries,        \* POSTs of that turn
          background,   \* calls whose augmentation waits in the executor
          learned,      \* augmentations that were submitted: call, conversation
          doubtful,     \* calls with a lost answer or a failed copy
          disturbed     \* calls overlapped, or the session changed under one

vars == <<plan, count, remembered, session, conversation, stored, left, accepted, stage,
          messages, turn, tries, background, learned, doubtful, disturbed>>

Sessions == 1 .. MaxSessions
Messages == [call : Calls \cup {"memori", "caller"},
             part : {"system", "question", "answer", "tool_calls"}]
Facts == [call |-> "memori", part |-> "system"]
Instructions == [call |-> "caller", part |-> "system"]
Question(c) == [call |-> c, part |-> "question"]
Answer(c) == [call |-> c, part |-> IF c \in plan.tools THEN "tool_calls" ELSE "answer"]

Running(c) == stage[c] \notin {"start", "done", "failed"}
Ended(c) == stage[c] \in {"done", "failed"}

Init ==
    /\ plan \in Plans
    /\ count = 0
    /\ remembered = <<>>
    /\ session = 1
    /\ conversation = 0
    /\ stored = [s \in Sessions |-> <<>>]
    /\ left = [s \in Sessions |-> <<>>]
    /\ accepted = <<>>
    /\ stage = [c \in Calls |-> "start"]
    /\ messages = [c \in Calls |-> <<>>]
    /\ turn = [c \in Calls |-> [session |-> 0, messages |-> <<>>]]
    /\ tries = [c \in Calls |-> 0]
    /\ background = {}
    /\ learned = {}
    /\ doubtful = {}
    /\ disturbed = FALSE

Goto(c, s) == stage' = [stage EXCEPT ![c] = s]

-----------------------------------------------------------------------------
(***************************************************************************)
(* Before the provider is called                                           *)
(***************************************************************************)
\* inject_recalled_facts.  The facts become a system message in front, where
\* the provider has no other place for them; in the cloud they come with the
\* history, and what the last call remembered is dropped first.
Begin(c) ==
    /\ c \in plan.calls /\ stage[c] = "start"
    /\ plan.overlap \/ ~ \E d \in Calls : Running(d)
    /\ disturbed' = (disturbed \/ \E d \in Calls : Running(d))
    /\ \E found \in BOOLEAN :
          messages' = [messages EXCEPT ![c] =
                         IF found /\ plan.style = "messages"
                         THEN <<Facts, Question(c)>> ELSE <<Question(c)>>]
    /\ IF plan.cloud THEN remembered' = <<>> /\ Goto(c, "recalling")
                     ELSE UNCHANGED remembered /\ Goto(c, "recalled")
    /\ UNCHANGED <<plan, count, session, conversation, stored, left, accepted, turn, tries,
                   background, learned, doubtful>>

\* The cloud answers the recall with what it has been told in this session.
CloudRecall(c) ==
    /\ stage[c] = "recalling"
    /\ remembered' = FlattenSeq([i \in DOMAIN accepted |->
                        IF accepted[i].session = session THEN accepted[i].messages ELSE <<>>])
    /\ Goto(c, "recalled")
    /\ UNCHANGED <<plan, count, session, conversation, stored, left, accepted, messages, turn,
                   tries, background, learned, doubtful, disturbed>>

\* The recall, the provider, the adapter or the database raises, and so does
\* the call.
Fails(c) ==
    /\ \/ stage[c] \in {"recalling", "recalled", "sent", "answered"}
       \/ stage[c] = "storing" /\ ~plan.cloud
    /\ Goto(c, "failed")
    /\ UNCHANGED <<plan, count, remembered, session, conversation, stored, left, accepted,
                   messages, turn, tries, background, learned, doubtful, disturbed>>

\* _sanitize_history_for_openai_compat: a turn of tool calls is not replayed.
Replayed(history) == Only(history, {m \in Messages : m.part # "tool_calls"})

\* Seeded fault: the messages that are not replayed are counted too.
InjectCountingAll(c) ==
    /\ stage[c] = "recalled"
    /\ LET history == IF plan.cloud THEN remembered ELSE stored[session]
       IN  /\ messages' = [messages EXCEPT ![c] = Replayed(history) \o @]
           /\ count' = IF history = <<>> /\ ~plan.cloud THEN count ELSE Len(history)
    /\ conversation' = IF plan.cloud \/ conversation # 0 THEN conversation ELSE session
    /\ Goto(c, "sent")
    /\ UNCHANGED <<plan, remembered, session, stored, left, accepted, turn, tries, background,
                   learned, doubtful, disturbed>>

\* inject_conversation_messages: the history of the cached conversation, which
\* is looked up or created.  Without a history the count stays what it was;
\* only the cloud sets it back.
Inject(c) ==
    /\ stage[c] = "recalled"
    /\ conversation' = IF plan.cloud \/ conversation # 0 THEN conversation ELSE session
    /\ LET history == IF plan.cloud THEN remembered ELSE stored[conversation']
       IN  /\ messages' = [messages EXCEPT ![c] = Replayed(history) \o @]
           /\ count' = IF history = <<>> /\ ~plan.cloud THEN count ELSE Len(Replayed(history))
    /\ Goto(c, "sent")
    /\ UNCHANGED <<plan, remembered, session, stored, left, accepted, turn, tries, background,
                   learned, doubtful, disturbed>>

-----------------------------------------------------------------------------
(***************************************************************************)
(* The answer                                                              *)
(***************************************************************************)
\* A whole answer, or something to read it from.
Respond(c) ==
    /\ stage[c] = "sent"
    /\ Goto(c, IF plan.kind[c] = "plain" THEN "answered" ELSE "streaming")
    /\ UNCHANGED <<plan, count, remembered, session, conversation, stored, left, accepted,
                   messages, turn, tries, background, learned, doubtful, disturbed>>

\* The reader reaches the end: StopIteration, the last chunk, read().
Exhaust(c) ==
    /\ stage[c] = "streaming"
    /\ Goto(c, "answered")
    /\ UNCHANGED <<plan, count, remembered, session, conversation, stored, left, accepted,
                   messages, turn, tries, background, learned, doubtful, disturbed>>

\* The reader stops early, or the stream breaks.  Only the event stream of
\* Bedrock stores then what it has, from its "finally".
Abandon(c) ==
    /\ stage[c] = "streaming"
    /\ Goto(c, IF plan.kind[c] = "events" THEN "answered" ELSE "failed")
    /\ UNCHANGED <<plan, count, remembered, session, conversation, stored, left, accepted,
                   messages, turn, tries, background, learned, doubtful, disturbed>>

\* get_formatted_query: the Responses API's instructions come first, as a
\* system message; then the injected messages are left out.
Own(c) ==
    LET all == IF plan.style = "instructed" THEN <<Instructions>> \o messages[c]
               ELSE messages[c]
    IN  SubSeq(all, count + 1, Len(all))

\* format_payload, and Manager.execute, which drops the system messages.
Format(c) ==
    /\ stage[c] = "answered"
    /\ turn' = [turn EXCEPT ![c] =
                  [session |-> session,
                   messages |-> Only(Own(c), {m \in Messages : m.part # "system"})
                                \o <<Answer(c)>>]]
    /\ tries' = [tries EXCEPT ![c] = 1]
    /\ Goto(c, "storing")
    /\ UNCHANGED <<plan, count, remembered, session, conversation, stored, left, accepted,
                   messages, background, learned, doubtful, disturbed>>

-----------------------------------------------------------------------------
(***************************************************************************)
(* Storing the turn                                                        *)
(***************************************************************************)
\* Streams read by an iterator, an event stream and a body end here: only
\* handle_post_response goes on to the augmentation.
AfterStore(c) == IF plan.kind[c] \in {"plain", "generator"} THEN "learning" ELSE "done"

\* Writer.execute: into the conversation that is cached now.
Store(c) ==
    /\ stage[c] = "storing"
    /\ ~plan.cloud
    /\ conversation' = IF conversation = 0 THEN session ELSE conversation
    /\ stored' = [stored EXCEPT ![conversation'] = @ \o turn[c].messages]
    /\ Goto(c, AfterStore(c))
    /\ UNCHANGED <<plan, count, remembered, session, left, accepted, messages, turn, tries,
                   background, learned, doubtful, disturbed>>

\* _handle_cloud: once more, or raise.
Again(c) ==
    IF tries[c] < MaxAttempts
    THEN tries' = [tries EXCEPT ![c] = @ + 1] /\ Goto(c, "storing")
    ELSE UNCHANGED tries /\ Goto(c, "failed")

Accept(c) == accepted' = Append(accepted, turn[c])

\* 201: the turn is copied into the local database, if there is one.
PostAccepted(c) ==
    /\ stage[c] = "storing"
    /\ plan.cloud
    /\ Accept(c)
    /\ Goto(c, IF plan.local THEN "copying" ELSE AfterStore(c))
    /\ UNCHANGED <<plan, count, remembered, session, conversation, stored, left, messages,
                   turn, tries, background, learned, doubtful, disturbed>>

\* The request does not arrive, or its answer is lost.
PostRaises(c) ==
    /\ stage[c] = "storing"
    /\ plan.cloud
    /\ \/ Accept(c) /\ doubtful' = doubtful \cup {c}
       \/ UNCHANGED <<accepted, doubtful>>
    /\ Again(c)
    /\ UNCHANGED <<plan, count, remembered, session, conversation, stored, left, messages,
                   turn, background, learned, disturbed>>

\* Seeded fault: any answer will do.
PostRefusedReturns(c) ==
    /\ stage[c] = "storing"
    /\ plan.cloud
    /\ Goto(c, AfterStore(c))
    /\ UNCHANGED <<plan, count, remembered, session, conversation, stored, left, accepted,
                   messages, turn, tries, background, learned, doubtful, disturbed>>

\* Seeded fault: an answer, whatever it says, lets the attempts begin anew.
PostRefusedAnew(c) ==
    /\ stage[c] = "storing"
    /\ plan.cloud
    /\ tries' = [tries EXCEPT ![c] = 1]
    /\ UNCHANGED <<plan, count, remembered, session, conversation, stored, left, accepted,
                   stage, messages, turn, background, learned, doubtful, disturbed>>

\* A status that is not 201.
PostRefused(c) ==
    /\ stage[c] = "storing"
    /\ plan.cloud
    /\ Again(c)
    /\ UNCHANGED <<plan, count, remembered, session, conversation, stored, left, accepted,
                   messages, turn, background, learned, doubtful, disturbed>>

\* _persist_cloud_messages_locally; its commit takes along what the copies
\* that failed have left.
Copy(c) ==
    /\ stage[c] = "copying"
    /\ conversation' = IF conversation = 0 THEN session ELSE conversation
    /\ stored' = [s \in Sessions |-> stored[s] \o left[s]
                    \o (IF s = conversation' THEN turn[c].messages ELSE <<>>)]
    /\ left' = [s \in Sessions |-> <<>>]
    /\ Goto(c, AfterStore(c))
    /\ UNCHANGED <<plan, count, remembered, session, accepted, messages, turn, tries,
                   background, learned, doubtful, disturbed>>

\* The copy raises within the retry loop, after some of the messages: the
\* POST is sent again.
CopyRaises(c) ==
    /\ stage[c] = "copying"
    /\ conversation' = IF conversation = 0 THEN session ELSE conversation
    /\ \E n \in 0 .. Len(turn[c].messages) :
          left' = [left EXCEPT ![conversation'] = @ \o SubSeq(turn[c].messages, 1, n)]
    /\ doubtful' = doubtful \cup {c}
    /\ Again(c)
    /\ UNCHANGED <<plan, count, remembered, session, stored, accepted, messages, turn,
                   background, learned, disturbed>>

-----------------------------------------------------------------------------
(***************************************************************************)
(* Augmentation and sessions                                               *)
(***************************************************************************)
Submitted(c) == learned' = learned \cup {[call |-> c, conversation |-> conversation]}

\* handle_augmentation: at once, or, with the engine, by the executor.
Learn(c) ==
    /\ stage[c] = "learning"
    /\ Goto(c, "done")
    /\ IF plan.engine \/ plan.cloud
          THEN background' = background \cup {c} /\ UNCHANGED learned
          ELSE Submitted(c) /\ UNCHANGED background
    /\ UNCHANGED <<plan, count, remembered, session, conversation, stored, left, accepted,
                   messages, turn, tries, doubtful, disturbed>>

\* The engine is given the conversation that is cached when the task runs;
\* the cloud was given its payload when it was submitted.
RunInBackground(c) ==
    /\ c \in background
    /\ background' = background \ {c}
    /\ IF plan.cloud THEN UNCHANGED learned ELSE Submitted(c)
    /\ UNCHANGED <<plan, count, remembered, session, conversation, stored, left, accepted,
                   stage, messages, turn, tries, doubtful, disturbed>>

NewSession ==
    /\ session < MaxSessions
    /\ session' = session + 1
    /\ conversation' = 0
    /\ disturbed' = (disturbed \/ count # 0 \/ background # {} \/ \E c \in Calls : Running(c))
    /\ UNCHANGED <<plan, count, remembered, stored, left, accepted, stage, messages, turn,
                   tries, background, learned, doubtful>>

Step(c) ==
    \/ CloudRecall(c) \/ Inject(c) \/ Fails(c)
    \/ Respond(c) \/ Exhaust(c) \/ Abandon(c) \/ Format(c)
    \/ Store(c) \/ PostAccepted(c) \/ PostRaises(c) \/ PostRefused(c)
    \/ Copy(c) \/ CopyRaises(c)
    \/ Learn(c)

Next == NewSession \/ \E c \in Calls : Begin(c) \/ Step(c) \/ RunInBackground(c)

\* Requests end by their timeouts, and a reader reads on or stops.
Fairness == \A c \in Calls : WF_vars(Step(c)) /\ WF_vars(RunInBackground(c))

Spec == Init /\ [][Next]_vars /\ Fairness
-----------------------------------------------------------------------------
(***************************************************************************)
(* Properties                                                              *)
(***************************************************************************)
Stages == {"start", "recalling", "recalled", "sent", "streaming", "answered", "storing",
           "copying", "learning", "done", "failed"}

\* The shape of the state.
TypeOK ==
    /\ plan \in Plans
    /\ session \in Sessions /\ conversation \in 0 .. session
    /\ stage \in [Calls -> Stages]
    /\ tries \in [Calls -> 0 .. MaxAttempts]
    /\ background \subseteq Calls /\ doubtful \subseteq Calls

Holds(s, c) == \E i \in DOMAIN stored[s] : stored[s][i].call = c

\* A question and its answer, one pair after the other.
IsDialogue(msgs) ==
    /\ Len(msgs) % 2 = 0
    /\ \A i \in DOMAIN msgs :
          i % 2 = 1 => msgs[i] = Question(msgs[i].call) /\ msgs[i + 1] = Answer(msgs[i].call)
    /\ \A i, j \in DOMAIN msgs : msgs[i] = msgs[j] => i = j

\* Every call that returned has stored its question and its answer, once,
\* and nothing of what was injected: recalled facts, the history and turns of
\* tool calls in it change nothing of that.  And it is learned for the
\* conversation it is stored in.  This is about the client's own database, and
\* it holds as long as calls have never overlapped and no new session has come
\* while a call or its background task was under way or a count of injected
\* messages was left (CapturesCalls shows what the latter does); the
\* Responses API with instructions of the caller is left out of it.
CallsAreStored ==
    /\ TypeOK
    /\ ~plan.cloud /\ ~disturbed /\ plan.style # "instructed" =>
          /\ \A s \in Sessions : IsDialogue(stored[s])
          /\ \A c \in Calls : stage[c] = "done" => \E s \in Sessions : Holds(s, c)
          /\ \A l \in learned : l.conversation # 0 /\ Holds(l.conversation, l.call)

\* "Every call is automatically captured and stored", when a client that
\* makes one call after the other starts a new session.
CapturesCalls ==
    \A c \in Calls : stage[c] = "done" =>
        \E s \in Sessions : Question(c) \in Range(stored[s])

Posts(c) == {i \in DOMAIN accepted : Answer(c) \in Range(accepted[i].messages)}

Copies(s, c) == {i \in DOMAIN stored[s] : stored[s][i] = Answer(c)}

\* A call that returned has told the cloud its turn and has copied it into the
\* local database.  While calls do not overlap it is told and copied once,
\* unless an answer was lost or a copy failed, and nothing is told but the
\* question and the answer, new sessions or not; the Responses API, which tells
\* the last answer again, is left out of that.
TurnsReachCloud ==
    plan.cloud =>
        \A c \in Calls :
            /\ stage[c] \in {"learning", "done"} =>
                  /\ Posts(c) # {}
                  /\ plan.local => \E s \in Sessions : Copies(s, c) # {}
            /\ ~plan.overlap /\ plan.style # "instructed" =>
                  /\ \A i \in Posts(c) : accepted[i].messages = <<Question(c), Answer(c)>>
                  /\ c \notin doubtful =>
                        /\ Cardinality(Posts(c)) <= 1
                        /\ \A s \in Sessions : Cardinality(Copies(s, c)) <= 1

\* Every call ends, whatever the provider, the database and the cloud do: no
\* POST is retried for ever.
CallsEnd == \A c \in Calls : Running(c) ~> Ended(c)
=============================================================================
