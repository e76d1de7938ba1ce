---------------------------- MODULE MCInvocation ----------------------------
(* Three calls of one client, in the ways it can be used.                  *)
EXTENDS Invocation

One == "c1"
Two == "c2"
Three == "c3"
MCCalls == {One, Two, Three}

Plain == [c \in MCCalls |-> "plain"]
Streams == [Plain EXCEPT ![One] = "iterator", ![Two] = "events", ![Three] = "generator"]
Bodies == [Plain EXCEPT ![One] = "body", ![Two] = "generator"]

Plan(calls, cloud, local, engine, overlap, tools, style, kind) ==
    [calls |-> calls, cloud |-> cloud, local |-> local, engine |-> engine,
     overlap |-> overlap, tools |-> tools, style |-> style, kind |-> kind]

\* Two calls where the cloud or overlapping calls make many states.
Pair == {One, Two}

\* One call after the other in the caller's own database, overlapping calls,
\* the Responses API; then the cloud: streams, a local copy, the Responses
\* API, overlapping calls.
MCPlans ==
    { Plan(MCCalls, FALSE, TRUE, FALSE, FALSE, {One}, "messages", Plain),
      Plan(MCCalls, FALSE, TRUE, TRUE, FALSE, {}, "messages", Streams),
      Plan(Pair, FALSE, TRUE, TRUE, TRUE, {}, "aside", Bodies),
      Plan(Pair, FALSE, TRUE, FALSE, FALSE, {}, "instructed", Plain),
      Plan(Pair, TRUE, FALSE, FALSE, FALSE, {One}, "messages", Streams),
      Plan(Pair, TRUE, TRUE, FALSE, FALSE, {}, "aside", Plain),
      Plan(Pair, TRUE, TRUE, FALSE, FALSE, {}, "instructed", Plain),
      Plan(Pair, TRUE, FALSE, FALSE, TRUE, {}, "messages", Plain) }

\* Only plain answers in the caller's own database, one after the other.
MCInTurn == { Plan(MCCalls, FALSE, TRUE, FALSE, FALSE, {}, "messages", Plain) }
=============================================================================
