------------------------------- MODULE MCTurns -------------------------------
EXTENDS Turns

CONSTANTS a, b

P(jobs, entity, session) ==
    [jobs |-> jobs, entity |-> entity, session |-> session, later |-> "s9",
     aware |-> TRUE, faults |-> 0]

Both(p, q) == (a :> p) @@ (b :> q)

Dialects == {"sqlite", "postgresql", "mysql", "oracle", "mongodb"}

\* Two processes of one user and session, from the first turn on.
SameCases ==
    {"mysql"} \X
        {Both(P(<<"turn", "learn">>, "alice", "s1"), P(<<"inject", "learn2">>, "alice", "s1"))}
    \cup (Dialects \ {"mysql"}) \X
        {Both(P(<<"turn", "learn1">>, "alice", "s1"), P(<<"inject", "learn1">>, "alice", "s1"))}

\* One learns while the other recalls and forgets, for the same user or another.
ForgetCases ==
    Dialects \X
        {Both(P(<<"turn", "learn1">>, "alice", "s1"), P(<<"recall", "forget">>, e, "s2")) :
            e \in {"alice", "bob"}}

\* One changes its session between turns and reads its history.
SessionCases ==
    Dialects \X
        {Both(P(<<"turn", "new_session", "turn", "inject">>, "alice", "s1"),
              [P(<<"inject">>, "alice", "s1") EXCEPT !.aware = FALSE])}

\* Statements fail or connections are lost, and the client goes on.
FaultyCases ==
    Dialects \X
        {Both([P(<<"turn", "turn">>, "alice", "s1") EXCEPT !.faults = 2],
              P(<<>>, "alice", "s1")),
         Both([P(<<"turn", "learn", "forget">>, "alice", "s1") EXCEPT !.faults = 1],
              P(<<>>, "alice", "s2")),
         Both([P(<<"turn", "learn1", "new_session", "forget", "forget">>, "alice", "s1") EXCEPT !.faults = 1],
              P(<<>>, "bob", "s2"))}

\* MySQL's statements by the drivers of TiDB and OceanBase.
HeirCases == {"tidb", "oceanbase"} \X {Both(P(<<"turn", "learn", "forget">>, "alice", "s1"), P(<<>>, "bob", "s2"))}

\* A client that goes back to its first session.
RestoreCases ==
    Dialects \X {Both(P(<<"turn", "new_session", "turn", "restore", "turn">>, "alice", "s1"),
                      P(<<>>, "bob", "s2"))}

\* One learns while the other forgets another user, in PostgreSQL.
LateTripleCases == {x \in ForgetCases : x[1] = "postgresql"}

MCCases == SameCases \cup ForgetCases \cup SessionCases \cup FaultyCases \cup HeirCases
=============================================================================
