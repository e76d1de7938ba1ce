------------------------------- MODULE JobPool -------------------------------
(***************************************************************************)
(* What a background job pool promises about the jobs it accepts, without  *)
(* locks, counters or calls: they wait in order in a bounded line, they    *)
(* begin in that order, at most MaxConcurrency at a time, and each begins  *)
(* and ends at most once.                                                  *)
(***************************************************************************)
EXTENDS Integers, FiniteSets, Sequences

CONSTANTS Jobs, LineCapacity, MaxConcurrency

VARIABLES
  line,     \* the accepted jobs that have not begun, oldest first
  active,   \* the jobs that have begun and not ended
  ended     \* the jobs that have ended

poolVars == <<line, active, ended>>

Waiting == {line[i] : i \in DOMAIN line}

Init == line = <<>> /\ active = {} /\ ended = {}

Accept(j) ==
  /\ j \notin Waiting \cup active \cup ended
  /\ Len(line) < LineCapacity
  /\ line' = Append(line, j)
  /\ UNCHANGED <<active, ended>>

Begin ==
  /\ line # <<>>
  /\ Cardinality(active) < MaxConcurrency
  /\ active' = active \cup {Head(line)}
  /\ line' = Tail(line)
  /\ UNCHANGED ended

End(j) ==
  /\ j \in active
  /\ active' = active \ {j}
  /\ ended' = ended \cup {j}
  /\ UNCHANGED line

Next == Begin \/ \E j \in Jobs : Accept(j) \/ End(j)

Spec == Init /\ [][Next]_poolVars

=============================================================================
