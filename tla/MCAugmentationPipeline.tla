----------------------- MODULE MCAugmentationPipeline -----------------------
(***************************************************************************)
(* Small instances of AugmentationPipeline: two managers that share the    *)
(* event loop and the writer thread.                                       *)
(***************************************************************************)
EXTENDS AugmentationPipeline

CONSTANTS m1, m2, r1, r2, r3, w1, w2

\* The requests r1 and r3 belong to m1, r2 to m2; the waits are called on m1.
MCOwnerOf == [r \in Requests |-> IF r = r2 THEN m2 ELSE m1]
MCWaiterOf == [w \in Waits |-> m1]

\* On both managers a request's facts are left to the caller's commit, as on
\* PostgreSQL; what follows them commits at its end (a summary) for m1 and
\* midway (triples) for m2.
MCCommitOf ==
  [m \in Managers |-> [n \in 1..WritesPerRequest |->
     IF n = 1 THEN "never" ELSE IF m = m1 THEN "end" ELSE "midway"]]

=============================================================================
