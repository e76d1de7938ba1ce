--------------------------- MODULE MCWorkerRuntime ---------------------------
(***************************************************************************)
(* Small instances of WorkerRuntime: a few calls of each operation.        *)
(***************************************************************************)
EXTENDS WorkerRuntime, TLC

\* Calls of one operation differ only in their names.
CallSymmetry ==
  Permutations(Jobs) \cup Permutations(Starters) \cup Permutations(Stoppers)

=============================================================================
