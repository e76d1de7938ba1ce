-------------------------------- MODULE Lists --------------------------------
(***************************************************************************)
(* Filtering a list, as the Python code does in a loop that appends what   *)
(* it keeps.  SelectSeq of module Sequences is the same operator with the  *)
(* test as a parameter; proofs can expand this one (module ListProofs).    *)
(***************************************************************************)
EXTENDS Naturals, Sequences

\* The elements of s that are in T, in their order.
Only(s, T) ==
  LET taken[i \in 0..Len(s)] ==
        IF i = 0 THEN <<>>
        ELSE IF s[i] \in T THEN Append(taken[i - 1], s[i]) ELSE taken[i - 1]
  IN  taken[Len(s)]

=============================================================================
