---------------------------- MODULE MCWriteBatch ---------------------------
(* Small batches over one conversation: each operation kind, an operation  *)
(* that is skipped, one that is refused, and a fact mentioned twice.       *)
EXTENDS WriteBatch

CONSTANTS k, o1, o2, f, m, s

Op(kind, conv, owner, items) == [kind |-> kind, conv |-> conv, owner |-> owner, items |-> items]

(* The messages of a turn, what the augmentation makes of it, a batch that *)
(* ends with an operation nobody knows, and an empty one.                  *)
Script ==
    [turn    |-> <<Op("messages", k, None, <<m>>)>>,
     augment |-> <<Op("facts", k, o1, <<f, f>>), Op("summary", k, None, <<s>>)>>,
     bad     |-> <<Op("links", None, o1, <<>>), Op("links", None, o2, <<f>>),
                   Op("summary", k, None, <<s>>), Op("unknown", None, None, <<>>)>>,
     empty   |-> <<>>]

MCBatch == [c \in Calls |-> Script[c]]
=============================================================================
