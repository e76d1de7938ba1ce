-------------------------- MODULE MCStorageBridge --------------------------
(* Threads as model values: writers w1 and w2, a reader r. *)
EXTENDS StorageBridge

CONSTANTS w1, w2, r
=============================================================================
