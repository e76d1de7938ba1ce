---------------------------- MODULE AtomicStore ----------------------------
(***************************************************************************)
(* What write_batch promises: every call applies its whole batch at one    *)
(* point, at most once, or not at all, and answers success only after it   *)
(* has applied.  A failure says nothing about the batch: the answer to the *)
(* commit may have been lost.                                              *)
(***************************************************************************)
EXTENDS MemoryStore

CONSTANTS Calls,     \* calls of write_batch
          Batch      \* the operations of each call

VARIABLES store,     \* the committed tables
          applied,   \* calls whose batch is in the store
          answer     \* what each call has answered

avars == <<store, applied, answer>>

AInit == store = EmptyStore /\ applied = {} /\ answer = [c \in Calls |-> "none"]

Apply(c) ==
    /\ c \notin applied /\ answer[c] = "none"
    /\ store' = RunAll(store, Batch[c])
    /\ applied' = applied \cup {c}
    /\ UNCHANGED answer

Succeed(c) ==
    /\ answer[c] = "none" /\ (c \in applied \/ Batch[c] = <<>>)
    /\ answer' = [answer EXCEPT ![c] = "ok"]
    /\ UNCHANGED <<store, applied>>

Fail(c) ==
    /\ answer[c] = "none"
    /\ answer' = [answer EXCEPT ![c] = "err"]
    /\ UNCHANGED <<store, applied>>

(* The process dies: the calls in flight never answer. *)
Die == /\ \E S \in SUBSET {c \in Calls : answer[c] = "none"} :
              answer' = [c \in Calls |-> IF c \in S THEN "gone" ELSE answer[c]]
       /\ UNCHANGED <<store, applied>>

ANext == Die \/ \E c \in Calls : Apply(c) \/ Succeed(c) \/ Fail(c)

ASpec == AInit /\ [][ANext]_avars
=============================================================================
