---------------------------- MODULE Provisioning ----------------------------
(***************************************************************************)
(* memori/provisioning: Memori.provision() asks a provider for a database  *)
(* instance and keeps the answer in one JSON file under MEMORI_HOME, which *)
(* every process of the user reads and rewrites whole and without a lock.  *)
(*                                                                         *)
(* A client makes one call.  Instances are numbered in the order in which  *)
(* the provider creates them.  The family check, the DSN and its TLS       *)
(* arguments do not depend on any state and are left out: the one provider *)
(* there is (tidb-zero) always answers with family mysql.                  *)
(***************************************************************************)
EXTENDS Naturals, Sequences

CONSTANTS Clients,     \* processes that call Memori.provision()
          Keys,        \* cache keys: provider and tag or cache_key
          MaxLosses    \* bound on expiries, provider errors and deaths

ASSUME LossesAssumption == MaxLosses \in Nat

VARIABLES key,      \* the cache key of each client's call
          cached,   \* its cache argument
          file,     \* the entries of the file; 0: no entry
          intact,   \* FALSE: the file is empty or does not parse
          stage,    \* where each call stands
          view,     \* the entries a call is about to write
          got,      \* the instance it has; 0: none
          issued,   \* instances the provider has created, by the key asked for
          expired,  \* instances past expires_at
          overlap,  \* some call began while another one was running
          losses

pvars == <<key, cached, file, intact, stage, view, got, issued, expired, overlap, losses>>

NoEntries == [k \in Keys |-> 0]

\* ProvisionCache._read: an unreadable file counts as an empty one.
Entries == IF intact THEN file ELSE NoEntries

Running(c) == stage[c] \notin {"start", "ready", "failed"}

PInit ==
    /\ key \in [Clients -> Keys]
    /\ cached \in [Clients -> BOOLEAN]
    /\ file = NoEntries
    /\ intact = TRUE
    /\ stage = [c \in Clients |-> "start"]
    /\ view = [c \in Clients |-> NoEntries]
    /\ got = [c \in Clients |-> 0]
    /\ issued = <<>>
    /\ expired = {}
    /\ overlap = FALSE
    /\ losses = 0

Begin(c) ==
    /\ stage[c] = "start"
    /\ overlap' = (overlap \/ \E d \in Clients : Running(d))

\* cache.get(key) answers: no request is made.
Hit(c) ==
    LET i == Entries[key[c]]
    IN  /\ Begin(c)
        /\ cached[c]
        /\ i # 0 /\ i \notin expired
        /\ got' = [got EXCEPT ![c] = i]
        /\ stage' = [stage EXCEPT ![c] = "ready"]
        /\ UNCHANGED <<key, cached, file, intact, view, issued, expired, losses>>

Miss(c) ==
    /\ Begin(c)
    /\ cached[c] => Entries[key[c]] = 0
    /\ stage' = [stage EXCEPT ![c] = "post"]
    /\ UNCHANGED <<key, cached, file, intact, view, got, issued, expired, losses>>

\* The entry has expired: it is popped and the rest is written back.
Stale(c) ==
    /\ Begin(c)
    /\ cached[c]
    /\ Entries[key[c]] \in expired
    /\ view' = [view EXCEPT ![c] = [Entries EXCEPT ![key[c]] = 0]]
    /\ stage' = [stage EXCEPT ![c] = "drop"]
    /\ UNCHANGED <<key, cached, file, intact, got, issued, expired, losses>>

\* Path.write_text: the file is emptied when it is opened, filled later.
OpenFile(c) ==
    /\ stage[c] \in {"drop", "keep"}
    /\ intact' = FALSE
    /\ stage' = [stage EXCEPT ![c] = IF @ = "drop" THEN "dropping" ELSE "keeping"]
    /\ UNCHANGED <<key, cached, file, view, got, issued, expired, overlap, losses>>

\* Whoever filled it in the meantime is written over from the start; a longer
\* text leaves its tail behind and the file does not parse.
FillFile(c) ==
    /\ stage[c] \in {"dropping", "keeping"}
    /\ file' = view[c]
    /\ intact' \in {TRUE, ~intact}
    /\ stage' = [stage EXCEPT ![c] = IF @ = "dropping" THEN "post" ELSE "ready"]
    /\ UNCHANGED <<key, cached, view, got, issued, expired, overlap, losses>>

NewInstance == Len(issued) + 1

\* provision_tidb_zero: a POST that creates a new instance each time.
Post(c) ==
    /\ stage[c] = "post"
    /\ issued' = Append(issued, key[c])
    /\ got' = [got EXCEPT ![c] = NewInstance]
    /\ stage' = [stage EXCEPT ![c] = IF cached[c] THEN "set" ELSE "ready"]
    /\ UNCHANGED <<key, cached, file, intact, view, expired, overlap, losses>>

\* Seeded fault: the entry is kept under the provider's name alone.
AnyKey(c) == CHOOSE k \in Keys : TRUE

KeptUnder(c) == key[c]

\* Seeded fault: only an entry that is there already is replaced.
UpdatesOnly(c) ==
    IF Entries[KeptUnder(c)] # 0 THEN [Entries EXCEPT ![KeptUnder(c)] = got[c]] ELSE Entries

Updated(c) == [Entries EXCEPT ![KeptUnder(c)] = got[c]]

\* cache.set: the file is read again, the entry replaced.
ReadAgain(c) ==
    /\ stage[c] = "set"
    /\ view' = [view EXCEPT ![c] = Updated(c)]
    /\ stage' = [stage EXCEPT ![c] = "keep"]
    /\ UNCHANGED <<key, cached, file, intact, got, issued, expired, overlap, losses>>

\* The request raises, or the process dies wherever it stands.
Lose(c) ==
    /\ losses < MaxLosses
    /\ Running(c)
    /\ losses' = losses + 1
    /\ stage' = [stage EXCEPT ![c] = "failed"]
    /\ got' = [got EXCEPT ![c] = 0]
    /\ UNCHANGED <<key, cached, file, intact, view, issued, expired, overlap>>

Expire ==
    /\ losses < MaxLosses
    /\ losses' = losses + 1
    /\ \E i \in 1 .. Len(issued) : expired' = expired \cup {i}
    /\ UNCHANGED <<key, cached, file, intact, stage, view, got, issued, overlap>>

Provision(c) ==
    \/ Hit(c) \/ Miss(c) \/ Stale(c)
    \/ OpenFile(c) \/ FillFile(c) \/ Post(c) \/ ReadAgain(c)

PNext == Expire \/ \E c \in Clients : Provision(c) \/ Lose(c)

PSpec == PInit /\ [][PNext]_pvars
-----------------------------------------------------------------------------
(***************************************************************************)
(* Properties                                                              *)
(***************************************************************************)
\* The shape of the state; a call that is ready has an instance.
PTypeOK ==
    /\ key \in [Clients -> Keys] /\ cached \in [Clients -> BOOLEAN]
    /\ file \in [Keys -> 0 .. Len(issued)] /\ intact \in BOOLEAN
    /\ stage \in [Clients -> {"start", "drop", "dropping", "post", "set", "keep",
                              "keeping", "ready", "failed"}]
    /\ view \in [Clients -> [Keys -> 0 .. Len(issued)]]
    /\ got \in [Clients -> 0 .. Len(issued)]
    /\ \A c \in Clients : stage[c] = "ready" => got[c] # 0
    /\ issued \in Seq(Keys)
    /\ expired \subseteq 1 .. Len(issued)
    /\ overlap \in BOOLEAN
    /\ losses \in 0 .. MaxLosses

\* An instance is kept and handed out under the key it was created for,
\* whoever else writes the file: nobody's memories land in another's database.
KeysKeepApart ==
    /\ PTypeOK
    /\ \A k \in Keys : Entries[k] # 0 => issued[Entries[k]] = k
    /\ \A c \in Clients : got[c] # 0 => issued[got[c]] = key[c]

\* Calls that do not overlap reuse: a call asks the provider although another
\* has got a live instance of its key only when calls overlapped, the file is
\* lost to one that died, or the cache was switched off.
LaterCallsReuse ==
    \A c, d \in Clients :
        /\ stage[d] = "post" /\ cached[d]
        /\ stage[c] = "ready" /\ cached[c]
        /\ key[c] = key[d] /\ got[c] \notin expired
        => overlap \/ \E e \in Clients : stage[e] = "failed"
=============================================================================
