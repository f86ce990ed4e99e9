----------------------------- MODULE SessionSecret -----------------------------
(***************************************************************************)
(* The session signing key of the web console (lib/sysdeck/session.ts,     *)
(* sessionSecret()) and its reader in the Fester service (index.ts,        *)
(* readSharedSecret()): created once per install in the SdKv table, cached *)
(* for 60 s in every process that signs or verifies.                       *)
(*                                                                         *)
(* A call of sessionSecret() awaits the database up to three times: find,  *)
(* upsert, find again.  Calls of one process and of several interleave at  *)
(* these awaits.  A key is a model value; a token is the key that signed   *)
(* it.  The 60 s of the caches are abstracted: a cache may lapse any time. *)
(***************************************************************************)
EXTENDS Naturals, FiniteSets

CONSTANTS Workers,     \* processes of the console
          Calls,       \* concurrent calls of sessionSecret()
          WorkerOf,    \* [Calls -> Workers]
          Secrets,     \* the random keys
          NoSecret,
          MaxFailures  \* bound on upserts that fail for another reason than the race

ASSUME SecretAssumption ==
    /\ WorkerOf \in [Calls -> Workers]
    /\ NoSecret \notin Secrets
    /\ MaxFailures \in Nat

VARIABLES
    stored,      \* SdKv row web.session.secret
    cache,       \* secretCache of each worker
    pc,          \* where each call stands
    draft,       \* the key a call generated
    fresh,       \* keys not generated yet
    tokens,      \* keys that have signed a token
    fester,      \* cachedSecret of the Fester service
    failures

vars == <<stored, cache, pc, draft, fresh, tokens, fester, failures>>

MaybeSecret == Secrets \cup {NoSecret}

TypeOK ==
    /\ stored \in MaybeSecret
    /\ cache \in [Workers -> MaybeSecret]
    /\ pc \in [Calls -> {"idle", "find", "upsert", "reread"}]
    /\ draft \in [Calls -> MaybeSecret]
    /\ fresh \subseteq Secrets
    /\ tokens \subseteq Secrets
    /\ fester \in MaybeSecret
    /\ failures \in 0..MaxFailures

Init ==
    /\ stored = NoSecret
    /\ cache = [w \in Workers |-> NoSecret]
    /\ pc = [c \in Calls |-> "idle"]
    /\ draft = [c \in Calls |-> NoSecret]
    /\ fresh = Secrets
    /\ tokens = {}
    /\ fester = NoSecret
    /\ failures = 0

-----------------------------------------------------------------------------
Goto(c, l) == pc' = [pc EXCEPT ![c] = l]

\* The call has its key: it signs a token with it.
Sign(s) == tokens' = tokens \cup {s}

\* secretCache = {value, readAt}, then the key is returned.
Answer(c, s) ==
    /\ cache' = [cache EXCEPT ![WorkerOf[c]] = s]
    /\ Sign(s)
    /\ Goto(c, "idle")

FromCache(c) ==
    /\ pc[c] = "idle"
    /\ cache[WorkerOf[c]] # NoSecret
    /\ Sign(cache[WorkerOf[c]])
    /\ UNCHANGED <<stored, cache, pc, draft, fresh, fester, failures>>

Begin(c) ==
    /\ pc[c] = "idle"
    /\ cache[WorkerOf[c]] = NoSecret
    /\ Goto(c, "find")
    /\ UNCHANGED <<stored, cache, draft, fresh, tokens, fester, failures>>

Find(c) ==
    /\ pc[c] = "find"
    /\ \/ /\ stored # NoSecret
          /\ Answer(c, stored)
          /\ UNCHANGED <<draft, fresh>>
       \/ /\ stored = NoSecret
          /\ \E s \in fresh :
                /\ draft' = [draft EXCEPT ![c] = s]
                /\ fresh' = fresh \ {s}
          /\ Goto(c, "upsert")
          /\ UNCHANGED <<cache, tokens>>
    /\ UNCHANGED <<stored, fester, failures>>

\* update: {} keeps the key of a concurrent winner.
KeepWinner(s) == stored' = IF stored = NoSecret THEN s ELSE stored

\* The upsert succeeds, or throws because another call created the row.
Upsert(c) ==
    /\ pc[c] = "upsert"
    /\ KeepWinner(draft[c]) \/ (stored # NoSecret /\ UNCHANGED stored)
    /\ Goto(c, "reread")
    /\ UNCHANGED <<cache, draft, fresh, tokens, fester, failures>>

\* The upsert throws for any other reason; the catch treats it as the race.
UpsertFails(c) ==
    /\ pc[c] = "upsert"
    /\ failures < MaxFailures
    /\ failures' = failures + 1
    /\ Goto(c, "reread")
    /\ UNCHANGED <<stored, cache, draft, fresh, tokens, fester>>

WinnerUnread(c) == draft[c]                  \* mutant: no second find
Winner(c) == IF stored # NoSecret THEN stored ELSE draft[c]

Reread(c) ==
    /\ pc[c] = "reread"
    /\ Answer(c, Winner(c))
    /\ UNCHANGED <<stored, draft, fresh, fester, failures>>

\* A find throws: the request that needed the key fails.
GiveUp(c) ==
    /\ pc[c] \in {"find", "reread"}
    /\ Goto(c, "idle")
    /\ UNCHANGED <<stored, cache, draft, fresh, tokens, fester, failures>>

CacheLapses(w) ==
    /\ cache[w] # NoSecret
    /\ cache' = [cache EXCEPT ![w] = NoSecret]
    /\ UNCHANGED <<stored, pc, draft, fresh, tokens, fester, failures>>

Restart(w) ==
    /\ cache' = [cache EXCEPT ![w] = NoSecret]
    /\ pc' = [c \in Calls |-> IF WorkerOf[c] = w THEN "idle" ELSE pc[c]]
    /\ UNCHANGED <<stored, draft, fresh, tokens, fester, failures>>

\* The Fester service reads the row; when it cannot it keeps what it has.
FesterReads ==
    /\ stored # NoSecret
    /\ fester' = stored
    /\ UNCHANGED <<stored, cache, pc, draft, fresh, tokens, failures>>

Next ==
    \/ \E c \in Calls : \/ FromCache(c) \/ Begin(c) \/ Find(c) \/ Upsert(c)
                        \/ UpsertFails(c) \/ Reread(c) \/ GiveUp(c)
    \/ \E w \in Workers : CacheLapses(w) \/ Restart(w)
    \/ FesterReads

Spec == Init /\ [][Next]_vars

-----------------------------------------------------------------------------
(* Properties *)

\* session.ts: the key is "generated once per install and persisted in SdKv so
\* sessions survive restarts".  As long as no upsert failed for another reason
\* than the race, every process that has the key has the stored one and every
\* token was signed with it: a session of one process verifies in all of them.
OneSecret == failures = 0 =>
    /\ \A w \in Workers : cache[w] \in {NoSecret, stored}
    /\ fester \in {NoSecret, stored}
    /\ tokens \subseteq {stored}

\* The key of the install never changes: no call overwrites a stored key.
SecretKept == [][stored # NoSecret => stored' = stored]_vars
================================================================================
