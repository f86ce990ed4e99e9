-------------------------- MODULE SessionSecretProofs --------------------------
(* Proofs about the session key, for any number of processes and calls. *)
EXTENDS SessionSecret, TLAPS

\* The key of a call is drawn before it is stored.
Drafted == \A c \in Calls : pc[c] = "upsert" => draft[c] \in Secrets

\* Without failures a call that rereads finds a row.
Stored == failures = 0 => \A c \in Calls : pc[c] = "reread" => stored # NoSecret

TypeInv == TypeOK /\ Drafted /\ (\A c \in Calls : pc[c] = "reread" => draft[c] \in Secrets)
AgreeInv == TypeInv /\ Stored /\ OneSecret

\* The types, and that a call which may use its draft has one.
LEMMA InitTypes == Init => TypeInv
    BY SecretAssumption DEF Init, TypeInv, TypeOK, Drafted, MaybeSecret

LEMMA NextTypes == ASSUME TypeInv, [Next]_vars PROVE TypeInv'
<1> USE SecretAssumption DEF TypeInv, TypeOK, Drafted, MaybeSecret
<1>1. CASE UNCHANGED vars
    BY <1>1 DEF vars
<1>2. ASSUME NEW c \in Calls, FromCache(c) PROVE TypeInv'
    BY <1>2 DEF FromCache, Sign
<1>3. ASSUME NEW c \in Calls, Begin(c) PROVE TypeInv'
    BY <1>3 DEF Begin, Goto
<1>4. ASSUME NEW c \in Calls, Find(c) PROVE TypeInv'
    <2>1. CASE stored # NoSecret
        BY <1>4, <2>1 DEF Find, Answer, Sign, Goto
    <2>2. CASE stored = NoSecret
        BY <1>4, <2>2 DEF Find, Goto
    <2> QED BY <2>1, <2>2
<1>5. ASSUME NEW c \in Calls, Upsert(c) PROVE TypeInv'
    BY <1>5 DEF Upsert, KeepWinner, Goto
<1>6. ASSUME NEW c \in Calls, UpsertFails(c) PROVE TypeInv'
    BY <1>6 DEF UpsertFails, Goto
<1>7. ASSUME NEW c \in Calls, Reread(c) PROVE TypeInv'
    BY <1>7 DEF Reread, Answer, Winner, Sign, Goto
<1>8. ASSUME NEW c \in Calls, GiveUp(c) PROVE TypeInv'
    BY <1>8 DEF GiveUp, Goto
<1>9. ASSUME NEW w \in Workers, CacheLapses(w) \/ Restart(w) PROVE TypeInv'
    BY <1>9 DEF CacheLapses, Restart
<1>10. CASE FesterReads
    BY <1>10 DEF FesterReads
<1> QED BY <1>1, <1>2, <1>3, <1>4, <1>5, <1>6, <1>7, <1>8, <1>9, <1>10 DEF Next

LEMMA TypeInvariance == Spec => []TypeInv
<1>1. TypeInv /\ [Next]_vars => TypeInv'
    BY NextTypes
<1> QED BY InitTypes, <1>1, PTL DEF Spec

\* sessionSecret(): whatever fails, the state keeps its types; above all no
\* token is signed without a key.
THEOREM SecretTypes == Spec => []TypeOK
<1>1. TypeInv => TypeOK
    BY DEF TypeInv
<1> QED BY <1>1, TypeInvariance, PTL

-----------------------------------------------------------------------------
\* The upsert's empty update: a stored key is never overwritten, whatever
\* fails and however many calls race.
THEOREM KeyOfTheInstall == Spec => SecretKept
<1>1. ASSUME Next, stored # NoSecret PROVE stored' = stored
    BY <1>1 DEF Next, FromCache, Begin, Find, Upsert, KeepWinner, UpsertFails, Reread, GiveUp,
                CacheLapses, Restart, FesterReads
<1>2. [Next]_vars => [stored # NoSecret => stored' = stored]_vars
    BY <1>1
<1> QED BY <1>2, PTL DEF Spec, SecretKept

-----------------------------------------------------------------------------
\* While upserts fail only by losing the race, all processes agree.
LEMMA NextAgree == ASSUME AgreeInv, [Next]_vars PROVE AgreeInv'
<1>0. TypeInv /\ TypeInv'
    BY NextTypes DEF AgreeInv
<1> USE SecretAssumption
<1>t. /\ stored \in MaybeSecret /\ cache \in [Workers -> MaybeSecret] /\ tokens \subseteq Secrets
      /\ pc \in [Calls -> {"idle", "find", "upsert", "reread"}]
      /\ \A c \in Calls : WorkerOf[c] \in Workers
    BY <1>0 DEF TypeInv, TypeOK
<1> SUFFICES ASSUME failures' = 0 PROVE Stored' /\ OneSecret'
    BY <1>0 DEF AgreeInv, Stored, OneSecret
<1>f. failures = 0 /\ \A c \in Calls : ~UpsertFails(c)
    <2>1. failures \in Nat
        BY <1>0 DEF TypeInv, TypeOK
    <2>2. ASSUME NEW c \in Calls, UpsertFails(c) PROVE FALSE
        BY <2>1, <2>2 DEF UpsertFails
    <2>3. failures' = failures
        BY <2>2 DEF Next, vars, FromCache, Begin, Find, Upsert, Reread, GiveUp, CacheLapses,
                    Restart, FesterReads
    <2> QED BY <2>2, <2>3
<1>a. Stored /\ OneSecret
    BY DEF AgreeInv
<1> USE <1>f DEF Stored, OneSecret, MaybeSecret
<1>1. CASE UNCHANGED vars
    BY <1>1, <1>a DEF vars
<1>2. ASSUME NEW c \in Calls, FromCache(c) PROVE Stored' /\ OneSecret'
    BY <1>2, <1>a, <1>t DEF FromCache, Sign
<1>3. ASSUME NEW c \in Calls, Begin(c) \/ GiveUp(c) PROVE Stored' /\ OneSecret'
    BY <1>3, <1>a, <1>t DEF Begin, GiveUp, Goto
<1>4. ASSUME NEW c \in Calls, Find(c) PROVE Stored' /\ OneSecret'
    <2>1. CASE stored # NoSecret
        BY <1>4, <2>1, <1>a, <1>t DEF Find, Answer, Sign, Goto
    <2>2. CASE stored = NoSecret
        BY <1>4, <2>2, <1>a, <1>t DEF Find, Goto
    <2> QED BY <2>1, <2>2
<1>5. ASSUME NEW c \in Calls, Upsert(c) PROVE Stored' /\ OneSecret'
    <2>1. draft[c] \in Secrets
        BY <1>5, <1>0 DEF TypeInv, Drafted, Upsert
    <2>2. stored' # NoSecret /\ (stored # NoSecret => stored' = stored)
        BY <1>5, <2>1 DEF Upsert, KeepWinner
    <2>3. stored = NoSecret => tokens = {}
        BY <1>a, <1>t
    <2> QED BY <1>5, <2>2, <2>3, <1>a, <1>t DEF Upsert, Goto
<1>6. ASSUME NEW c \in Calls, UpsertFails(c) PROVE FALSE
    BY <1>6
<1>7. ASSUME NEW c \in Calls, Reread(c) PROVE Stored' /\ OneSecret'
    <2>1. stored # NoSecret /\ Winner(c) = stored
        BY <1>7, <1>a DEF Reread, Winner
    <2> QED BY <1>7, <2>1, <1>a, <1>t DEF Reread, Answer, Sign, Goto
<1>8. ASSUME NEW w \in Workers, CacheLapses(w) \/ Restart(w)
      PROVE Stored' /\ OneSecret'
    BY <1>8, <1>a, <1>t DEF CacheLapses, Restart
<1>9. CASE FesterReads
    BY <1>9, <1>a, <1>t DEF FesterReads
<1> QED BY <1>1, <1>2, <1>3, <1>4, <1>5, <1>6, <1>7, <1>8, <1>9 DEF Next

\* The get-or-create of the key: as long as an upsert only throws because another
\* call created the row, every process uses the stored key and every token
\* ever signed verifies in all of them, over restarts and lapsed caches.
THEOREM ProcessesAgree == Spec => []OneSecret
<1>1. Init => AgreeInv
    BY InitTypes, SecretAssumption DEF Init, AgreeInv, Stored, OneSecret
<1>2. AgreeInv /\ [Next]_vars => AgreeInv'
    BY NextAgree
<1>3. AgreeInv => OneSecret
    BY DEF AgreeInv
<1> QED BY <1>1, <1>2, <1>3, PTL DEF Spec
================================================================================
