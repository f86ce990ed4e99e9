------------------------------ MODULE BridgeCache ------------------------------
(***************************************************************************)
(* The read cache of the web bridge (bridge/shared.ts, cached() and        *)
(* invalidateCache()): a probe of the host is shared by the callers that   *)
(* arrive while it runs, its value is served until its TTL lapses, and a   *)
(* mutation drops the entries it made stale.                               *)
(*                                                                         *)
(* The host is a version number per key that only grows; a probe samples   *)
(* it at one moment of its run.  A probe is named by the caller that       *)
(* started it.  cached() does everything between two awaits in one go, and *)
(* the callers of a probe are answered in the microtasks that follow its   *)
(* end, so each of these is one action.  Handlers change the host, then    *)
(* call invalidateCache when the command has returned (containers.ts,      *)
(* mining.ts); the host also changes by itself.                            *)
(***************************************************************************)
EXTENDS Integers, Sequences, FiniteSets

CONSTANTS Keys,        \* cache keys
          Prefixes,    \* the key sets the prefixes of invalidateCache denote
          Callers,     \* calls of cached() at a time
          NoCall,
          TTL,         \* ttlMs of the keys
          ProbeMax,    \* longest run of a probe: run() kills its child
          CACHE_MAX,
          MaxTime, MaxVersion   \* bounds on the clock and on the host's versions

ASSUME CacheAssumption ==
    /\ NoCall \notin Callers
    /\ Prefixes \subseteq SUBSET Keys
    /\ TTL \in Nat \ {0} /\ ProbeMax \in Nat /\ CACHE_MAX \in Nat \ {0}
    /\ MaxTime \in Nat /\ MaxVersion \in Nat

VARIABLES
    now,       \* Date.now()
    host,      \* [Keys -> version]
    order,     \* the keys of the Map settled, in insertion order
    entry,     \* the value and expiry of the keys in order
    inflight,  \* the Map inflight: the probe a new caller of the key joins
    probe,     \* the probe each caller started
    waits,     \* the probe each caller awaits
    atLeast,   \* history: host version of the key at its last invalidation
    since,     \* history: atLeast of its key when the caller called
    outdated,  \* history: probes whose key was invalidated while they ran
    replies    \* history: what the last step answered

vars == <<now, host, order, entry, inflight, probe, waits, atLeast, since, outdated, replies>>

Versions == 0..MaxVersion
Times == 0..MaxTime
NoProbe == [phase |-> "none"]
Probe == [phase: {"started"}, key: Keys, at: Times]
         \cup [phase: {"sampled"}, key: Keys, at: Times, value: Versions, sampled: Times]
Entry == [value: Versions, sampled: Times, expires: 0..(MaxTime + TTL)]
Reply == [key: Keys, how: {"hit", "probe"}, value: Versions, age: Int, since: Versions]

SettledKeys == {order[i] : i \in 1..Len(order)}

\* The cache Map and the rest of the state.
OrderTypes == order \in Seq(Keys) /\ Len(order) = Cardinality(SettledKeys)

StateTypes ==
    /\ now \in Times
    /\ host \in [Keys -> Versions]
    /\ entry \in [Keys -> Entry]
    /\ inflight \in [Keys -> Callers \cup {NoCall}]
    /\ probe \in [Callers -> {NoProbe} \cup Probe]
    /\ waits \in [Callers -> Callers \cup {NoCall}]
    /\ atLeast \in [Keys -> Versions] /\ since \in [Callers -> Versions]
    /\ outdated \subseteq Callers /\ replies \subseteq Reply

\* The types of the state; a key has one place in the Map.
TypeOK == OrderTypes /\ StateTypes

Init ==
    /\ now = 0
    /\ host = [k \in Keys |-> 0]
    /\ order = <<>>
    /\ entry = [k \in Keys |-> [value |-> 0, sampled |-> 0, expires |-> 0]]
    /\ inflight = [k \in Keys |-> NoCall]
    /\ probe = [c \in Callers |-> NoProbe]
    /\ waits = [c \in Callers |-> NoCall]
    /\ atLeast = [k \in Keys |-> 0] /\ since = [c \in Callers |-> 0]
    /\ outdated = {} /\ replies = {}

-----------------------------------------------------------------------------
(* cached(key, ttlMs, fn) *)

Running(c) == probe[c].phase # "none"

Fresh(k) == k \in SettledKeys /\ entry[k].expires > now

\* Mutant: a hit starts the TTL anew.
HitSliding(c, k) ==
    /\ Fresh(k)
    /\ replies' = {[key |-> k, how |-> "hit", value |-> entry[k].value,
                    age |-> now - entry[k].sampled, since |-> atLeast[k]]}
    /\ entry' = [entry EXCEPT ![k].expires = now + TTL]
    /\ UNCHANGED <<inflight, probe, waits, since, outdated>>

Hit(c, k) ==
    /\ Fresh(k)
    /\ replies' = {[key |-> k, how |-> "hit", value |-> entry[k].value,
                    age |-> now - entry[k].sampled, since |-> atLeast[k]]}
    /\ UNCHANGED <<entry, inflight, probe, waits, since, outdated>>

Join(c, k) ==
    /\ ~Fresh(k)
    /\ inflight[k] # NoCall
    /\ waits' = [waits EXCEPT ![c] = inflight[k]]
    /\ since' = [since EXCEPT ![c] = atLeast[k]]
    /\ replies' = {}
    /\ UNCHANGED <<entry, inflight, probe, outdated>>

StartProbe(c, k) ==
    /\ ~Fresh(k)
    /\ inflight[k] = NoCall
    /\ probe' = [probe EXCEPT ![c] = [phase |-> "started", key |-> k, at |-> now]]
    /\ inflight' = [inflight EXCEPT ![k] = c]
    /\ waits' = [waits EXCEPT ![c] = c]
    /\ since' = [since EXCEPT ![c] = atLeast[k]]
    /\ outdated' = outdated \ {c}
    /\ replies' = {}
    /\ UNCHANGED entry

Call(c, k) ==
    /\ waits[c] = NoCall
    /\ Hit(c, k) \/ Join(c, k) \/ StartProbe(c, k)
    /\ UNCHANGED <<now, host, order, atLeast>>

\* The probe's command looks at the host.
Sample(c) ==
    /\ probe[c].phase = "started"
    /\ probe' = [probe EXCEPT ![c] =
                   [phase |-> "sampled", key |-> @.key, at |-> @.at,
                    value |-> host[@.key], sampled |-> now]]
    /\ replies' = {}
    /\ UNCHANGED <<now, host, order, entry, inflight, waits, atLeast, since, outdated>>

\* The FIFO sweep: at the limit the oldest key goes, also when k is not new.
SweptLate == IF Len(order) > CACHE_MAX THEN Tail(order) ELSE order   \* mutant: off by one
Swept == IF Len(order) >= CACHE_MAX THEN Tail(order) ELSE order

\* Map.set keeps the place of a key that is there already.
OrderWith(k) == IF \E i \in 1..Len(Swept) : Swept[i] = k THEN Swept ELSE Append(Swept, k)

\* finally: the entry of inflight goes unless it is a later probe's.
DetachAny(c) == inflight' = [inflight EXCEPT ![probe[c].key] = NoCall]  \* mutant: unguarded
Detach(c) == inflight' = [k \in Keys |-> IF inflight[k] = c THEN NoCall ELSE inflight[k]]

Waiters(c) == {d \in Callers : waits[d] = c}

EndProbe(c) ==
    /\ Detach(c)
    /\ probe' = [probe EXCEPT ![c] = NoProbe]
    /\ waits' = [d \in Callers |-> IF d \in Waiters(c) THEN NoCall ELSE waits[d]]
    /\ outdated' = outdated \ {c}
    /\ UNCHANGED <<now, host, atLeast, since>>

\* The probe resolves: its value is stored and all its callers get it.
Settle(c) ==
    /\ probe[c].phase = "sampled"
    /\ LET p == probe[c] IN
        /\ order' = OrderWith(p.key)
        /\ entry' = [entry EXCEPT ![p.key] = [value |-> p.value, sampled |-> p.sampled,
                                              expires |-> now + TTL]]
        /\ replies' = {[key |-> p.key, how |-> "probe", value |-> p.value,
                        age |-> now - p.sampled, since |-> since[d]] : d \in Waiters(c)}
    /\ EndProbe(c)

\* The probe rejects: its callers get the error and nothing is stored.
Reject(c) ==
    /\ Running(c)
    /\ replies' = {}
    /\ EndProbe(c)
    /\ UNCHANGED <<order, entry>>

-----------------------------------------------------------------------------
(* Mutations, the host and the clock *)

\* The keys of s that are not in P, in their order.
Without(s, P) ==
    LET kept[i \in 0..Len(s)] ==
          IF i = 0 THEN <<>>
          ELSE IF s[i] \in P THEN kept[i - 1]
          ELSE Append(kept[i - 1], s[i])
    IN kept[Len(s)]

\* Mutant: the probes in flight are forgotten.
DropSettledOnly(P) ==
    /\ order' = Without(order, P)
    /\ UNCHANGED inflight

Drop(P) ==
    /\ order' = Without(order, P)
    /\ inflight' = [k \in Keys |-> IF k \in P THEN NoCall ELSE inflight[k]]

\* invalidateCache(prefix), called once the host has changed.
Invalidate(P) ==
    /\ \E k \in P : host[k] > atLeast[k]
    /\ Drop(P)
    /\ atLeast' = [k \in Keys |-> IF k \in P THEN host[k] ELSE atLeast[k]]
    /\ outdated' = outdated \cup {c \in Callers : Running(c) /\ probe[c].key \in P}
    /\ replies' = {}
    /\ UNCHANGED <<now, host, entry, probe, waits, since>>

HostChanges(k) ==
    /\ host[k] < MaxVersion
    /\ host' = [host EXCEPT ![k] = @ + 1]
    /\ replies' = {}
    /\ UNCHANGED <<now, order, entry, inflight, probe, waits, atLeast, since, outdated>>

Tick ==
    /\ now < MaxTime
    /\ \A c \in Callers : Running(c) => now - probe[c].at < ProbeMax
    /\ now' = now + 1
    /\ replies' = {}
    /\ UNCHANGED <<host, order, entry, inflight, probe, waits, atLeast, since, outdated>>

Next ==
    \/ \E c \in Callers : Sample(c) \/ Settle(c) \/ Reject(c) \/ \E k \in Keys : Call(c, k)
    \/ \E P \in Prefixes : Invalidate(P)
    \/ \E k \in Keys : HostChanges(k)
    \/ Tick

Spec == Init /\ [][Next]_vars

-----------------------------------------------------------------------------
(* Properties *)

\* Concurrent callers share one probe: two probes of a key run at once only
\* when the key was invalidated between their starts.
SingleFlight == \A c, d \in Callers :
    (c # d /\ Running(c) /\ Running(d) /\ probe[c].key = probe[d].key)
        => (c \in outdated \/ d \in outdated)

\* A caller that is answered by a probe sees every mutation whose
\* invalidation came before its call.
ProbedReadsFresh == \A r \in replies : r.how = "probe" => r.value >= r.since

\* No answer is older than the TTL plus the run of the probe.
BoundedStaleness == \A r \in replies : r.age <= TTL + ProbeMax

\* The cache never holds more than CACHE_MAX keys.
CacheBounded == Cardinality(SettledKeys) <= CACHE_MAX
================================================================================
