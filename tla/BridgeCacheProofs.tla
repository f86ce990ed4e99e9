--------------------------- MODULE BridgeCacheProofs ---------------------------
(***************************************************************************)
(* Proofs about the bridge read cache.  The invariant relates the three    *)
(* places a probe is known from: the inflight map, the caller that started *)
(* it and the callers that wait for it.  The last part is about the order  *)
(* of the settled keys, which bounds the Map.                              *)
(***************************************************************************)
EXTENDS BridgeCache, FiniteSetTheorems, SequenceTheorems, WellFoundedInduction, TLAPS

\* The map lists a running probe of its key that no invalidation has touched,
\* and every such probe is listed.
InflightOK ==
    /\ \A k \in Keys : inflight[k] # NoCall =>
         Running(inflight[k]) /\ probe[inflight[k]].key = k /\ inflight[k] \notin outdated
    /\ \A c \in Callers : Running(c) => c \in outdated \/ inflight[probe[c].key] = c

\* Whoever waits, waits for a running probe; whoever started one waits for it.
WaitsOK == \A c \in Callers :
    (waits[c] # NoCall => Running(waits[c])) /\ (Running(c) => waits[c] = c)

\* The host is at least as new as the last invalidation, and so is the value
\* of a probe that was not invalidated.
HostOK == \A k \in Keys : host[k] >= atLeast[k]
ListedValueOK == \A c \in Callers :
    probe[c].phase = "sampled" /\ c \notin outdated => probe[c].value >= atLeast[probe[c].key]

\* What a caller is going to be answered is new enough for it.
AnswerOK == \A c \in Callers : waits[c] # NoCall =>
    LET p == probe[waits[c]] IN
        IF p.phase = "sampled" THEN p.value >= since[c] ELSE host[p.key] >= since[c]

\* Ages: of a running probe, of a sampled value, of an entry.
AgesOK ==
    /\ \A c \in Callers : Running(c) => probe[c].at <= now /\ now - probe[c].at <= ProbeMax
    /\ \A c \in Callers : probe[c].phase = "sampled" =>
         probe[c].at <= probe[c].sampled /\ probe[c].sampled <= now
    /\ \A k \in Keys : entry[k].expires - entry[k].sampled <= TTL + ProbeMax
                       /\ entry[k].sampled <= now

FreshInv == StateTypes /\ InflightOK /\ WaitsOK /\ HostOK /\ ListedValueOK /\ AnswerOK

-----------------------------------------------------------------------------
\* The fields of a probe by its phase.
LEMMA ProbeFields == ASSUME NEW p \in {NoProbe} \cup Probe
    PROVE /\ p.phase \in {"none", "started", "sampled"}
          /\ p.phase = "none" => p = NoProbe
          /\ p.phase # "none" => p.key \in Keys /\ p.at \in Times
          /\ p.phase = "sampled" => p.value \in Versions /\ p.sampled \in Times
    BY DEF NoProbe, Probe

\* The types hold initially and every step keeps them.
LEMMA InitTypes == Init => StateTypes
    BY CacheAssumption DEF Init, StateTypes, Times, Versions, Entry

LEMMA NextTypes == ASSUME StateTypes, [Next]_vars PROVE StateTypes'
<1> USE CacheAssumption DEF Times, Versions
<1>0. CASE UNCHANGED vars
    BY <1>0 DEF StateTypes, vars
<1>1. ASSUME NEW c \in Callers, NEW k \in Keys, Call(c, k) PROVE StateTypes'
    <2>1. now' = now /\ host' = host /\ atLeast' = atLeast /\ waits[c] = NoCall
        BY <1>1 DEF Call
    <2>2. CASE Hit(c, k)
        <3>1. entry[k] \in Entry
            BY DEF StateTypes
        <3> QED BY <2>1, <2>2, <3>1 DEF Hit, StateTypes, Entry, Reply
    <2>3. CASE Join(c, k)
        BY <2>1, <2>3 DEF Join, StateTypes
    <2>4. CASE StartProbe(c, k)
        <3>1. [phase |-> "started", key |-> k, at |-> now] \in Probe
            BY DEF Probe, StateTypes
        <3> QED BY <2>1, <2>4, <3>1 DEF StartProbe, StateTypes
    <2> QED BY <1>1, <2>2, <2>3, <2>4 DEF Call
<1>2. ASSUME NEW c \in Callers, Sample(c) PROVE StateTypes'
    <2> DEFINE p == [phase |-> "sampled", key |-> probe[c].key, at |-> probe[c].at,
                     value |-> host[probe[c].key], sampled |-> now]
    <2>1. probe[c] \in {NoProbe} \cup Probe
        BY DEF StateTypes
    <2>2. p \in Probe
        BY <1>2, <2>1, ProbeFields DEF Probe, StateTypes, Sample
    <2>3. probe' = [probe EXCEPT ![c] = p]
        BY <1>2 DEF Sample
    <2> QED BY <1>2, <2>2, <2>3 DEF Sample, StateTypes
<1>3. ASSUME NEW c \in Callers, EndProbe(c) PROVE
          /\ now' = now /\ host' = host /\ atLeast' = atLeast /\ since' = since
          /\ inflight' \in [Keys -> Callers \cup {NoCall}]
          /\ probe' \in [Callers -> {NoProbe} \cup Probe]
          /\ waits' \in [Callers -> Callers \cup {NoCall}]
          /\ outdated' \subseteq Callers
    BY <1>3 DEF EndProbe, Detach, StateTypes
<1>4. ASSUME NEW c \in Callers, Settle(c) PROVE StateTypes'
    <2>1. probe[c] \in {NoProbe} \cup Probe
        BY DEF StateTypes
    <2>2. probe[c].key \in Keys /\ probe[c].value \in Versions /\ probe[c].sampled \in Times
        BY <1>4, <2>1, ProbeFields DEF Settle
    <2>3. [value |-> probe[c].value, sampled |-> probe[c].sampled, expires |-> now + TTL] \in Entry
        BY <2>2 DEF Entry, StateTypes
    <2>4. entry' \in [Keys -> Entry]
        BY <1>4, <2>3 DEF Settle, StateTypes
    <2>5. replies' \subseteq Reply
        BY <1>4, <2>2 DEF Settle, StateTypes, Reply, Waiters
    <2>6. EndProbe(c)
        BY <1>4 DEF Settle
    <2> QED BY <1>3, <2>4, <2>5, <2>6 DEF StateTypes
<1>5. ASSUME NEW c \in Callers, Reject(c) PROVE StateTypes'
    BY <1>3, <1>5 DEF Reject, StateTypes
<1>6. ASSUME NEW P \in Prefixes, Invalidate(P) PROVE StateTypes'
    BY <1>6 DEF Invalidate, Drop, StateTypes
<1>7. ASSUME NEW k \in Keys, HostChanges(k) PROVE StateTypes'
    BY <1>7 DEF HostChanges, StateTypes
<1>8. ASSUME Tick PROVE StateTypes'
    BY <1>8 DEF Tick, StateTypes
<1> QED BY <1>0, <1>1, <1>2, <1>4, <1>5, <1>6, <1>7, <1>8 DEF Next

-----------------------------------------------------------------------------
\* Every step keeps the relations between the maps, the probes and the waiters.
LEMMA InitFresh == Init => FreshInv
    BY InitTypes, CacheAssumption
    DEF Init, FreshInv, InflightOK, WaitsOK, HostOK, ListedValueOK, AnswerOK, Running, NoProbe, Versions

LEMMA NextFresh == ASSUME FreshInv, [Next]_vars PROVE FreshInv'
<1> USE CacheAssumption DEF Running
<1>0. StateTypes /\ StateTypes'
    BY NextTypes DEF FreshInv
<1> DEFINE Rest == InflightOK /\ WaitsOK /\ HostOK /\ ListedValueOK /\ AnswerOK
<1> SUFFICES Rest'
    BY <1>0 DEF FreshInv
<1>a. ASSUME NEW c \in Callers, probe[c].phase # "none" PROVE probe[c].key \in Keys
    <2>1. probe[c] \in {NoProbe} \cup Probe
        BY <1>0 DEF StateTypes
    <2> QED BY <1>a, <2>1, ProbeFields
<1>b. /\ \A k \in Keys : host[k] \in Int /\ atLeast[k] \in Int
      /\ \A c \in Callers : since[c] \in Int
    BY <1>0 DEF StateTypes, Versions
<1>c. InflightOK /\ WaitsOK /\ HostOK /\ ListedValueOK /\ AnswerOK
    BY DEF FreshInv
<1>1. CASE UNCHANGED vars
    BY <1>1, <1>c DEF vars, InflightOK, WaitsOK, HostOK, ListedValueOK, AnswerOK
<1>2. ASSUME NEW c \in Callers, NEW k \in Keys, Call(c, k) PROVE Rest'
    <2>1. /\ host' = host /\ atLeast' = atLeast /\ waits[c] = NoCall
        BY <1>2 DEF Call
    <2>2. CASE Hit(c, k)
        BY <2>1, <2>2, <1>c DEF Hit, InflightOK, WaitsOK, HostOK, ListedValueOK, AnswerOK
    <2>3. CASE Join(c, k)
        <3> DEFINE o == inflight[k]
        <3>1. o \in Callers /\ Running(o) /\ probe[o].key = k /\ o \notin outdated
            BY <2>3, <1>c, <1>0 DEF Join, InflightOK, StateTypes
        <3>2. IF probe[o].phase = "sampled" THEN probe[o].value >= atLeast[k] ELSE host[k] >= atLeast[k]
            BY <3>1, <1>c DEF ListedValueOK, HostOK
        <3>3. waits' = [waits EXCEPT ![c] = o] /\ since' = [since EXCEPT ![c] = atLeast[k]]
              /\ probe' = probe /\ inflight' = inflight /\ outdated' = outdated
            BY <2>3 DEF Join
        <3>4. WaitsOK'
            <4>1. ~Running(c)
                BY <2>1, <1>c DEF WaitsOK
            <4> QED BY <4>1, <3>1, <3>3, <1>0, <1>c DEF WaitsOK, StateTypes
        <3>5. AnswerOK'
            BY <2>1, <3>1, <3>2, <3>3, <1>0, <1>c DEF AnswerOK, StateTypes
        <3> QED BY <2>1, <3>3, <3>4, <3>5, <1>c DEF InflightOK, HostOK, ListedValueOK
    <2>4. CASE StartProbe(c, k)
        <3>1. /\ waits' = [waits EXCEPT ![c] = c] /\ since' = [since EXCEPT ![c] = atLeast[k]]
              /\ inflight[k] = NoCall /\ inflight' = [inflight EXCEPT ![k] = c]
              /\ outdated' = outdated \ {c}
            BY <2>4 DEF StartProbe
        <3>2. /\ probe' \in [Callers -> {NoProbe} \cup Probe]
              /\ \A d \in Callers \ {c} : probe'[d] = probe[d]
              /\ probe'[c].phase = "started" /\ probe'[c].key = k
            BY <2>4, <1>0 DEF StartProbe, StateTypes
        <3>3. probe[c].phase = "none"
            BY <2>1, <1>c, CacheAssumption DEF WaitsOK
        <3>4. InflightOK'
            BY <3>1, <3>2, <3>3, <1>0, <1>c DEF InflightOK, StateTypes
        <3>5. WaitsOK'
            BY <3>1, <3>2, <1>0, <1>c DEF WaitsOK, StateTypes
        <3>6. ListedValueOK'
            BY <2>1, <3>1, <3>2, <1>c DEF ListedValueOK
        <3>7. AnswerOK'
            BY <2>1, <3>1, <3>2, <3>3, <1>0, <1>b, <1>c DEF AnswerOK, WaitsOK, HostOK, StateTypes
        <3> QED BY <2>1, <3>4, <3>5, <3>6, <3>7, <1>c DEF HostOK
    <2> QED BY <1>2, <2>2, <2>3, <2>4 DEF Call
<1>3. ASSUME NEW c \in Callers, Sample(c) PROVE Rest'
    <2>1. /\ probe[c].phase = "started" /\ host' = host /\ atLeast' = atLeast /\ waits' = waits
          /\ inflight' = inflight /\ since' = since /\ outdated' = outdated
        BY <1>3 DEF Sample
    <2>2. /\ probe' \in [Callers -> {NoProbe} \cup Probe]
          /\ \A d \in Callers \ {c} : probe'[d] = probe[d]
          /\ probe'[c].phase = "sampled" /\ probe'[c].key = probe[c].key
          /\ probe'[c].value = host[probe[c].key]
        BY <1>3, <1>0 DEF Sample, StateTypes
    <2>3. InflightOK'
        BY <2>1, <2>2, <1>0, <1>c DEF InflightOK, StateTypes
    <2>4. WaitsOK'
        BY <2>1, <2>2, <1>0, <1>c DEF WaitsOK, StateTypes
    <2>5. ListedValueOK'
        <3>1. probe[c].key \in Keys /\ host[probe[c].key] >= atLeast[probe[c].key]
            BY <2>1, <1>a, <1>c DEF HostOK
        <3> QED BY <3>1, <2>1, <2>2, <1>c DEF ListedValueOK
    <2>6. AnswerOK'
        BY <2>1, <2>2, <1>0, <1>c DEF AnswerOK, StateTypes
    <2> QED BY <2>1, <2>3, <2>4, <2>5, <2>6, <1>c DEF HostOK
<1>4. ASSUME NEW c \in Callers, Running(c), EndProbe(c) PROVE Rest'
    <2>1. /\ host' = host /\ atLeast' = atLeast /\ since' = since
          /\ inflight' = [k \in Keys |-> IF inflight[k] = c THEN NoCall ELSE inflight[k]]
          /\ waits' = [d \in Callers |-> IF waits[d] = c THEN NoCall ELSE waits[d]]
          /\ outdated' = outdated \ {c}
        BY <1>4 DEF EndProbe, Detach, Waiters
    <2>2. /\ \A d \in Callers \ {c} : probe'[d] = probe[d]
          /\ probe'[c].phase = "none"
        BY <1>4, <1>0 DEF EndProbe, StateTypes, NoProbe
    <2>3. InflightOK'
        <3>1. ASSUME NEW k \in Keys, inflight'[k] # NoCall
              PROVE probe'[inflight'[k]].phase # "none" /\ probe'[inflight'[k]].key = k /\ inflight'[k] \notin outdated'
            <4>1. inflight'[k] = inflight[k] /\ inflight[k] # c /\ inflight[k] \in Callers
                BY <2>1, <3>1, <1>0 DEF StateTypes
            <4> QED BY <4>1, <2>1, <2>2, <3>1, <1>c DEF InflightOK
        <3>2. ASSUME NEW d \in Callers, probe'[d].phase # "none"
              PROVE d \in outdated' \/ inflight'[probe'[d].key] = d
            <4>1. d # c /\ probe'[d] = probe[d]
                BY <2>2, <3>2
            <4>2. probe[d].key \in Keys /\ (d \in outdated \/ inflight[probe[d].key] = d)
                BY <4>1, <3>2, <1>a, <1>c DEF InflightOK
            <4> QED BY <4>1, <4>2, <2>1
        <3> QED BY <3>1, <3>2 DEF InflightOK
    <2>4. WaitsOK'
        BY <2>1, <2>2, <1>0, <1>c DEF WaitsOK, StateTypes
    <2>5. ListedValueOK'
        BY <2>1, <2>2, <1>c DEF ListedValueOK
    <2>6. AnswerOK'
        BY <2>1, <2>2, <1>0, <1>c DEF AnswerOK, StateTypes
    <2> QED BY <2>1, <2>3, <2>4, <2>5, <2>6, <1>c DEF HostOK
<1>5. ASSUME NEW c \in Callers, Settle(c) \/ Reject(c) PROVE Rest'
    BY <1>4, <1>5 DEF Settle, Reject
<1>6. ASSUME NEW P \in Prefixes, Invalidate(P) PROVE Rest'
    <2>1. /\ host' = host /\ probe' = probe /\ waits' = waits /\ since' = since
          /\ inflight' = [k \in Keys |-> IF k \in P THEN NoCall ELSE inflight[k]]
          /\ atLeast' = [k \in Keys |-> IF k \in P THEN host[k] ELSE atLeast[k]]
          /\ outdated' = outdated \cup {c \in Callers : Running(c) /\ probe[c].key \in P}
        BY <1>6 DEF Invalidate, Drop
    <2>2. InflightOK'
        <3>1. ASSUME NEW k \in Keys, inflight'[k] # NoCall
              PROVE probe'[inflight'[k]].phase # "none" /\ probe'[inflight'[k]].key = k /\ inflight'[k] \notin outdated'
            BY <2>1, <3>1, <1>0, <1>c DEF InflightOK, StateTypes
        <3>2. ASSUME NEW d \in Callers, probe'[d].phase # "none"
              PROVE d \in outdated' \/ inflight'[probe'[d].key] = d
            <4>1. Running(d) /\ probe[d].key \in Keys
                BY <2>1, <3>2, <1>a
            <4>2. d \in outdated \/ inflight[probe[d].key] = d
                BY <4>1, <1>c DEF InflightOK
            <4> QED BY <4>1, <4>2, <2>1
        <3> QED BY <3>1, <3>2 DEF InflightOK
    <2>3. HostOK'
        BY <2>1, <1>b, <1>c DEF HostOK
    <2>4. ListedValueOK'
        <3> SUFFICES ASSUME NEW d \in Callers, probe[d].phase = "sampled", d \notin outdated'
                     PROVE probe[d].value >= atLeast'[probe[d].key]
            BY <2>1 DEF ListedValueOK
        <3>1. probe[d].key \in Keys /\ d \notin outdated /\ probe[d].key \notin P
            BY <2>1, <1>a
        <3> QED BY <3>1, <2>1, <1>c DEF ListedValueOK
    <2> QED BY <2>1, <2>2, <2>3, <2>4, <1>c DEF WaitsOK, AnswerOK
<1>7. ASSUME NEW k \in Keys, HostChanges(k) PROVE Rest'
    <2>1. /\ host' = [host EXCEPT ![k] = @ + 1] /\ atLeast' = atLeast /\ since' = since
          /\ inflight' = inflight /\ probe' = probe /\ waits' = waits /\ outdated' = outdated
        BY <1>7 DEF HostChanges
    <2>2. \A j \in Keys : host'[j] >= host[j]
        BY <2>1, <1>0, <1>b DEF StateTypes
    <2>3. HostOK'
        BY <2>1, <2>2, <1>0, <1>b, <1>c DEF HostOK, StateTypes, Versions
    <2>4. AnswerOK'
        <3> SUFFICES ASSUME NEW c \in Callers, waits[c] # NoCall, probe[waits[c]].phase # "sampled"
                     PROVE host'[probe[waits[c]].key] >= since[c]
            BY <2>1, <1>c DEF AnswerOK
        <3>1. waits[c] \in Callers /\ Running(waits[c])
            BY <1>0, <1>c DEF WaitsOK, StateTypes
        <3>2. probe[waits[c]].key \in Keys
            BY <3>1, <1>a
        <3>3. host[probe[waits[c]].key] >= since[c]
            BY <1>c DEF AnswerOK
        <3> QED BY <3>2, <3>3, <2>1, <2>2, <1>0, <1>b DEF StateTypes, Versions
    <2> QED BY <2>1, <2>3, <2>4, <1>c DEF InflightOK, WaitsOK, ListedValueOK
<1>8. CASE Tick
    BY <1>8, <1>c DEF Tick, InflightOK, WaitsOK, HostOK, ListedValueOK, AnswerOK
<1> QED BY <1>1, <1>2, <1>3, <1>5, <1>6, <1>7, <1>8 DEF Next

LEMMA FreshInvariance == Spec => []FreshInv
<1>1. FreshInv /\ [Next]_vars => FreshInv'
    BY NextFresh
<1> QED BY InitFresh, <1>1, PTL DEF Spec

-----------------------------------------------------------------------------
\* cached() runs one probe per key at a time, unless a mutation came between
\* the starts of two.
THEOREM OneProbePerKey == Spec => []SingleFlight
<1>1. FreshInv => SingleFlight
    BY DEF FreshInv, InflightOK, SingleFlight
<1> QED BY <1>1, FreshInvariance, PTL

\* Callers that were answered by a probe in the last step.
LEMMA AnswersFresh == ASSUME FreshInv, ProbedReadsFresh, [Next]_vars PROVE ProbedReadsFresh'
<1>1. CASE UNCHANGED vars
    BY <1>1 DEF vars, ProbedReadsFresh
<1>2. ASSUME NEW c \in Callers, NEW k \in Keys, Call(c, k) PROVE ProbedReadsFresh'
    BY <1>2 DEF Call, Hit, Join, StartProbe, ProbedReadsFresh
<1>3. ASSUME NEW c \in Callers, Settle(c) PROVE ProbedReadsFresh'
    <2>1. \A d \in Waiters(c) : probe[c].value >= since[d]
        BY <1>3, CacheAssumption DEF Settle, Waiters, FreshInv, AnswerOK
    <2> QED BY <1>3, <2>1 DEF Settle, ProbedReadsFresh
<1>4. ASSUME replies' = {} PROVE ProbedReadsFresh'
    BY <1>4 DEF ProbedReadsFresh
<1> QED BY <1>1, <1>2, <1>3, <1>4 DEF Next, Sample, Reject, Invalidate, HostChanges, Tick

\* A caller that had to wait for a probe, its own or a joined one, sees every
\* mutation invalidated before it called.
THEOREM ProbeAnswersFresh == Spec => []ProbedReadsFresh
<1>1. Init => ProbedReadsFresh
    BY DEF Init, ProbedReadsFresh
<1>2. FreshInv /\ ProbedReadsFresh /\ [Next]_vars => ProbedReadsFresh'
    BY AnswersFresh
<1> QED BY <1>1, <1>2, FreshInvariance, PTL DEF Spec

-----------------------------------------------------------------------------
AgeInv == StateTypes /\ AgesOK /\ BoundedStaleness

\* Every step keeps the ages within their bounds, and so does what it answers.
LEMMA InitAges == Init => AgeInv
    BY InitTypes, CacheAssumption DEF Init, AgeInv, AgesOK, BoundedStaleness, Running, NoProbe

LEMMA NextAges == ASSUME AgeInv, [Next]_vars PROVE AgeInv'
<1> USE CacheAssumption
<1>0. StateTypes /\ StateTypes'
    BY NextTypes DEF AgeInv
<1>b. ASSUME NEW c \in Callers PROVE
        /\ probe[c].phase # "none" => probe[c].at \in Int
        /\ probe[c].phase = "sampled" => probe[c].sampled \in Int
    <2>1. probe[c] \in {NoProbe} \cup Probe
        BY <1>0 DEF StateTypes
    <2> QED BY <2>1, ProbeFields DEF Times
<1>c. AgesOK /\ BoundedStaleness /\ now \in Int /\ TTL \in Int /\ ProbeMax \in Int
    BY <1>0 DEF AgeInv, StateTypes, Times
<1>e. \A k \in Keys : entry[k].sampled \in Int /\ entry[k].expires \in Int
    BY <1>0 DEF StateTypes, Entry, Times, Versions
<1> SUFFICES AgesOK' /\ BoundedStaleness'
    BY <1>0 DEF AgeInv
<1>1. CASE UNCHANGED vars
    BY <1>1, <1>c DEF vars, AgesOK, BoundedStaleness, Running
<1>2. ASSUME NEW c \in Callers, NEW k \in Keys, Call(c, k) PROVE AgesOK' /\ BoundedStaleness'
    <2>1. now' = now /\ waits[c] = NoCall
        BY <1>2 DEF Call
    <2>2. CASE Hit(c, k)
        <3>1. now - entry[k].sampled <= TTL + ProbeMax
            BY <2>2, <1>c, <1>e DEF Hit, Fresh, AgesOK
        <3> QED BY <2>1, <2>2, <3>1, <1>c DEF Hit, AgesOK, BoundedStaleness, Running
    <2>3. CASE Join(c, k)
        BY <2>1, <2>3, <1>c DEF Join, AgesOK, BoundedStaleness, Running
    <2>4. CASE StartProbe(c, k)
        <3>1. /\ \A d \in Callers \ {c} : probe'[d] = probe[d]
              /\ probe'[c].phase = "started" /\ probe'[c].at = now
              /\ entry' = entry /\ replies' = {}
            BY <2>4, <1>0 DEF StartProbe, StateTypes
        <3> QED BY <2>1, <3>1, <1>c DEF AgesOK, BoundedStaleness, Running
    <2> QED BY <1>2, <2>2, <2>3, <2>4 DEF Call
<1>3. ASSUME NEW c \in Callers, Sample(c) PROVE AgesOK' /\ BoundedStaleness'
    <2>1. /\ \A d \in Callers \ {c} : probe'[d] = probe[d]
          /\ probe'[c].phase = "sampled" /\ probe'[c].at = probe[c].at
          /\ probe'[c].sampled = now /\ Running(c)
          /\ entry' = entry /\ replies' = {} /\ now' = now
        BY <1>3, <1>0 DEF Sample, StateTypes, Running
    <2> QED BY <2>1, <1>c DEF AgesOK, BoundedStaleness, Running
<1>4. ASSUME NEW c \in Callers, EndProbe(c) PROVE
        /\ now' = now /\ probe'[c].phase = "none"
        /\ \A d \in Callers \ {c} : probe'[d] = probe[d]
    BY <1>4, <1>0 DEF EndProbe, StateTypes, NoProbe
<1>5. ASSUME NEW c \in Callers, Settle(c) PROVE AgesOK' /\ BoundedStaleness'
    <2>1. EndProbe(c) /\ probe[c].phase = "sampled"
        BY <1>5 DEF Settle
    <2> DEFINE k == probe[c].key
    <2>2. k \in Keys
        <3>1. probe[c] \in {NoProbe} \cup Probe
            BY <1>0 DEF StateTypes
        <3> QED BY <3>1, <2>1, ProbeFields
    <2>3. /\ probe[c].at <= probe[c].sampled /\ probe[c].sampled <= now
          /\ now - probe[c].at <= ProbeMax
          /\ probe[c].at \in Int /\ probe[c].sampled \in Int
        BY <2>1, <1>b, <1>c DEF AgesOK, Running
    <2>4. /\ \A j \in Keys \ {k} : entry'[j] = entry[j]
          /\ entry'[k].expires = now + TTL /\ entry'[k].sampled = probe[c].sampled
        BY <1>5, <2>2, <1>0 DEF Settle, StateTypes
    <2>5. AgesOK'
        BY <2>1, <2>2, <2>3, <2>4, <1>4, <1>c DEF AgesOK, Running
    <2>6. \A r \in replies' : r.age = now - probe[c].sampled
        BY <1>5 DEF Settle
    <2> QED BY <2>3, <2>5, <2>6, <1>c DEF BoundedStaleness
<1>6. ASSUME NEW c \in Callers, Reject(c) PROVE AgesOK' /\ BoundedStaleness'
    BY <1>4, <1>6, <1>c DEF Reject, AgesOK, BoundedStaleness, Running
<1>7. ASSUME NEW P \in Prefixes, Invalidate(P) PROVE AgesOK' /\ BoundedStaleness'
    BY <1>7, <1>c DEF Invalidate, AgesOK, BoundedStaleness, Running
<1>8. ASSUME NEW k \in Keys, HostChanges(k) PROVE AgesOK' /\ BoundedStaleness'
    BY <1>8, <1>c DEF HostChanges, AgesOK, BoundedStaleness, Running
<1>9. CASE Tick
    <2>1. /\ now' = now + 1 /\ probe' = probe /\ entry' = entry /\ replies' = {}
          /\ \A c \in Callers : Running(c) => now - probe[c].at < ProbeMax
        BY <1>9 DEF Tick
    <2> QED BY <2>1, <1>b, <1>c, <1>e DEF AgesOK, BoundedStaleness, Running
<1> QED BY <1>1, <1>2, <1>3, <1>5, <1>6, <1>7, <1>8, <1>9 DEF Next

\* Nothing is answered that is older than the TTL plus the run of a probe,
\* for all durations and any number of callers.
THEOREM StalenessBound == Spec => []BoundedStaleness
<1>1. AgeInv /\ [Next]_vars => AgeInv'
    BY NextAges
<1>2. AgeInv => BoundedStaleness
    BY DEF AgeInv
<1> QED BY InitAges, <1>1, <1>2, PTL DEF Spec

-----------------------------------------------------------------------------
(* the limit of the cache *)

\* A set of naturals that holds 0 and, with every m below n, m + 1, holds 0..n.
LEMMA UpTo ==
    ASSUME NEW n \in Nat, NEW T, 0 \in T, \A m \in 0..n : m # n /\ m \in T => m + 1 \in T
    PROVE  0..n \subseteq T
<1> DEFINE Gap == (0..n) \ T
<1> SUFFICES ASSUME Gap # {} PROVE FALSE
  OBVIOUS
<1>1. PICK x \in Gap : \A y \in Gap : ~ (<<y, x>> \in OpToRel(<, Nat))
  <2>1. Gap \subseteq Nat
    OBVIOUS
  <2> HIDE DEF Gap
  <2> QED BY <2>1, WFMin, NatLessThanWellFounded
<1>2. x \in Nat /\ x <= n /\ x \notin T /\ x # 0
  OBVIOUS
<1>3. x - 1 \in 0..n /\ x - 1 # n /\ x - 1 < x /\ x - 1 + 1 = x
  BY <1>2
<1>4. x - 1 \notin Gap
  <2>1. Gap \subseteq Nat
    OBVIOUS
  <2> HIDE DEF Gap
  <2>2. \A y \in Gap : ~ (y < x)
    BY <1>1, <2>1 DEF OpToRel
  <2> QED BY <1>3, <2>2
<1> QED BY <1>2, <1>3, <1>4

\* What is left of a sequence of keys is one, no longer than it.
LEMMA WithoutIs ==
    ASSUME NEW s \in Seq(Keys), NEW P
    PROVE  Without(s, P) \in Seq(Keys) /\ Len(Without(s, P)) <= Len(s)
<1> DEFINE n == Len(s)
           Def(g, i) == IF i = 0 THEN <<>>
                        ELSE IF s[i] \in P THEN g[i - 1] ELSE Append(g[i - 1], s[i])
           Filters(m, g) == \A i \in 0..m : g[i] = Def(g, i)
           T == {m \in 0..n : \E g : g \in [0..m -> Seq(Keys)] /\ Filters(m, g)}
<1>0. n \in Nat /\ \A i \in 1..n : s[i] \in Keys
  OBVIOUS
<1>1. 0 \in T
  <2> DEFINE g == [i \in 0..0 |-> <<>>]
  <2>1. g \in [0..0 -> Seq(Keys)]
    OBVIOUS
  <2>2. Filters(0, g)
    OBVIOUS
  <2>3. 0 \in 0..n
    BY <1>0
  <2> HIDE DEF g, Filters, n
  <2> QED BY <2>1, <2>2, <2>3
<1>2. ASSUME NEW m \in 0..n, m # n, m \in T PROVE m + 1 \in T
  <2>1. PICK g : g \in [0..m -> Seq(Keys)] /\ Filters(m, g)
    BY <1>2
  <2> DEFINE h == [i \in 0..m + 1 |-> IF i = m + 1 THEN Def(g, m + 1) ELSE g[i]]
  <2>2. m \in Nat /\ m + 1 \in 1..n /\ m + 1 # 0 /\ m + 1 - 1 = m
    BY <1>0, <1>2
  <2>3. Def(g, m + 1) \in Seq(Keys)
    <3>0. m \in 0..m
      BY <2>2
    <3>1. g[m] \in Seq(Keys) /\ s[m + 1] \in Keys
      BY <1>0, <2>1, <2>2, <3>0
    <3>2. Append(g[m], s[m + 1]) \in Seq(Keys)
      BY <3>1, AppendProperties
    <3> QED BY <2>2, <3>1, <3>2
  <2>4. \A i \in 0..m + 1 : i = m + 1 \/ i \in 0..m
    BY <2>2
  <2>5. h \in [0..m + 1 -> Seq(Keys)]
    <3> HIDE DEF Def
    <3> QED BY <2>1, <2>3, <2>4
  <2>6. ASSUME NEW i \in 0..m + 1 PROVE h[i] = Def(h, i)
    <3>1. CASE i = m + 1
      <4>1. h[i] = Def(g, i) /\ i - 1 = m /\ h[m] = g[m]
        <5> HIDE DEF Def
        <5> QED BY <2>2, <3>1
      <4> QED BY <4>1
    <3>2. CASE i # m + 1
      <4>1. i \in 0..m /\ h[i] = g[i] /\ g[i] = Def(g, i)
        BY <2>1, <2>4, <3>2
      <4>2. i # 0 => i - 1 \in 0..m /\ i - 1 \in 0..m + 1 /\ i - 1 # m + 1
        BY <2>2, <4>1
      <4>3. i # 0 => h[i - 1] = g[i - 1]
        <5> HIDE DEF Def
        <5> QED BY <4>2
      <4>4. Def(h, i) = Def(g, i)
        <5> HIDE DEF h
        <5> QED BY <4>3
      <4> QED BY <4>1, <4>4
    <3> QED BY <3>1, <3>2
  <2>7. Filters(m + 1, h)
    <3> HIDE DEF h, Def
    <3> QED BY <2>6
  <2>8. m + 1 \in 0..n
    BY <1>0, <2>2
  <2> HIDE DEF h, Filters
  <2> QED BY <2>5, <2>7, <2>8
<1>3. n \in T
  <2> HIDE DEF T
  <2>1. 0..n \subseteq T
    BY <1>0, <1>1, <1>2, UpTo
  <2> QED BY <1>0, <2>1
<1> DEFINE kept == CHOOSE f : f = [i \in 0..n |-> Def(f, i)]
<1>4. kept = [i \in 0..n |-> Def(kept, i)]
  <2>1. PICK g : g \in [0..n -> Seq(Keys)] /\ Filters(n, g)
    BY <1>3
  <2>2. g = [i \in 0..n |-> Def(g, i)]
    <3> HIDE DEF Def
    <3> QED BY <2>1
  <2> HIDE DEF Def
  <2> QED BY <2>2
<1>5. Without(s, P) = kept[n]
  BY DEF Without
<1> HIDE DEF kept
<1> DEFINE U == {m \in 0..n : kept[m] \in Seq(Keys) /\ Len(kept[m]) <= m}
<1>6. 0 \in U
  <2>1. kept[0] = <<>>
    BY <1>0, <1>4
  <2>2. <<>> \in Seq(Keys) /\ Len(<<>>) <= 0
    OBVIOUS
  <2>3. kept[0] \in Seq(Keys) /\ Len(kept[0]) <= 0
    BY <2>1, <2>2
  <2>4. 0 \in 0..n
    BY <1>0
  <2> HIDE DEF n
  <2> QED BY <2>3, <2>4
<1>7. ASSUME NEW m \in 0..n, m # n, m \in U PROVE m + 1 \in U
  <2>1. m \in Nat /\ m + 1 \in 1..n /\ m + 1 \in 0..n /\ m + 1 # 0 /\ m + 1 - 1 = m
    BY <1>0, <1>7
  <2>2. kept[m + 1] = IF s[m + 1] \in P THEN kept[m] ELSE Append(kept[m], s[m + 1])
    <3>1. kept[m + 1] = Def(kept, m + 1)
      <4> HIDE DEF Def, n
      <4> QED BY <1>4, <2>1
    <3> QED BY <2>1, <3>1
  <2>3. PICK t \in Seq(Keys) : t = kept[m] /\ Len(t) <= m
    BY <1>7
  <2>4. PICK u \in Seq(Keys) : u = Append(t, s[m + 1]) /\ Len(u) = Len(t) + 1
    <3>1. s[m + 1] \in Keys
      BY <1>0, <2>1
    <3>2. Append(t, s[m + 1]) \in Seq(Keys) /\ Len(Append(t, s[m + 1])) = Len(t) + 1
      BY <3>1, AppendProperties
    <3> QED BY <3>2
  <2>5. kept[m + 1] = IF s[m + 1] \in P THEN t ELSE u
    BY <2>2, <2>3, <2>4
  <2>6. Len(t) <= m + 1 /\ Len(u) <= m + 1
    <3>1. Len(t) \in Nat /\ Len(u) \in Nat
      OBVIOUS
    <3>2. m \in Nat /\ Len(t) <= m /\ Len(u) = Len(t) + 1
      BY <2>1, <2>3, <2>4
    <3> HIDE DEF n
    <3> QED BY ONLY <3>1, <3>2
  <2>7. kept[m + 1] \in Seq(Keys) /\ Len(kept[m + 1]) <= m + 1
    BY <2>5, <2>6
  <2> QED BY <2>1, <2>7
<1>8. n \in U
  <2> HIDE DEF U
  <2>1. 0..n \subseteq U
    BY <1>0, <1>6, <1>7, UpTo
  <2> QED BY <1>0, <2>1
<1> QED BY <1>5, <1>8

\* The Map settled is a sequence of keys within the limit.
OrderInv == order \in Seq(Keys) /\ Len(order) <= CACHE_MAX

\* The sweep makes room for one key.
LEMMA SweepMakesRoom ==
    ASSUME OrderInv, NEW k \in Keys
    PROVE  OrderWith(k) \in Seq(Keys) /\ Len(OrderWith(k)) <= CACHE_MAX
<1>1. CACHE_MAX \in Nat \ {0} /\ Len(order) \in Nat /\ order \in Seq(Keys)
  BY CacheAssumption DEF OrderInv
<1>2. PICK s \in Seq(Keys) : s = Swept /\ Len(s) \in Nat /\ Len(s) <= CACHE_MAX - 1
  <2>1. CASE Len(order) >= CACHE_MAX
    <3>1. order # <<>>
      BY <1>1, <2>1
    <3>2. Tail(order) \in Seq(Keys) /\ Len(Tail(order)) = Len(order) - 1
      BY <1>1, <3>1, HeadTailProperties
    <3>3. PICK s \in Seq(Keys) : s = Tail(order) /\ Len(s) = Len(order) - 1
      BY <3>2
    <3>4. Len(s) \in Nat /\ Len(s) <= CACHE_MAX - 1
      BY <1>1, <3>3 DEF OrderInv
    <3> QED BY <2>1, <3>3, <3>4 DEF Swept
  <2>2. CASE ~ (Len(order) >= CACHE_MAX)
    <3>1. Len(order) <= CACHE_MAX - 1
      BY <1>1, <2>2
    <3> QED BY <1>1, <2>2, <3>1 DEF Swept
  <2> QED BY <2>1, <2>2
<1>3. PICK t \in Seq(Keys) : t = Append(s, k) /\ Len(t) = Len(s) + 1
  <2>1. Append(s, k) \in Seq(Keys) /\ Len(Append(s, k)) = Len(s) + 1
    BY AppendProperties
  <2> QED BY <2>1
<1>4. Len(s) <= CACHE_MAX /\ Len(t) <= CACHE_MAX
  BY <1>1, <1>2, <1>3
<1>5. OrderWith(k) = s \/ OrderWith(k) = t
  BY <1>2, <1>3 DEF OrderWith
<1> QED BY <1>4, <1>5

\* The keys of the Map are no more than its places.
LEMMA KeysCounted == ASSUME OrderInv PROVE CacheBounded
<1>1. Len(order) \in Nat /\ IsFiniteSet(1..Len(order)) /\ Cardinality(1..Len(order)) = Len(order)
  <2>1. Len(order) \in Nat
    BY DEF OrderInv
  <2> QED BY <2>1, FS_Interval
<1>2. SettledKeys = {order[i] : i \in 1..Len(order)}
  BY DEF SettledKeys
<1> DEFINE place == [i \in 1..Len(order) |-> order[i]]
<1>3. /\ place \in Surjection(1..Len(order), SettledKeys)
  BY <1>2 DEF Surjection
<1>4. IsFiniteSet(SettledKeys) /\ Cardinality(SettledKeys) <= Len(order)
  <2> HIDE DEF place
  <2> QED BY <1>1, <1>3, FS_Surjection
<1>5. Cardinality(SettledKeys) \in Nat
  BY <1>4, FS_CardinalityType
<1> QED BY <1>1, <1>4, <1>5, CacheAssumption DEF OrderInv, CacheBounded

\* cached: the cache holds at most CACHE_MAX keys, whatever probes settle and mutations drop.
THEOREM CacheLimit == Spec => []CacheBounded
<1>1. Init => OrderInv
  BY CacheAssumption DEF Init, OrderInv
<1>2. FreshInv /\ OrderInv /\ [Next]_vars => OrderInv'
  <2> SUFFICES ASSUME FreshInv, OrderInv, [Next]_vars PROVE OrderInv'
    OBVIOUS
  <2>1. CASE order' = order
    BY <2>1 DEF OrderInv
  <2>2. ASSUME NEW c \in Callers, Settle(c) PROVE OrderInv'
    <3>1. probe[c] \in {NoProbe} \cup Probe /\ probe[c].phase = "sampled"
      BY <2>2 DEF Settle, FreshInv, StateTypes
    <3>2. probe[c].key \in Keys /\ order' = OrderWith(probe[c].key)
      BY <2>2, <3>1, ProbeFields DEF Settle
    <3> QED BY <3>2, SweepMakesRoom DEF OrderInv
  <2>3. ASSUME NEW P \in Prefixes, Invalidate(P) PROVE OrderInv'
    <3>1. order' = Without(order, P) /\ order \in Seq(Keys)
      BY <2>3 DEF Invalidate, Drop, OrderInv
    <3>2. order' \in Seq(Keys) /\ Len(order') <= Len(order)
      BY <3>1, WithoutIs
    <3>3. Len(order) \in Nat /\ Len(order') \in Nat /\ CACHE_MAX \in Nat
      BY <3>1, <3>2, CacheAssumption
    <3> QED BY <3>2, <3>3 DEF OrderInv
  <2> QED BY <2>1, <2>2, <2>3 DEF Next, vars, Sample, Reject, Call, HostChanges, Tick
<1>3. OrderInv => CacheBounded
  BY KeysCounted
<1> QED BY <1>1, <1>2, <1>3, FreshInvariance, PTL DEF Spec
================================================================================
