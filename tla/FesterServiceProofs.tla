-------------------------- MODULE FesterServiceProofs --------------------------
(* Theorems about FesterService and the FesterStore it extends, for every set *)
(* of builds and loops, every length of the seeded history, every period, and *)
(* any number of crashes and hot reloads; and about the FesterJournal of the  *)
(* same service, for every cap and any number of events, failed writes and    *)
(* restarts.                                                                  *)
EXTENDS FesterService, FesterJournal, FiniteSetTheorems, SequenceTheorems, TLAPS

-----------------------------------------------------------------------------
(* Types *)

LEMMA SeedTypes ==
    ASSUME NEW ids \in [1..SeedPlans -> Builds], NEW outcome \in [1..SeedPlans -> Verdicts]
    PROVE  SeedWrites(ids, outcome) \in Seq(Write)
<1>1. SeedPlans \in Nat /\ 2 * SeedPlans \in Nat
  BY StoreAssumption
<1>2. ASSUME NEW i \in 1..(2 * SeedPlans)
      PROVE  (i + 1) \div 2 \in 1..SeedPlans
  BY <1>1, <1>2
<1>3. ASSUME NEW b \in Builds, NEW v \in Verdicts
      PROVE  createBuild(b, "queued") \in Write /\ updateBuild(b, v) \in Write
  BY <1>3 DEF createBuild, updateBuild, Write
<1>4. \A i \in 1..(2 * SeedPlans) : SeedWrites(ids, outcome)[i] \in Write
  BY <1>2, <1>3 DEF SeedWrites
<1>5. SeedWrites(ids, outcome) \in [1..(2 * SeedPlans) -> Write]
  BY <1>4 DEF SeedWrites
<1> QED BY <1>1, <1>5

\* What the seed puts into the chain and the set of ids.
LEMMA SeedHistoryTypes ==
    ASSUME TypeOK, seedHistory
    PROVE  chain' \in Seq(Write) /\ issued' \subseteq Builds /\ issued \subseteq issued'
<1>1. CASE UNCHANGED issued /\ chain' = <<>>
  <2>1. <<>> \in Seq(Write)
    OBVIOUS
  <2> QED BY <1>1, <2>1 DEF TypeOK
<1>2. ASSUME NEW ids \in [1..SeedPlans -> Builds \ issued],
             NEW outcome \in [1..SeedPlans -> Verdicts],
             issued' = issued \cup {ids[k] : k \in 1..SeedPlans},
             chain' = SeedWrites(ids, outcome)
      PROVE  chain' \in Seq(Write) /\ issued' \subseteq Builds /\ issued \subseteq issued'
  <2>1. ids \in [1..SeedPlans -> Builds]
    OBVIOUS
  <2> QED BY <1>2, <2>1, SeedTypes DEF TypeOK
<1> QED BY <1>1, <1>2 DEF seedHistory

LEMMA MarkTypes ==
    ASSUME TypeOK, markStaleRunningFailed
    PROVE  /\ rowState' \in [Builds -> {"absent", "queued", "running"} \cup Verdicts]
           /\ rowNote' \in [Builds -> BOOLEAN]
BY DEF TypeOK, markStaleRunningFailed, Stale, Verdicts

LEMMA StoreTypesStep == ASSUME TypeOK, [Next]_vars PROVE TypeOK'
<1> USE DEF TypeOK
<1>1. ASSUME NEW b \in Builds, StartBuild(b) PROVE TypeOK'
  <2>1. createBuild(b, "queued") \in Write /\ updateBuild(b, "running") \in Write
    BY DEF createBuild, updateBuild, Write
  <2>2. StartWrites(b) \in Seq(Write)
    BY <2>1 DEF StartWrites
  <2>3. chain' \in Seq(Write)
    BY <1>1, <2>2 DEF StartBuild
  <2> QED BY <1>1, <2>3 DEF StartBuild, tables
<1>2. ASSUME NEW b \in Builds, FinishRun(b) PROVE TypeOK'
  <2>1. PICK v \in Verdicts : run' = [run EXCEPT ![b] = v]
                              /\ chain' = Append(chain, updateBuild(b, v))
    BY <1>2 DEF FinishRun
  <2>2. updateBuild(b, v) \in Write
    BY DEF updateBuild, Write
  <2>3. chain' \in Seq(Write)
    BY <2>1, <2>2
  <2> QED BY <1>2, <2>1, <2>3 DEF FinishRun, tables
<1>3. CASE RunWrite
  <2>1. chain # <<>> /\ Apply(Head(chain)) /\ chain' = Tail(chain)
    BY <1>3 DEF RunWrite
  <2>2. Head(chain) \in Write /\ chain' \in Seq(Write)
    BY <2>1
  <2> DEFINE w == Head(chain)
  <2>3. w.build \in Builds /\ w.state \in {"absent", "queued", "running"} \cup Verdicts
    BY <2>2 DEF Write
  <2>4. Apply(w)
    BY <2>1
  <2> HIDE DEF w
  <2>5. /\ rowState' \in [Builds -> {"absent", "queued", "running"} \cup Verdicts]
        /\ rowNote' \in [Builds -> BOOLEAN]
    BY <2>3, <2>4 DEF Apply
  <2> QED BY <1>3, <2>2, <2>5 DEF RunWrite
<1>4. CASE Boot
  BY <1>4, SeedHistoryTypes, MarkTypes DEF Boot
<1>5. CASE Crash
  <2>1. <<>> \in Seq(Write)
    OBVIOUS
  <2>2. crashes' \in 0..MaxCrashes
    BY <1>5, StoreAssumption DEF Crash
  <2>3. run' \in [Builds -> {"none", "running"} \cup Verdicts] /\ chain' \in Seq(Write)
    BY <1>5, <2>1 DEF Crash
  <2>4. current' = {} /\ up' = FALSE /\ UNCHANGED <<issued, rowState, rowNote, reloads>>
    BY <1>5 DEF Crash, tables
  <2> HIDE DEF Verdicts, Write
  <2> QED BY <2>2, <2>3, <2>4
<1>6. CASE HotReload
  <2>1. chain' \in Seq(Write) /\ issued' \subseteq Builds
    BY <1>6, SeedHistoryTypes DEF HotReload
  <2>2. reloads' \in 0..MaxReloads
    BY <1>6, StoreAssumption DEF HotReload
  <2> QED BY <1>6, <2>1, <2>2, MarkTypes DEF HotReload
<1>7. CASE UNCHANGED vars
  BY <1>7 DEF vars, tables
<1> QED BY <1>1, <1>2, <1>3, <1>4, <1>5, <1>6, <1>7 DEF Next

\* Every step of the service is a step of the tables, or leaves them alone.
LEMMA ServiceSteps == [ServiceNext]_serviceVars => [Next]_vars
BY DEF ServiceNext, serviceVars, Request, Read, Background, BootLoops, CrashLoops, ReloadLoops,
       TimePasses, Wake, Next

LEMMA StoreTypesInit == Init => TypeOK
<1>1. <<>> \in Seq(Write)
  OBVIOUS
<1> SUFFICES ASSUME Init PROVE TypeOK
  OBVIOUS
<1>2. up \in BOOLEAN /\ issued \subseteq Builds /\ current \subseteq issued
  BY DEF Init
<1>3. run \in [Builds -> {"none", "running"} \cup Verdicts] /\ chain \in Seq(Write)
  BY <1>1 DEF Init
<1>4. /\ rowState \in [Builds -> {"absent", "queued", "running"} \cup Verdicts]
      /\ rowNote \in [Builds -> BOOLEAN]
  BY DEF Init
<1>5. crashes \in 0..MaxCrashes /\ reloads \in 0..MaxReloads
  BY StoreAssumption DEF Init
<1> QED BY <1>2, <1>3, <1>4, <1>5 DEF TypeOK

-----------------------------------------------------------------------------
(* The loop: while no sleep was late, the one loop that runs counts as alive *)

LoopInv ==
    /\ LoopTypes
    /\ running # {} => looping
    /\ ~late => \A i \in running : /\ age = slept[i] /\ slept[i] < StaleAge
                                   /\ \A j \in running : i = j

LEMMA StaleAgeType == StaleAge \in Nat /\ StaleAge > 0
BY ServiceAssumption DEF StaleAge

\* Whatever loops an evaluation of the modules leaves, ensureLoop adds none to
\* one that is alive.
LEMMA EnsureKeeps ==
    ASSUME LoopInv, NEW S \in SUBSET running, NEW r \in BOOLEAN, EnsureLoop(S, r), UNCHANGED late
    PROVE  LoopInv'
<1> USE StaleAgeType, ServiceAssumption DEF LoopInv, LoopTypes
<1>1. /\ slept' = [i \in Loops |-> IF i \in S THEN slept[i] ELSE 0]
      /\ slept' \in [Loops -> 0..MaxSleep]
  BY DEF EnsureLoop
<1>2. CASE Alive
  <2>1. running' = S /\ UNCHANGED <<looping, age>>
    BY <1>2 DEF EnsureLoop
  <2> QED BY <1>1, <2>1
<1>3. CASE ~Alive
  <2>1. looping' = TRUE /\ age' = 0
    BY <1>3 DEF EnsureLoop
  <2>2. running' = S \/ \E i \in Loops \ S : running' = S \cup {i}
    BY <1>3 DEF EnsureLoop
  <2>3. ~late => S = {}
    BY <1>3 DEF Alive
  <2>4. ~late' => \A i \in running' : slept'[i] = 0 /\ \A j \in running' : i = j
    BY <1>1, <2>2, <2>3
  <2> QED BY <1>1, <2>1, <2>2, <2>4
<1> QED BY <1>2, <1>3

\* Without a loop and without a clock there is nothing to hold.
LEMMA NoLoop ==
    ASSUME looping = FALSE, age = 0, running = {}, late = FALSE, slept \in [Loops -> 0..MaxSleep]
    PROVE  LoopInv
<1>1. age \in 0..StaleAge
  BY StaleAgeType
<1>2. running \subseteq Loops /\ looping \in BOOLEAN /\ late \in BOOLEAN
  OBVIOUS
<1>3. LoopTypes
  BY <1>1, <1>2 DEF LoopTypes
<1>4. \A i \in running : FALSE
  OBVIOUS
<1> QED BY <1>3, <1>4 DEF LoopInv

LEMMA LoopInvInit == ServiceInit => LoopInv
<1> SUFFICES ASSUME ServiceInit PROVE LoopInv
  OBVIOUS
<1>1. /\ looping = FALSE /\ age = 0 /\ running = {} /\ late = FALSE
      /\ slept = [i \in Loops |-> 0]
  BY DEF ServiceInit
<1>2. slept \in [Loops -> 0..MaxSleep]
  BY <1>1, ServiceAssumption
<1> QED BY <1>1, <1>2, NoLoop

LEMMA LoopInvStep == ASSUME LoopInv, [ServiceNext]_serviceVars PROVE LoopInv'
<1> USE StaleAgeType, ServiceAssumption DEF LoopInv, LoopTypes
<1>1. CASE Request \/ Read
  <2>1. EnsureLoop(running, TRUE) /\ UNCHANGED late
    BY <1>1 DEF Request, Read
  <2> QED BY <2>1, EnsureKeeps
<1>2. CASE Background
  BY <1>2 DEF Background, loopVars
<1>3. CASE BootLoops
  <2>1. EnsureLoop({}, TRUE) /\ UNCHANGED late
    BY <1>3 DEF BootLoops
  <2> QED BY <2>1, EnsureKeeps
<1>4. CASE CrashLoops
  <2>1. /\ looping' = FALSE /\ age' = 0 /\ running' = {} /\ late' = FALSE
        /\ slept' = [i \in Loops |-> 0]
    BY <1>4 DEF CrashLoops
  <2>2. slept' \in [Loops -> 0..MaxSleep]
    BY <2>1
  <2>3. age' \in 0..StaleAge /\ running' \subseteq Loops
    BY <2>1
  <2>4. looping' \in BOOLEAN /\ late' \in BOOLEAN /\ (\A i \in running' : FALSE)
    BY <2>1
  <2> QED BY <2>2, <2>3, <2>4
<1>5. CASE ReloadLoops
  <2>1. PICK S \in SUBSET running, r \in BOOLEAN : EnsureLoop(S, r)
    BY <1>5 DEF ReloadLoops
  <2>2. UNCHANGED late
    BY <1>5 DEF ReloadLoops
  <2> QED BY <2>1, <2>2, EnsureKeeps
<1>6. CASE TimePasses
  <2>1. /\ \A i \in running : slept[i] < MaxSleep
        /\ age' = IF age < StaleAge THEN age + 1 ELSE age
        /\ slept' = [i \in Loops |-> IF i \in running THEN slept[i] + 1 ELSE slept[i]]
        /\ late' = (late \/ \E i \in running : slept'[i] >= StaleAge)
        /\ UNCHANGED <<looping, running>>
    BY <1>6 DEF TimePasses
  <2>2. slept' \in [Loops -> 0..MaxSleep]
    <3>1. \A i \in running : slept[i] + 1 \in 0..MaxSleep
      BY <2>1
    <3> QED BY <2>1, <3>1
  <2>3. late' \in BOOLEAN /\ age' \in 0..StaleAge
    BY <2>1
  <2>4. ASSUME ~late', NEW i \in running
        PROVE  age' = slept'[i] /\ slept'[i] < StaleAge /\ \A j \in running : i = j
    <3>1. ~late /\ ~(slept'[i] >= StaleAge)
      BY <2>1, <2>4
    <3>2. age = slept[i] /\ slept[i] < StaleAge /\ \A j \in running : i = j
      BY <3>1
    <3>3. slept'[i] \in 0..MaxSleep /\ slept'[i] = slept[i] + 1 /\ age' = age + 1
      BY <2>1, <2>2, <3>2
    <3> QED BY <3>1, <3>2, <3>3
  <2> QED BY <2>1, <2>2, <2>3, <2>4
<1>7. ASSUME NEW i \in Loops, Wake(i) PROVE LoopInv'
  BY <1>7 DEF Wake
<1>8. CASE UNCHANGED serviceVars
  BY <1>8 DEF serviceVars, loopVars
<1> QED BY <1>1, <1>2, <1>3, <1>4, <1>5, <1>6, <1>7, <1>8 DEF ServiceNext

\* The types of the tables and of the loop hold in every reachable state.
THEOREM ServiceTypes == ServiceSpec => [](TypeOK /\ LoopTypes)
<1>1. ServiceInit => TypeOK /\ LoopInv
  BY StoreTypesInit, LoopInvInit DEF ServiceInit
<1>2. TypeOK /\ LoopInv /\ [ServiceNext]_serviceVars => (TypeOK /\ LoopInv)'
  BY ServiceSteps, StoreTypesStep, LoopInvStep
<1>3. TypeOK /\ LoopInv => TypeOK /\ LoopTypes
  BY DEF LoopInv
<1> QED BY <1>1, <1>2, <1>3, PTL DEF ServiceSpec

\* One loop at most, as long as no sleep outlasts what counts as alive.
THEOREM OneLoop == ServiceSpec => []LoopAlone
<1>1. ServiceInit => LoopInv
  BY LoopInvInit
<1>2. LoopInv /\ [ServiceNext]_serviceVars => LoopInv'
  BY LoopInvStep
<1>3. LoopInv => LoopAlone
  BY DEF LoopInv, LoopAlone
<1> QED BY <1>1, <1>2, <1>3, PTL DEF ServiceSpec

-----------------------------------------------------------------------------
(* The tables: what the queued writes will make of the rows *)

\* A process that is down left nothing behind but the tables.
DownClean == ~up => current = {} /\ chain = <<>> /\ \A b \in Builds : run[b] = "none"

\* Rows, runs and writes are of ids handed out.
OnlyIssued ==
    /\ \A b \in Builds : b \notin issued => rowState[b] = "absent" /\ run[b] = "none"
    /\ \A i \in 1..Len(chain) : chain[i].build \in issued

\* A row is created once, before its updates, and nowhere else.
CreateFirst == \A i \in 1..Len(chain) : chain[i].kind = "create" =>
    /\ chain[i].state = "queued"
    /\ rowState[chain[i].build] = "absent"
    /\ \A j \in 1..Len(chain) : chain[j].build = chain[i].build => j >= i

\* A verdict is the last write of its build, and its executor has ended.
VerdictLast == \A i \in 1..Len(chain) : chain[i].state \in Verdicts =>
    /\ run[chain[i].build] # "running"
    /\ \A j \in 1..Len(chain) : chain[j].build = chain[i].build => j <= i

\* Where the engine knows a build, its writes end in what the engine says.
WritesTrack == \A b \in current :
    /\ (\A i \in 1..Len(chain) : chain[i].build # b) => rowState[b] = run[b]
    /\ \A i \in 1..Len(chain) :
          chain[i].build = b /\ (\A j \in 1..Len(chain) : chain[j].build = b => j <= i) =>
            /\ chain[i].kind = "update" /\ chain[i].state = run[b]
            /\ \/ rowState[b] # "absent"
               \/ \E k \in 1..Len(chain) : chain[k].build = b /\ chain[k].kind = "create"

\* A row has a verdict while its executor runs, or while a write of it is
\* queued, only when a hot reload failed it.
FailedByReload ==
    /\ \A b \in Builds : rowState[b] \in Verdicts /\ run[b] = "running" => reloads > 0 /\ rowNote[b]
    /\ \A i \in 1..Len(chain) : rowState[chain[i].build] \in Verdicts =>
          /\ reloads > 0 /\ rowNote[chain[i].build]
          /\ chain[i].state = run[chain[i].build]

StoreInv ==
    /\ TypeOK /\ DownClean /\ OnlyIssued /\ CreateFirst /\ VerdictLast /\ WritesTrack
    /\ FailedByReload

LEMMA ChainItems == ASSUME TypeOK PROVE /\ Len(chain) \in Nat
                                        /\ \A i \in 1..Len(chain) : chain[i] \in Write
BY DEF TypeOK

LEMMA StoreInvInit == Init => StoreInv
<1> SUFFICES ASSUME Init PROVE StoreInv
  OBVIOUS
<1>1. TypeOK
  BY StoreTypesInit
<1>2. chain = <<>> /\ Len(chain) = 0 /\ current = {}
  BY DEF Init
<1>3. \A b \in Builds : run[b] = "none" /\ rowState[b] = "absent"
  BY DEF Init
<1>4. DownClean /\ OnlyIssued
  BY <1>2, <1>3 DEF DownClean, OnlyIssued
<1>5. CreateFirst /\ VerdictLast /\ WritesTrack
  BY <1>2 DEF CreateFirst, VerdictLast, WritesTrack
<1>6. FailedByReload
  BY <1>2, <1>3 DEF FailedByReload
<1> QED BY <1>1, <1>4, <1>5, <1>6 DEF StoreInv

LEMMA StartKeeps == ASSUME StoreInv, NEW b \in Builds, StartBuild(b) PROVE StoreInv'
<1>1. TypeOK' /\ TypeOK
  BY StoreTypesStep DEF StoreInv, Next
<1>2. /\ up /\ chain = <<>> /\ b \notin issued
      /\ issued' = issued \cup {b} /\ current' = current \cup {b}
      /\ run' = [run EXCEPT ![b] = "running"]
      /\ UNCHANGED <<up, rowState, rowNote, reloads>>
  BY DEF StartBuild, Serving, tables
<1>3. /\ Len(chain') = 2 /\ Len(chain) = 0
      /\ chain'[1] = createBuild(b, "queued") /\ chain'[2] = updateBuild(b, "running")
  BY <1>2 DEF StartBuild, StartWrites
<1>4. /\ chain'[1].kind = "create" /\ chain'[1].build = b /\ chain'[1].state = "queued"
      /\ chain'[2].kind = "update" /\ chain'[2].build = b /\ chain'[2].state = "running"
  BY <1>3 DEF createBuild, updateBuild
<1>5. run'[b] = "running" /\ \A c \in Builds \ {b} : run'[c] = run[c]
  BY <1>1, <1>2 DEF TypeOK
<1>6. rowState[b] = "absent" /\ b \notin current
  BY <1>1, <1>2 DEF StoreInv, OnlyIssued, TypeOK
<1>7. \A i \in 1..Len(chain') : i = 1 \/ i = 2
  BY <1>3
<1>8. DownClean' /\ OnlyIssued'
  BY <1>2, <1>4, <1>5, <1>7 DEF DownClean, OnlyIssued, StoreInv
<1>9. CreateFirst' /\ VerdictLast'
  BY <1>2, <1>3, <1>4, <1>6, <1>7 DEF CreateFirst, VerdictLast, Verdicts
<1>10. WritesTrack'
  <2>1. ASSUME NEW c \in current'
        PROVE  WritesTrack!(c)'
    <3>1. CASE c = b
      <4>1. 1 \in 1..Len(chain') /\ 2 \in 1..Len(chain')
        BY <1>3
      <4> QED BY <1>3, <1>4, <1>5, <1>7, <3>1, <4>1
    <3>2. CASE c # b
      <4>1. c \in current /\ c \in Builds
        BY <1>1, <1>2, <2>1, <3>2 DEF TypeOK
      <4>2. rowState[c] = run[c]
        BY <1>3, <4>1 DEF StoreInv, WritesTrack
      <4>3. \A i \in 1..Len(chain') : chain'[i].build # c
        BY <1>4, <1>7, <3>2
      <4> QED BY <1>2, <1>5, <3>2, <4>1, <4>2, <4>3
    <3> QED BY <3>1, <3>2
  <2> QED BY <2>1 DEF WritesTrack
<1>11. FailedByReload'
  BY <1>2, <1>4, <1>5, <1>6, <1>7 DEF FailedByReload, StoreInv, Verdicts
<1> QED BY <1>1, <1>8, <1>9, <1>10, <1>11 DEF StoreInv

LEMMA FinishKeeps == ASSUME StoreInv, NEW b \in Builds, FinishRun(b) PROVE StoreInv'
<1>1. TypeOK' /\ TypeOK
  BY StoreTypesStep DEF StoreInv, Next
<1>2. PICK v \in Verdicts : run' = [run EXCEPT ![b] = v] /\ chain' = Append(chain, updateBuild(b, v))
  BY DEF FinishRun
<1>3. /\ up /\ chain = <<>> /\ run[b] = "running"
      /\ UNCHANGED <<up, issued, current, rowState, rowNote, reloads>>
  BY DEF FinishRun, Serving, tables
<1>4. Len(chain') = 1 /\ Len(chain) = 0 /\ chain'[1] = updateBuild(b, v)
  BY <1>2, <1>3
<1>5. chain'[1].kind = "update" /\ chain'[1].build = b /\ chain'[1].state = v
  BY <1>4 DEF updateBuild
<1>6. run'[b] = v /\ v # "running" /\ v # "none" /\ \A c \in Builds \ {b} : run'[c] = run[c]
  BY <1>1, <1>2 DEF TypeOK, Verdicts
<1>7. \A i \in 1..Len(chain') : i = 1
  BY <1>4
<1>8. b \in issued
  BY <1>3 DEF StoreInv, OnlyIssued
<1>9. DownClean' /\ OnlyIssued'
  BY <1>3, <1>5, <1>6, <1>7, <1>8 DEF DownClean, OnlyIssued, StoreInv
<1>10. CreateFirst' /\ VerdictLast'
  BY <1>4, <1>5, <1>6, <1>7 DEF CreateFirst, VerdictLast
<1>11. \A c \in current : rowState[c] = run[c]
  BY <1>4 DEF StoreInv, WritesTrack
<1>12. WritesTrack'
  <2>1. ASSUME NEW c \in current' PROVE WritesTrack!(c)'
    <3>1. CASE c = b
      <4>1. 1 \in 1..Len(chain') /\ rowState[b] # "absent"
        BY <1>3, <1>4, <1>11, <2>1, <3>1
      <4> QED BY <1>3, <1>5, <1>6, <1>7, <3>1, <4>1
    <3>2. CASE c # b
      <4>1. c \in Builds
        BY <1>1, <2>1 DEF TypeOK
      <4>2. rowState'[c] = run'[c] /\ \A i \in 1..Len(chain') : chain'[i].build # c
        BY <1>3, <1>5, <1>6, <1>7, <1>11, <2>1, <3>2, <4>1
      <4> QED BY <4>2
    <3> QED BY <3>1, <3>2
  <2> QED BY <2>1 DEF WritesTrack
<1>13. FailedByReload'
  BY <1>3, <1>5, <1>6, <1>7 DEF FailedByReload, StoreInv
<1> QED BY <1>1, <1>9, <1>10, <1>12, <1>13 DEF StoreInv

\* Running the first write moves its row alone, and every other write up by one.
LEMMA WriteApplies ==
    ASSUME StoreInv, RunWrite
    PROVE  /\ Len(chain) \in Nat /\ 1 \in 1..Len(chain) /\ Len(chain') = Len(chain) - 1
           /\ \A i \in 1..Len(chain') : i + 1 \in 1..Len(chain) /\ chain'[i] = chain[i + 1]
           /\ \A i \in 1..Len(chain) : i # 1 => i - 1 \in 1..Len(chain') /\ chain'[i - 1] = chain[i]
           /\ \A b \in Builds : b # chain[1].build =>
                 rowState'[b] = rowState[b] /\ rowNote'[b] = rowNote[b]
           /\ chain[1].kind = "create" => rowState'[chain[1].build] = chain[1].state
           /\ chain[1].kind = "update" =>
                 /\ rowState'[chain[1].build] = IF rowState[chain[1].build] = "absent"
                                                THEN "absent" ELSE chain[1].state
                 /\ rowNote'[chain[1].build] = rowNote[chain[1].build]
<1>1. /\ chain \in Seq(Write) /\ chain # <<>> /\ chain' = Tail(chain)
      /\ Head(chain) = chain[1]
  BY DEF StoreInv, TypeOK, RunWrite
<1>2. Len(chain) \in Nat /\ Len(chain) > 0 /\ Len(chain') = Len(chain) - 1
  BY <1>1
<1>3. \A i \in 1..Len(chain') : chain'[i] = chain[i + 1]
  BY <1>1
<1>4. \A i \in 1..Len(chain') : i + 1 \in 1..Len(chain)
  BY <1>2
<1>5. \A i \in 1..Len(chain) : i # 1 => i - 1 \in 1..Len(chain') /\ (i - 1) + 1 = i
  BY <1>2
<1> DEFINE w == chain[1]
<1>6. Apply(w) /\ w \in Write
  BY <1>1, <1>2 DEF RunWrite
<1>7. /\ rowState \in [Builds -> {"absent", "queued", "running"} \cup Verdicts]
      /\ rowNote \in [Builds -> BOOLEAN]
  BY DEF StoreInv, TypeOK
<1>8. w.build \in Builds
  BY <1>6 DEF Write
<1>9. /\ \A b \in Builds : b # w.build => rowState'[b] = rowState[b] /\ rowNote'[b] = rowNote[b]
      /\ w.kind = "create" => rowState'[w.build] = w.state
      /\ w.kind = "update" =>
            /\ rowState'[w.build] = IF rowState[w.build] = "absent" THEN "absent" ELSE w.state
            /\ rowNote'[w.build] = rowNote[w.build]
  <2> HIDE DEF w
  <2> QED BY <1>6, <1>7, <1>8 DEF Apply
<1> QED BY <1>2, <1>3, <1>4, <1>5, <1>9

LEMMA WriteKeeps == ASSUME StoreInv, RunWrite PROVE StoreInv'
<1>1. TypeOK' /\ TypeOK
  BY StoreTypesStep DEF StoreInv, Next
<1>2. up /\ UNCHANGED <<up, issued, run, current, reloads>>
  BY DEF RunWrite
<1>3. /\ \A i \in 1..Len(chain) : chain[i] \in Write
      /\ \A i \in 1..Len(chain) : chain[i].build \in Builds /\ chain[i].kind \in {"create", "update"}
                                  /\ chain[i].state # "absent"
  BY <1>1, ChainItems DEF Write, Verdicts
<1> DEFINE n == Len(chain)
           m == Len(chain')
           w == chain[1]
<1>4. /\ n \in Nat /\ 1 \in 1..n /\ m = n - 1
      /\ \A i \in 1..m : i + 1 \in 1..n /\ chain'[i] = chain[i + 1]
      /\ \A i \in 1..n : i # 1 => i - 1 \in 1..m /\ chain'[i - 1] = chain[i]
      /\ \A b \in Builds : b # w.build => rowState'[b] = rowState[b] /\ rowNote'[b] = rowNote[b]
      /\ w.kind = "create" => rowState'[w.build] = w.state
      /\ w.kind = "update" =>
            /\ rowState'[w.build] = IF rowState[w.build] = "absent" THEN "absent" ELSE w.state
            /\ rowNote'[w.build] = rowNote[w.build]
  BY WriteApplies
<1>5. /\ w.build \in Builds /\ w.build \in issued /\ w.kind \in {"create", "update"}
      /\ w.state # "absent"
  BY <1>3, <1>4 DEF StoreInv, OnlyIssued
<1>6. /\ \A i \in 1..n : chain[i].kind = "create" =>
            /\ chain[i].state = "queued" /\ rowState[chain[i].build] = "absent"
            /\ \A j \in 1..n : chain[j].build = chain[i].build => j >= i
      /\ \A i \in 1..n : chain[i].state \in Verdicts =>
            /\ run[chain[i].build] # "running"
            /\ \A j \in 1..n : chain[j].build = chain[i].build => j <= i
      /\ \A i \in 1..n : rowState[chain[i].build] \in Verdicts =>
            /\ reloads > 0 /\ rowNote[chain[i].build]
            /\ chain[i].state = run[chain[i].build]
  BY DEF StoreInv, CreateFirst, VerdictLast, FailedByReload
<1>7. \A i \in 1..m : chain'[i].build \in Builds
  BY <1>3, <1>4
<1>8. \A i \in 1..m : i \in Int
  OBVIOUS
<1> HIDE DEF n, m, w
\* a row that gets a verdict had its last write
<1>9. ASSUME w.kind = "update", w.state \in Verdicts, NEW i \in 1..m
      PROVE  chain'[i].build # w.build
  BY <1>4, <1>6, <1>8, <1>9 DEF w
<1>10. rowState'[w.build] \in Verdicts => w.kind = "update" /\ w.state \in Verdicts
  BY <1>4, <1>5, <1>6 DEF w, Verdicts
<1>11. DownClean'
  BY <1>2 DEF DownClean
<1>12. OnlyIssued'
  <2>1. \A i \in 1..m : chain'[i].build \in issued
    BY <1>4 DEF StoreInv, OnlyIssued, n
  <2>2. \A b \in Builds : b \notin issued => rowState'[b] = "absent" /\ run[b] = "none"
    BY <1>4, <1>5 DEF StoreInv, OnlyIssued
  <2> QED BY <1>2, <2>1, <2>2 DEF OnlyIssued, m
<1>13. CreateFirst'
  <2>1. ASSUME NEW i \in 1..m, chain'[i].kind = "create"
        PROVE  /\ chain'[i].state = "queued" /\ rowState'[chain'[i].build] = "absent"
               /\ \A j \in 1..m : chain'[j].build = chain'[i].build => j >= i
    <3>1. i + 1 \in 1..n /\ chain'[i] = chain[i + 1] /\ i >= 1
      BY <1>4
    <3>2. chain'[i].build # w.build
      BY <1>4, <1>6, <2>1, <3>1 DEF w
    <3>3. \A j \in 1..m : chain'[j].build = chain'[i].build => j + 1 >= i + 1
      BY <1>4, <1>6, <2>1, <3>1
    <3> QED BY <1>4, <1>6, <1>7, <1>8, <2>1, <3>1, <3>2, <3>3
  <2> QED BY <2>1 DEF CreateFirst, m
<1>14. VerdictLast'
  <2>1. ASSUME NEW i \in 1..m, chain'[i].state \in Verdicts
        PROVE  /\ run[chain'[i].build] # "running"
               /\ \A j \in 1..m : chain'[j].build = chain'[i].build => j <= i
    <3>1. i + 1 \in 1..n /\ chain'[i] = chain[i + 1]
      BY <1>4
    <3>2. \A j \in 1..m : chain'[j].build = chain'[i].build => j + 1 <= i + 1
      BY <1>4, <1>6, <2>1, <3>1
    <3> QED BY <1>6, <1>8, <2>1, <3>1, <3>2
  <2> QED BY <1>2, <2>1 DEF VerdictLast, m
<1>15. WritesTrack'
  <2>1. ASSUME NEW b \in current
        PROVE  /\ (\A i \in 1..m : chain'[i].build # b) => rowState'[b] = run[b]
               /\ \A i \in 1..m :
                     chain'[i].build = b /\ (\A j \in 1..m : chain'[j].build = b => j <= i) =>
                       /\ chain'[i].kind = "update" /\ chain'[i].state = run[b]
                       /\ \/ rowState'[b] # "absent"
                          \/ \E k \in 1..m : chain'[k].build = b /\ chain'[k].kind = "create"
    <3>1. /\ (\A i \in 1..n : chain[i].build # b) => rowState[b] = run[b]
          /\ \A i \in 1..n :
                chain[i].build = b /\ (\A j \in 1..n : chain[j].build = b => j <= i) =>
                  /\ chain[i].kind = "update" /\ chain[i].state = run[b]
                  /\ \/ rowState[b] # "absent"
                     \/ \E k \in 1..n : chain[k].build = b /\ chain[k].kind = "create"
          /\ b \in Builds
      BY <1>1, <2>1 DEF StoreInv, WritesTrack, TypeOK, n
    <3>2. CASE \A i \in 1..m : chain'[i].build # b
      <4>1. \A i \in 1..n : chain[i].build = b => i = 1
        BY <1>4, <3>2
      <4>2. CASE w.build = b
        <5>1. w.kind = "update" /\ w.state = run[b]
          BY <1>4, <3>1, <4>1, <4>2 DEF w
        <5>2. rowState[b] # "absent"
          BY <1>4, <3>1, <4>1, <4>2, <5>1 DEF w
        <5> QED BY <1>4, <3>2, <4>2, <5>1, <5>2
      <4>3. CASE w.build # b
        <5>1. \A i \in 1..n : chain[i].build # b
          BY <4>1, <4>3 DEF w
        <5> QED BY <1>4, <3>1, <3>2, <4>3, <5>1
      <4> QED BY <4>2, <4>3
    <3>3. ASSUME NEW i \in 1..m, chain'[i].build = b, \A j \in 1..m : chain'[j].build = b => j <= i
          PROVE  /\ chain'[i].kind = "update" /\ chain'[i].state = run[b]
                 /\ \/ rowState'[b] # "absent"
                    \/ \E k \in 1..m : chain'[k].build = b /\ chain'[k].kind = "create"
      <4>1. i + 1 \in 1..n /\ chain'[i] = chain[i + 1] /\ i \in Int /\ i >= 1
        BY <1>4
      <4>2. \A j \in 1..n : chain[j].build = b => j <= i + 1
        <5>1. TAKE j \in 1..n
        <5>2. CASE j = 1
          BY <4>1, <5>2
        <5>3. CASE j # 1
          <6>1. j - 1 \in 1..m /\ chain'[j - 1] = chain[j] /\ j \in Int
            BY <1>4, <5>3
          <6>2. chain[j].build = b => j - 1 <= i
            BY <3>3, <6>1
          <6> QED BY <4>1, <6>1, <6>2
        <5> QED BY <5>2, <5>3
      <4>3. /\ chain'[i].kind = "update" /\ chain'[i].state = run[b]
            /\ \/ rowState[b] # "absent"
               \/ \E k \in 1..n : chain[k].build = b /\ chain[k].kind = "create"
        BY <3>1, <3>3, <4>1, <4>2
      <4>4. CASE rowState[b] # "absent"
        <5>1. rowState'[b] # "absent"
          <6>1. CASE w.build = b
            BY <1>4, <1>5, <4>4, <6>1
          <6>2. CASE w.build # b
            BY <1>4, <3>1, <4>4, <6>2
          <6> QED BY <6>1, <6>2
        <5> QED BY <4>3, <5>1
      <4>5. ASSUME NEW k \in 1..n, chain[k].build = b, chain[k].kind = "create"
            PROVE  \/ rowState'[b] # "absent"
                   \/ \E l \in 1..m : chain'[l].build = b /\ chain'[l].kind = "create"
        <5>1. CASE k = 1
          BY <1>4, <1>5, <4>5, <5>1 DEF w
        <5>2. CASE k # 1
          <6>1. k - 1 \in 1..m /\ chain'[k - 1] = chain[k]
            BY <1>4, <5>2
          <6> QED BY <4>5, <6>1
        <5> QED BY <5>1, <5>2
      <4> QED BY <4>3, <4>4, <4>5
    <3> QED BY <3>2, <3>3
  <2>2. run' = run /\ current' = current
    BY <1>2
  <2>3. ASSUME NEW b \in current' PROVE WritesTrack!(b)'
    <3>1. b \in current /\ run'[b] = run[b]
      BY <2>2, <2>3
    <3>2. (\A i \in 1..m : chain'[i].build # b) => rowState'[b] = run'[b]
      BY <2>1, <3>1
    <3>3. ASSUME NEW i \in 1..m, chain'[i].build = b,
                 \A j \in 1..m : chain'[j].build = b => j <= i
          PROVE  /\ chain'[i].kind = "update" /\ chain'[i].state = run'[b]
                 /\ \/ rowState'[b] # "absent"
                    \/ \E k \in 1..m : chain'[k].build = b /\ chain'[k].kind = "create"
      BY <2>1, <3>1, <3>3
    <3> QED BY <3>2, <3>3 DEF m
  <2> QED BY <2>3 DEF WritesTrack
<1>16. FailedByReload'
  <2>1. ASSUME NEW b \in Builds, rowState'[b] \in Verdicts, run[b] = "running"
        PROVE  reloads > 0 /\ rowNote'[b]
    <3>1. b # w.build
      BY <1>4, <1>6, <1>10, <2>1 DEF w
    <3> QED BY <1>4, <2>1, <3>1 DEF StoreInv, FailedByReload
  <2>2. ASSUME NEW i \in 1..m, rowState'[chain'[i].build] \in Verdicts
        PROVE  /\ reloads > 0 /\ rowNote'[chain'[i].build]
               /\ chain'[i].state = run[chain'[i].build]
    <3>1. chain'[i].build # w.build
      BY <1>9, <1>10, <2>2
    <3>2. i + 1 \in 1..n /\ chain'[i] = chain[i + 1] /\ chain'[i].build \in Builds
      BY <1>4, <1>7
    <3>3. rowState[chain[i + 1].build] \in Verdicts /\ rowNote'[chain'[i].build] = rowNote[chain[i + 1].build]
      BY <1>4, <2>2, <3>1, <3>2
    <3> QED BY <1>6, <3>2, <3>3
  <2> QED BY <1>2, <2>1, <2>2 DEF FailedByReload, m
<1> QED BY <1>1, <1>11, <1>12, <1>13, <1>14, <1>15, <1>16 DEF StoreInv

-----------------------------------------------------------------------------
(* Boot, hot reload and crash *)

\* The entry of the seed a write belongs to: each has two.
Half(i) == (i + 1) \div 2

\* What the seed queues: a creation and a verdict of each id, in this order.
LEMMA SeedShape ==
    ASSUME NEW ids \in [1..SeedPlans -> Builds], NEW outcome \in [1..SeedPlans -> Verdicts],
           NEW i \in 1..(2 * SeedPlans)
    PROVE  /\ Half(i) \in 1..SeedPlans
           /\ SeedWrites(ids, outcome)[i].build = ids[Half(i)]
           /\ \/ /\ i = 2 * Half(i) - 1
                 /\ SeedWrites(ids, outcome)[i].kind = "create"
                 /\ SeedWrites(ids, outcome)[i].state = "queued"
              \/ /\ i = 2 * Half(i)
                 /\ SeedWrites(ids, outcome)[i].kind = "update"
                 /\ SeedWrites(ids, outcome)[i].state = outcome[Half(i)]
<1>1. SeedPlans \in Nat
  BY StoreAssumption
<1>2. /\ Half(i) \in 1..SeedPlans
      /\ i % 2 = 1 => i = 2 * Half(i) - 1
      /\ i % 2 # 1 => i = 2 * Half(i)
  BY <1>1 DEF Half
<1>3. SeedWrites(ids, outcome)[i] =
        IF i % 2 = 1 THEN createBuild(ids[Half(i)], "queued")
        ELSE updateBuild(ids[Half(i)], outcome[Half(i)])
  BY DEF SeedWrites, Half
<1>4. CASE i % 2 = 1
  BY <1>2, <1>3, <1>4 DEF createBuild
<1>5. CASE i % 2 # 1
  BY <1>2, <1>3, <1>5 DEF updateBuild
<1> QED BY <1>4, <1>5

\* A boot, or the evaluation of the modules by a reload, of a service that
\* serves nothing and has no write queued.
LEMMA SeedKeeps ==
    ASSUME StoreInv, TypeOK', chain = <<>>, up' = TRUE, current' = {}, run' = run,
           markStaleRunningFailed, seedHistory,
           reloads' >= reloads,
           reloads' > 0 \/ \A b \in Builds : run[b] = "none"
    PROVE  StoreInv'
<1>1. TypeOK /\ Len(chain) = 0
  BY DEF StoreInv
<1>2. /\ rowState' = [b \in Builds |-> IF b \in Stale THEN "failed" ELSE rowState[b]]
      /\ rowNote' = [b \in Builds |-> b \in Stale \/ rowNote[b]]
  BY DEF markStaleRunningFailed
<1>3. \A b \in Builds : /\ rowState[b] = "absent" <=> rowState'[b] = "absent"
                        /\ rowState'[b] \in Verdicts => rowState[b] \in Verdicts \/ rowNote'[b]
                        /\ rowNote[b] => rowNote'[b]
  BY <1>2 DEF Stale, Verdicts
<1>4. DownClean' /\ WritesTrack'
  BY DEF DownClean, WritesTrack
<1>5. ASSUME NEW b \in Builds, rowState'[b] \in Verdicts, run'[b] = "running"
      PROVE  reloads' > 0 /\ rowNote'[b]
  BY <1>1, <1>3, <1>5 DEF StoreInv, FailedByReload, TypeOK
<1>6. issued \subseteq issued'
  BY <1>1, SeedHistoryTypes
<1>7. \A b \in Builds : b \notin issued' => rowState'[b] = "absent" /\ run'[b] = "none"
  BY <1>3, <1>6 DEF StoreInv, OnlyIssued
<1>8. CASE chain' = <<>>
  <2>1. Len(chain') = 0
    BY <1>8
  <2> QED BY <1>4, <1>5, <1>7, <2>1
          DEF StoreInv, OnlyIssued, CreateFirst, VerdictLast, FailedByReload
<1>9. ASSUME \A b \in Builds : rowState[b] = "absent",
             NEW ids \in [1..SeedPlans -> Builds \ issued],
             NEW outcome \in [1..SeedPlans -> Verdicts],
             IsInjective(ids),
             issued' = issued \cup {ids[k] : k \in 1..SeedPlans},
             chain' = SeedWrites(ids, outcome)
      PROVE  StoreInv'
  <2>1. /\ ids \in [1..SeedPlans -> Builds] /\ SeedPlans \in Nat
        /\ \A k \in 1..SeedPlans : ids[k] \in Builds \ issued
        /\ \A k, l \in 1..SeedPlans : ids[k] = ids[l] => k = l
    BY <1>9, StoreAssumption DEF IsInjective
  <2>2. Len(chain') = 2 * SeedPlans
    BY <1>9, <2>1 DEF SeedWrites
  <2>3. \A i \in 1..Len(chain') :
          /\ Half(i) \in 1..SeedPlans /\ i \in Int
          /\ chain'[i].build = ids[Half(i)]
          /\ \/ i = 2 * Half(i) - 1 /\ chain'[i].kind = "create" /\ chain'[i].state = "queued"
             \/ i = 2 * Half(i) /\ chain'[i].kind = "update" /\ chain'[i].state = outcome[Half(i)]
    <3>1. TAKE i \in 1..Len(chain')
    <3>2. i \in 1..(2 * SeedPlans) /\ i \in Int
      BY <2>1, <2>2
    <3>3. chain' = SeedWrites(ids, outcome)
      BY <1>9
    <3>4. /\ Half(i) \in 1..SeedPlans
          /\ SeedWrites(ids, outcome)[i].build = ids[Half(i)]
          /\ \/ /\ i = 2 * Half(i) - 1
                /\ SeedWrites(ids, outcome)[i].kind = "create"
                /\ SeedWrites(ids, outcome)[i].state = "queued"
             \/ /\ i = 2 * Half(i)
                /\ SeedWrites(ids, outcome)[i].kind = "update"
                /\ SeedWrites(ids, outcome)[i].state = outcome[Half(i)]
      BY ONLY <2>1, <3>2, SeedShape, outcome \in [1..SeedPlans -> Verdicts]
    <3> QED BY ONLY <3>2, <3>3, <3>4
  <2>4. \A i \in 1..Len(chain') : /\ chain'[i].build \in Builds \ issued
                                  /\ chain'[i].build \in issued'
                                  /\ rowState'[chain'[i].build] = "absent"
                                  /\ run'[chain'[i].build] = "none"
    BY <1>3, <1>9, <2>1, <2>3 DEF StoreInv, OnlyIssued
  <2>5. \A i, j \in 1..Len(chain') : chain'[i].build = chain'[j].build => Half(i) = Half(j)
    BY <2>1, <2>3
  <2>6. OnlyIssued'
    BY <1>7, <2>4 DEF OnlyIssued
  <2>7. CreateFirst'
    <3>1. ASSUME NEW i \in 1..Len(chain'), chain'[i].kind = "create",
                 NEW j \in 1..Len(chain'), chain'[j].build = chain'[i].build
          PROVE  j >= i
      <4>1. i = 2 * Half(i) - 1 /\ Half(i) = Half(j) /\ Half(i) \in Int
        BY <2>3, <2>5, <3>1
      <4>2. j = 2 * Half(j) - 1 \/ j = 2 * Half(j)
        BY <2>3
      <4> QED BY <4>1, <4>2
    <3>2. \A i \in 1..Len(chain') : chain'[i].kind = "create" => chain'[i].state = "queued"
      BY <2>3
    <3> QED BY <2>4, <3>1, <3>2 DEF CreateFirst
  <2>8. VerdictLast'
    <3>1. ASSUME NEW i \in 1..Len(chain'), chain'[i].state \in Verdicts,
                 NEW j \in 1..Len(chain'), chain'[j].build = chain'[i].build
          PROVE  j <= i
      <4>1. i = 2 * Half(i) /\ Half(i) = Half(j) /\ Half(i) \in Int
        BY <2>3, <2>5, <3>1 DEF Verdicts
      <4>2. j = 2 * Half(j) - 1 \/ j = 2 * Half(j)
        BY <2>3
      <4> QED BY <4>1, <4>2
    <3> QED BY <2>4, <3>1 DEF VerdictLast
  <2>9. FailedByReload'
    BY <1>5, <2>4 DEF FailedByReload, Verdicts
  <2> QED BY <1>4, <2>6, <2>7, <2>8, <2>9 DEF StoreInv
<1> QED BY <1>8, <1>9 DEF seedHistory

LEMMA CrashKeeps == ASSUME StoreInv, Crash PROVE StoreInv'
<1>1. TypeOK' /\ TypeOK
  BY StoreTypesStep DEF StoreInv, Next
<1>2. /\ up' = FALSE /\ current' = {} /\ chain' = <<>> /\ Len(chain') = 0
      /\ \A b \in Builds : run'[b] = "none"
      /\ UNCHANGED <<issued, rowState, rowNote, reloads>>
  BY DEF Crash, tables
<1>3. DownClean' /\ WritesTrack' /\ CreateFirst' /\ VerdictLast'
  BY <1>2 DEF DownClean, WritesTrack, CreateFirst, VerdictLast
<1>4. OnlyIssued' /\ FailedByReload'
  BY <1>2 DEF OnlyIssued, FailedByReload, StoreInv
<1> QED BY <1>1, <1>3, <1>4 DEF StoreInv

LEMMA StoreInvStep == ASSUME StoreInv, [Next]_vars PROVE StoreInv'
<1>1. ASSUME NEW b \in Builds, StartBuild(b) PROVE StoreInv'
  BY <1>1, StartKeeps
<1>2. ASSUME NEW b \in Builds, FinishRun(b) PROVE StoreInv'
  BY <1>2, FinishKeeps
<1>3. CASE RunWrite
  BY <1>3, WriteKeeps
<1>4. CASE Boot
  <2>1. /\ up' = TRUE /\ chain = <<>> /\ current' = {} /\ run' = run /\ reloads' = reloads
        /\ \A b \in Builds : run[b] = "none"
        /\ markStaleRunningFailed /\ seedHistory
    BY <1>4 DEF Boot, StoreInv, DownClean
  <2>2. reloads \in Nat
    BY StoreAssumption DEF StoreInv, TypeOK
  <2>3. TypeOK'
    BY <1>4, StoreTypesStep DEF StoreInv, Next
  <2>4. reloads' >= reloads
    BY <2>1, <2>2
  <2> QED BY <2>1, <2>3, <2>4, SeedKeeps
<1>5. CASE Crash
  BY <1>5, CrashKeeps
<1>6. CASE HotReload
  <2>1. /\ up' = TRUE /\ chain = <<>> /\ current' = {} /\ run' = run /\ reloads' = reloads + 1
        /\ markStaleRunningFailed /\ seedHistory
    BY <1>6 DEF HotReload, Serving, StoreInv, TypeOK
  <2>2. reloads \in Nat
    BY StoreAssumption DEF StoreInv, TypeOK
  <2>3. TypeOK'
    BY <1>6, StoreTypesStep DEF StoreInv, Next
  <2>4. reloads' >= reloads /\ reloads' > 0
    BY <2>1, <2>2
  <2> QED BY <2>1, <2>3, <2>4, SeedKeeps
<1>7. CASE UNCHANGED vars
  <2>1. UNCHANGED <<up, issued, run, current, rowState, rowNote, chain, crashes, reloads>>
    BY <1>7 DEF vars
  <2> QED BY <2>1 DEF StoreInv, TypeOK, DownClean, OnlyIssued, CreateFirst, VerdictLast,
                      WritesTrack, FailedByReload
<1> QED BY <1>1, <1>2, <1>3, <1>4, <1>5, <1>6, <1>7 DEF Next

LEMMA StoreInvariant == ServiceSpec => []StoreInv
<1>1. ServiceInit => StoreInv
  BY StoreInvInit DEF ServiceInit
<1>2. StoreInv /\ [ServiceNext]_serviceVars => StoreInv'
  BY ServiceSteps, StoreInvStep
<1> QED BY <1>1, <1>2, PTL DEF ServiceSpec

\* While the service serves requests, each build its engine knows has a row
\* that says what the engine says.
THEOREM RowsTrackRuns == ServiceSpec => []RowTracksRun
<1>1. StoreInv => RowTracksRun
  <2> SUFFICES ASSUME StoreInv, chain = <<>>, NEW b \in current PROVE rowState[b] = run[b]
    BY DEF RowTracksRun, Serving
  <2>1. \A i \in 1..Len(chain) : chain[i].build # b
    OBVIOUS
  <2> QED BY <2>1 DEF StoreInv, WritesTrack
<1> QED BY <1>1, StoreInvariant, PTL

\* What a step may do to a row with a verdict.
Keeps(b) == rowState[b] \in Verdicts /\ rowState'[b] # rowState[b]
                => reloads > 0 /\ rowNote[b] /\ rowState'[b] = run[b]

LEMMA VerdictStep == ASSUME StoreInv, [Next]_vars, NEW b \in Builds PROVE Keeps(b)
<1>1. TypeOK
  BY DEF StoreInv
<1>2. CASE UNCHANGED rowState
  BY <1>2 DEF Keeps
<1>3. CASE RunWrite
  <2>1. /\ 1 \in 1..Len(chain) /\ chain[1].kind \in {"create", "update"}
        /\ b # chain[1].build => rowState'[b] = rowState[b]
        /\ chain[1].kind = "update" => rowState'[chain[1].build] =
              IF rowState[chain[1].build] = "absent" THEN "absent" ELSE chain[1].state
    BY <1>1, <1>3, WriteApplies, ChainItems DEF Write
  <2>2. ASSUME rowState[b] \in Verdicts, chain[1].build = b
        PROVE  reloads > 0 /\ rowNote[b] /\ rowState'[b] = run[b]
    <3>1. reloads > 0 /\ rowNote[b] /\ chain[1].state = run[b]
      BY <2>1, <2>2 DEF StoreInv, FailedByReload
    <3>2. chain[1].kind = "update" /\ rowState[b] # "absent"
      BY <2>1, <2>2 DEF StoreInv, CreateFirst, Verdicts
    <3> QED BY <2>1, <2>2, <3>1, <3>2
  <2> QED BY <2>1, <2>2 DEF Keeps
<1>4. CASE markStaleRunningFailed
  BY <1>4 DEF markStaleRunningFailed, Stale, Verdicts, Keeps
<1> QED BY <1>2, <1>3, <1>4
        DEF Next, vars, tables, StartBuild, FinishRun, Boot, Crash, HotReload

\* A row keeps its verdict, unless a hot reload wrote it over a run that goes on.
THEOREM VerdictsKept == ServiceSpec => VerdictKept
<1>1. StoreInv /\ [ServiceNext]_serviceVars => [\A b \in Builds : Keeps(b)]_vars
  BY ServiceSteps, VerdictStep
<1>2. [][\A b \in Builds : Keeps(b)]_vars => VerdictKept
  <2>1. (\A b \in Builds : Keeps(b)) => \A b \in Builds :
            rowState[b] \in Verdicts /\ rowState'[b] # rowState[b]
              => reloads > 0 /\ rowNote[b] /\ rowState'[b] = run[b]
    BY DEF Keeps
  <2> QED BY <2>1, PTL DEF VerdictKept
<1> QED BY <1>1, <1>2, StoreInvariant, PTL DEF ServiceSpec

-----------------------------------------------------------------------------
(* The journal: types *)

\* The builds of this process are finitely many: they are started one by one.
JournalTyped == JournalTypes /\ IsFiniteSet(live)

\* A sequence of operations without its first one.
LEMMA OpsTail ==
    ASSUME NEW s \in Seq(Op), s # <<>>
    PROVE  /\ Len(s) \in Nat \ {0} /\ s[1] \in Op /\ Head(s) = s[1]
           /\ Tail(s) \in Seq(Op) /\ Len(Tail(s)) = Len(s) - 1
           /\ \A i \in 1..(Len(s) - 1) : Tail(s)[i] = s[i + 1]
<1>1. Len(s) \in Nat \ {0}
  BY EmptySeq
<1>2. Tail(s) \in Seq(Op) /\ Len(Tail(s)) = Len(s) - 1
  BY HeadTailProperties
<1>3. \A i \in 1..(Len(s) - 1) : Tail(s)[i] = s[i + 1]
  BY HeadTailProperties, <1>2
<1>4. 1 \in 1..Len(s)
  BY <1>1
<1>5. s[1] \in Op
  BY <1>4, ElementOfSeq
<1> QED BY <1>1, <1>2, <1>3, <1>5

\* What a write takes off the chain is its head, and the rest keeps its order.
LEMMA WriteTakesHead ==
    ASSUME JournalTypes, WriteRuns
    PROVE  /\ writeChain # <<>> /\ settledWrite = <<>>
           /\ ApplyOp(writeChain[1])
           /\ settledWrite' = <<writeChain[1]>>
           /\ writeChain' = Tail(writeChain)
           /\ UNCHANGED <<emitted, live, journalCounts, capNoted, lost, failures, restarts>>
<1>1. writeChain \in Seq(Op)
  BY DEF JournalTypes
<1>2. 1 \in 1..Len(writeChain)
  BY <1>1, LenProperties DEF WriteRuns, NextWrite
<1>3. writeChain # <<>>
  BY <1>2, EmptySeq
<1>4. writeChain' = SubSeq(writeChain, 1, 0) \o SubSeq(writeChain, 2, Len(writeChain))
  BY DEF WriteRuns, NextWrite
<1>5. SubSeq(writeChain, 1, 0) = <<>>
  BY SubSeqEmpty
<1>6. Tail(writeChain) = SubSeq(writeChain, 2, Len(writeChain)) /\ Tail(writeChain) \in Seq(Op)
  BY <1>1, <1>3, TailIsSubSeq, OpsTail
<1>7. writeChain' = Tail(writeChain)
  BY <1>4, <1>5, <1>6, ConcatEmptySeq
<1> QED BY <1>3, <1>7 DEF WriteRuns, NextWrite

\* The operation a settled write leaves for journal() to resume with.
LEMMA SettledOp ==
    ASSUME JournalTypes, settledWrite # <<>>
    PROVE  settledWrite[1] \in Op /\ Head(settledWrite) = settledWrite[1] /\ Len(settledWrite) = 1
<1>1. settledWrite \in Seq(Op) /\ Len(settledWrite) <= 1
  BY DEF JournalTypes
<1>2. /\ Len(settledWrite) \in Nat \ {0} /\ settledWrite[1] \in Op
      /\ Head(settledWrite) = settledWrite[1]
  BY <1>1, OpsTail
<1>3. Len(settledWrite) = 1
  <2> DEFINE n == Len(settledWrite)
  <2>1. n \in Nat \ {0} /\ n <= 1
    BY <1>1, <1>2
  <2> HIDE DEF n
  <2>2. n = 1
    BY <2>1
  <2> QED BY <2>2 DEF n
<1> QED BY <1>2, <1>3

\* An operation put at the end of the chain.
LEMMA OpsAppend ==
    ASSUME NEW s \in Seq(Op), NEW op \in Op
    PROVE  /\ Append(s, op) \in Seq(Op) /\ Len(Append(s, op)) = Len(s) + 1
           /\ Len(s) \in Nat
           /\ \A i \in 1..Len(s) : Append(s, op)[i] = s[i]
           /\ Append(s, op)[Len(s) + 1] = op
BY AppendProperties, LenProperties

\* The rows a restart appends for the builds that died with the process.
LEMMA BootNotes ==
    ASSUME NEW stale \in SUBSET Journaled, IsFiniteSet(stale)
    PROVE  /\ SetToSeq({BootNote(b) : b \in stale}) \in Seq(Op)
           /\ \A i \in 1..Len(SetToSeq({BootNote(b) : b \in stale})) :
                SetToSeq({BootNote(b) : b \in stale})[i] \in {BootNote(b) : b \in stale}
<1> DEFINE S == {BootNote(b) : b \in stale}
<1>1. IsFiniteSet(S)
  <2> DEFINE f == [b \in stale |-> BootNote(b)]
  <2>1. f \in [stale -> S] /\ \A t \in S : \E b \in stale : f[b] = t
    OBVIOUS
  <2>2. f \in Surjection(stale, S)
    BY <2>1 DEF Surjection
  <2> HIDE DEF f
  <2> QED BY <2>2, FS_Surjection
<1>2. PICK f : f \in Bijection(1..Cardinality(S), S)
  BY <1>1, FS_CardinalityType DEF ExistsBijection
<1>3. f \in [1..Cardinality(S) -> S] /\ IsInjective(f)
  BY <1>2 DEF Bijection, Injection, IsInjective
<1>4. SetToSeq(S) \in [1..Cardinality(S) -> S]
  BY <1>3 DEF SetToSeq
<1> HIDE DEF S
<1>5. Cardinality(S) \in Nat
  BY <1>1, FS_CardinalityType
<1>6. S \subseteq Op
  BY JournalAssumption DEF BootNote, Op, S
<1>7. SetToSeq(S) \in Seq(S)
  BY <1>4, <1>5
<1>8. \A i \in 1..Len(SetToSeq(S)) : SetToSeq(S)[i] \in S
  BY <1>7, ElementOfSeq
<1>9. SetToSeq(S) \in Seq(Op)
  BY <1>6, <1>7
<1> QED BY <1>8, <1>9 DEF S

\* The append journal() queues for the next event of b.
EventOp(b) == [kind |-> "event", build |-> b, event |-> emitted[b] + 1, n |-> CountOf(b)]

\* journal() queues the append of an event of b, with the count it read.
LEMMA JournalQueues ==
    ASSUME JournalTypes, NEW b \in Journaled, Journal(b)
    PROVE  /\ emitted[b] \in Nat /\ emitted[b] + 1 \in Events
           /\ emitted' = [emitted EXCEPT ![b] = emitted[b] + 1]
           /\ CountOf(b) \in Nat /\ EventOp(b) \in Op
           /\ writeChain' = Append(writeChain, EventOp(b))
<1> DEFINE e == emitted[b] + 1
<1>1. e \in Events /\ e \in 0..MaxEvents /\ emitted[b] \in Nat
  BY JournalAssumption DEF JournalTypes, Journal, Events
<1>2. rows[b] \in Seq(Events \cup {Notice}) /\ journalCounts[b] \in Nat \cup {Unknown}
  BY DEF JournalTypes
<1>3. CountOf(b) \in Nat
  BY <1>2, LenProperties DEF CountOf
<1>4. EventOp(b) \in Op
  BY <1>1, <1>3 DEF Op, EventOp
<1> QED BY <1>1, <1>3, <1>4 DEF Journal, Enqueue, EventOp

\* What journal() queues when it resumes is never an event.
LEMMA ContinueQueues ==
    ASSUME JournalTypes, Continue
    PROVE  LET op == settledWrite[1] IN
           /\ op \in Op
           /\ \/ writeChain' = writeChain
              \/ \E q \in Op : /\ writeChain' = Append(writeChain, q)
                               /\ q.build = op.build
                               /\ \/ /\ op.kind = "event" /\ op.n + 1 > JOURNAL_CAP
                                     /\ q.kind = "trim" /\ q.n = op.n + 1 - JOURNAL_CAP
                                  \/ op.kind = "trim" /\ q.kind = "note"
<1> DEFINE op == settledWrite[1]
<1>1. op \in Op /\ Head(settledWrite) = op
  BY SettledOp DEF Continue
<1>2. AfterEvent(op) \/ AfterTrim(op) \/ AfterNote(op)
  BY <1>1 DEF Continue
<1> DEFINE Queued ==
      \/ writeChain' = writeChain
      \/ \E q \in Op : /\ writeChain' = Append(writeChain, q)
                       /\ q.build = op.build
                       /\ \/ /\ op.kind = "event" /\ op.n + 1 > JOURNAL_CAP
                             /\ q.kind = "trim" /\ q.n = op.n + 1 - JOURNAL_CAP
                          \/ op.kind = "trim" /\ q.kind = "note"
<1>3. ASSUME op \in Op, AfterEvent(op) PROVE Queued
  <2> HIDE DEF op
  <2>1. CASE op.n + 1 > JOURNAL_CAP
    <3> DEFINE q == [op EXCEPT !.kind = "trim", !.n = op.n + 1 - JOURNAL_CAP]
    <3>1. writeChain' = Append(writeChain, q) /\ op.kind = "event"
      BY <1>3, <2>1 DEF AfterEvent, Enqueue
    <3>2. op.n \in Nat
      BY <1>3 DEF Op
    <3>3. PICK k \in Nat : k = op.n + 1 - JOURNAL_CAP
      BY <2>1, <3>2, JournalAssumption
    <3>4. q = [op EXCEPT !.kind = "trim", !.n = k]
      BY <3>3
    <3>5. q \in Op /\ q.build = op.build /\ q.kind = "trim" /\ q.n = k
      BY <1>3, <3>4 DEF Op
    <3> HIDE DEF q
    <3> QED BY <2>1, <3>1, <3>3, <3>5
  <2> QED BY <1>3, <2>1 DEF AfterEvent
<1>4. ASSUME op \in Op, AfterTrim(op) PROVE Queued
  <2> HIDE DEF op
  <2>1. CASE op.build \in capNoted
    BY <1>4, <2>1 DEF AfterTrim
  <2>2. CASE op.build \notin capNoted
    <3> DEFINE q == [op EXCEPT !.kind = "note", !.n = 0]
    <3>1. writeChain' = Append(writeChain, q) /\ op.kind = "trim"
      BY <1>4, <2>2 DEF AfterTrim, Enqueue
    <3>2. q \in Op /\ q.build = op.build /\ q.kind = "note"
      BY <1>4 DEF Op
    <3> HIDE DEF q
    <3> QED BY <3>1, <3>2
  <2> QED BY <2>1, <2>2
<1>5. ASSUME AfterNote(op) PROVE Queued
  BY <1>5 DEF AfterNote
<1> QED BY <1>1, <1>2, <1>3, <1>4, <1>5

\* What a write makes of the rows.
LEMMA RowsAfter ==
    ASSUME JournalTypes, WriteRuns
    PROVE  LET op == writeChain[1]
               r == rows[op.build]
           IN  /\ op \in Op
               /\ \/ op.kind = "event" /\ rows' = [rows EXCEPT ![op.build] = Append(r, op.event)]
                  \/ op.kind \in {"note", "boot"} /\ rows' = [rows EXCEPT ![op.build] = Append(r, Notice)]
                  \/ op.kind = "trim" /\ rows' = [rows EXCEPT ![op.build] = Dropped(r, op.n)]
BY WriteTakesHead, OpsTail DEF JournalTypes, ApplyOp, ApplyTrim

\* Dropping the oldest rows keeps the others in their places relative to the last.
LEMMA DroppedRows ==
    ASSUME NEW S, NEW s \in Seq(S), NEW n \in Nat
    PROVE  /\ Dropped(s, n) \in Seq(S)
           /\ Len(Dropped(s, n)) = IF n <= Len(s) THEN Len(s) - n ELSE 0
           /\ \A i \in 1..Len(Dropped(s, n)) : i + n \in 1..Len(s) /\ Dropped(s, n)[i] = s[i + n]
<1>1. Len(s) \in Nat
  BY LenProperties
<1>2. \A i \in (n + 1)..Len(s) : s[i] \in S
  <2>1. ASSUME NEW i \in (n + 1)..Len(s) PROVE s[i] \in S
    <3>1. i \in 1..Len(s)
      BY <1>1, <2>1
    <3> QED BY <3>1, ElementOfSeq
  <2> QED BY <2>1
<1>3. /\ SubSeq(s, n + 1, Len(s)) \in Seq(S)
      /\ Len(SubSeq(s, n + 1, Len(s))) = IF n + 1 <= Len(s) THEN Len(s) - (n + 1) + 1 ELSE 0
      /\ \A i \in 1..(Len(s) - (n + 1) + 1) : SubSeq(s, n + 1, Len(s))[i] = s[n + 1 + i - 1]
  BY <1>1, <1>2, SubSeqProperties
<1> DEFINE d == SubSeq(s, n + 1, Len(s))
<1>4. Len(d) = IF n <= Len(s) THEN Len(s) - n ELSE 0
  BY <1>1, <1>3
<1>5. ASSUME NEW i \in 1..Len(d) PROVE i + n \in 1..Len(s) /\ d[i] = s[i + n]
  <2>1. i \in 1..(Len(s) - (n + 1) + 1) /\ n + 1 + i - 1 = i + n
    BY <1>1, <1>4, <1>5
  <2>2. i + n \in 1..Len(s)
    BY <1>1, <2>1
  <2> QED BY <1>3, <2>1, <2>2
<1> QED BY <1>3, <1>4, <1>5 DEF Dropped

\* The start of the journal has the types.
LEMMA JournalTypesInit == JournalInit => JournalTyped
<1> SUFFICES ASSUME JournalInit PROVE JournalTyped
  OBVIOUS
<1>1. <<>> \in Seq(Op) /\ <<>> \in Seq(Events \cup {Notice}) /\ Len(<<>>) = 0
  BY EmptySeq
<1>2. JournalTypes
  BY <1>1, JournalAssumption DEF JournalInit, JournalTypes
<1>3. IsFiniteSet(live)
  BY FS_EmptySet DEF JournalInit
<1> QED BY <1>2, <1>3 DEF JournalTyped

\* Every step keeps the types.
LEMMA JournalTypesStep ==
    ASSUME JournalTyped, [JournalNext]_journalVars
    PROVE  JournalTyped'
<1>1. JournalTypes /\ IsFiniteSet(live)
  BY DEF JournalTyped
<1> USE JournalAssumption
<1>2. ASSUME NEW b \in Journaled, Emit(b) \/ FirstEvent(b) \/ CreateSession(b)
      PROVE  JournalTyped'
  <2>1. Journal(b) /\ UNCHANGED <<settledWrite, rows, capNoted, lost, failures, restarts>>
        /\ (live' = live \/ live' = live \cup {b})
    BY <1>2 DEF Emit, FirstEvent, CreateSession
  <2>2. emitted[b] + 1 \in 0..MaxEvents /\ CountOf(b) \in Nat
    <3>1. emitted[b] + 1 \in Events /\ CountOf(b) \in Nat
      BY <1>1, <2>1, JournalQueues
    <3> QED BY <3>1 DEF Events
  <2>3. writeChain' \in Seq(Op)
    BY <1>1, <2>1, JournalQueues, OpsAppend DEF JournalTypes
  <2>4. emitted' \in [Journaled -> 0..MaxEvents]
    BY <1>1, <2>1, <2>2 DEF Journal, JournalTypes
  <2>5. journalCounts' \in [Journaled -> Nat \cup {Unknown}]
    BY <1>1, <2>1, <2>2 DEF Journal, JournalTypes
  <2>6. live' \subseteq Journaled /\ IsFiniteSet(live')
    <3>1. live \subseteq Journaled /\ live \cup {b} \subseteq Journaled
      BY <1>1 DEF JournalTypes
    <3>2. IsFiniteSet(live \cup {b})
      BY <1>1, FS_AddElement
    <3> QED BY <1>1, <2>1, <3>1, <3>2
  <2>7. /\ settledWrite' \in Seq(Op) /\ Len(settledWrite') <= 1
        /\ rows' \in [Journaled -> Seq(Events \cup {Notice})]
        /\ capNoted' \subseteq Journaled /\ lost' \subseteq Journaled \X (0..MaxEvents)
        /\ failures' \in 0..MaxFailures /\ restarts' \in 0..MaxRestarts
    BY <1>1, <2>1 DEF JournalTypes
  <2>8. JournalTypes'
    BY <2>3, <2>4, <2>5, <2>6, <2>7 DEF JournalTypes
  <2> QED BY <2>6, <2>8 DEF JournalTyped
<1>3. ASSUME WriteRuns PROVE JournalTyped'
  <2> DEFINE op == writeChain[1]
  <2>1. /\ op \in Op /\ settledWrite' = <<op>> /\ writeChain' = Tail(writeChain)
        /\ UNCHANGED <<emitted, live, journalCounts, capNoted, lost, failures, restarts>>
    BY <1>1, <1>3, WriteTakesHead, RowsAfter
  <2>2. writeChain' \in Seq(Op)
    BY <1>1, <1>3, <2>1, WriteTakesHead, OpsTail DEF JournalTypes
  <2>3. settledWrite' \in Seq(Op) /\ Len(settledWrite') <= 1
    <3> HIDE DEF op
    <3> QED BY <2>1
  <2>4. op.build \in Journaled /\ op.event \in 0..MaxEvents /\ op.n \in Nat
    BY <2>1 DEF Op
  <2> DEFINE V == Events \cup {Notice}
             r == rows[op.build]
  <2>5. r \in Seq(V) /\ op.event \in V /\ Notice \in V
    BY <1>1, <2>4 DEF JournalTypes, Events, Notice
  <2>6. rows' \in [Journaled -> Seq(V)]
    <3>1. Append(r, op.event) \in Seq(V) /\ Append(r, Notice) \in Seq(V)
      <4> HIDE DEF V, r, op
      <4> QED BY <2>5, AppendProperties
    <3>2. Dropped(r, op.n) \in Seq(V)
      <4> HIDE DEF V, r
      <4> QED BY <2>4, <2>5, DroppedRows
    <3>3. \E t \in Seq(V) : rows' = [rows EXCEPT ![op.build] = t]
      BY <1>1, <1>3, <3>1, <3>2, RowsAfter
    <3>4. rows \in [Journaled -> Seq(V)]
      BY <1>1 DEF JournalTypes
    <3> HIDE DEF V
    <3> QED BY <3>3, <3>4
  <2> QED BY <1>1, <2>1, <2>2, <2>3, <2>6 DEF JournalTyped, JournalTypes
<1>4. ASSUME WriteThrows PROVE JournalTyped'
  <2>1. writeChain \in Seq(Op) /\ writeChain # <<>> /\ writeChain' = Tail(writeChain)
    BY <1>1, <1>4 DEF WriteThrows, JournalTypes
  <2>2. writeChain' \in Seq(Op) /\ writeChain[1] \in Op /\ Head(writeChain) = writeChain[1]
    BY <2>1, OpsTail
  <2>3. lost' \subseteq Journaled \X (0..MaxEvents)
    BY <1>1, <1>4, <2>2 DEF WriteThrows, JournalTypes, Op, Events
  <2>4. failures' \in 0..MaxFailures
    BY <1>1, <1>4 DEF WriteThrows, JournalTypes
  <2> QED BY <1>1, <1>4, <2>2, <2>3, <2>4 DEF WriteThrows, JournalTyped, JournalTypes
<1>5. ASSUME Continue PROVE JournalTyped'
  <2>1. settledWrite' = <<>> /\ UNCHANGED <<emitted, live, rows, lost, failures, restarts>>
    BY <1>5 DEF Continue
  <2>2. writeChain' \in Seq(Op)
    <3>1. writeChain' = writeChain \/ \E q \in Op : writeChain' = Append(writeChain, q)
      BY <1>1, <1>5, ContinueQueues
    <3> QED BY <1>1, <3>1, OpsAppend DEF JournalTypes
  <2>3. PICK op \in Op : AfterEvent(op) \/ AfterTrim(op) \/ AfterNote(op)
    BY <1>1, <1>5, SettledOp DEF Continue
  <2>4. /\ journalCounts' \in [Journaled -> Nat \cup {Unknown}]
        /\ capNoted' \subseteq Journaled
    <3>1. op.build \in Journaled /\ op.n \in Nat /\ op.n + 1 \in Nat
      BY DEF Op
    <3> QED BY <1>1, <2>3, <3>1 DEF AfterEvent, AfterTrim, AfterNote, JournalTypes
  <2>5. settledWrite' \in Seq(Op) /\ Len(settledWrite') <= 1
    BY <2>1
  <2> QED BY <1>1, <2>1, <2>2, <2>4, <2>5 DEF JournalTyped, JournalTypes
<1>6. ASSUME Restart PROVE JournalTyped'
  <2>1. PICK stale \in SUBSET live : writeChain' = SetToSeq({BootNote(b) : b \in stale})
    BY <1>6 DEF Restart
  <2>2. stale \in SUBSET Journaled /\ IsFiniteSet(stale)
    BY <1>1, FS_Subset DEF JournalTypes
  <2>3. writeChain' \in Seq(Op)
    BY <2>1, <2>2, BootNotes
  <2>4. PendingEvents \subseteq Journaled \X (0..MaxEvents)
    <3>1. ASSUME NEW i \in 1..Len(writeChain)
          PROVE  writeChain[i].build \in Journaled /\ writeChain[i].event \in 0..MaxEvents
      <4>1. writeChain[i] \in Op
        BY <1>1, ElementOfSeq DEF JournalTypes
      <4> QED BY <4>1 DEF Op
    <3> QED BY <3>1 DEF PendingEvents
  <2>5. /\ live' = {} /\ settledWrite' = <<>> /\ capNoted' = {}
        /\ restarts' = restarts + 1 /\ restarts' <= MaxRestarts
        /\ journalCounts' = [b \in Journaled |-> Unknown]
        /\ lost' = lost \cup PendingEvents
        /\ UNCHANGED <<emitted, rows, failures>>
    BY <1>1, <1>6 DEF Restart, JournalTypes
  <2>6. restarts' \in 0..MaxRestarts /\ lost' \subseteq Journaled \X (0..MaxEvents)
    BY <1>1, <2>4, <2>5 DEF JournalTypes
  <2>7. settledWrite' \in Seq(Op) /\ Len(settledWrite') <= 1
    BY <2>5
  <2>8. JournalTypes'
    BY <1>1, <2>3, <2>5, <2>6, <2>7 DEF JournalTypes
  <2>9. IsFiniteSet(live')
    BY <2>5, FS_EmptySet
  <2> QED BY <2>8, <2>9 DEF JournalTyped
<1>7. ASSUME UNCHANGED journalVars PROVE JournalTyped'
  BY <1>1, <1>7 DEF journalVars, JournalTyped, JournalTypes
<1> QED BY <1>2, <1>3, <1>4, <1>5, <1>6, <1>7 DEF JournalNext

-----------------------------------------------------------------------------
(* The journal: replay in the order of emission                            *)
(*                                                                         *)
(* A trim takes rows off one end while appends are still queued for the    *)
(* other, so ReplayInOrder says nothing about the rows the next write puts *)
(* behind the last one.  The inductive invariant reads the rows of a build *)
(* and its queued appends as one increasing sequence without gaps up to    *)
(* the last event emitted.                                                 *)

\* The places of the chain that append an event.
QueuedEvents == {k \in 1..Len(writeChain) : writeChain[k].kind = "event"}

\* The rows of a build keep the order of emission.
RowsOrdered == \A b \in Journaled : \A i \in EventRows(b) :
    /\ rows[b][i] \in 1..emitted[b]
    /\ \A j \in EventRows(b) : i < j => rows[b][i] < rows[b][j]

\* So do the appends of a build in the chain,
QueueOrdered == \A k \in QueuedEvents :
    /\ writeChain[k].event \in 1..emitted[writeChain[k].build]
    /\ \A l \in QueuedEvents :
        k < l /\ writeChain[l].build = writeChain[k].build
            => writeChain[k].event < writeChain[l].event

\* and they come after every row the build has.
RowsFirst == \A b \in Journaled : \A i \in EventRows(b) : \A k \in QueuedEvents :
    writeChain[k].build = b => rows[b][i] < writeChain[k].event

\* After a queued append nothing is missing but failed writes,
QueueWhole == \A k \in QueuedEvents :
    \A e \in writeChain[k].event..emitted[writeChain[k].build] :
        <<writeChain[k].build, e>> \in PendingEvents \cup lost

\* and after a row nothing but queued appends and failed writes.
RowsWhole == \A b \in Journaled : \A i \in EventRows(b) :
    \A e \in rows[b][i]..emitted[b] :
        \/ \E j \in EventRows(b) : rows[b][j] = e
        \/ <<b, e>> \in PendingEvents \cup lost

JournalOrder ==
    JournalTyped /\ RowsOrdered /\ QueueOrdered /\ RowsFirst /\ QueueWhole /\ RowsWhole

LEMMA JournalOrderReplays == JournalOrder => ReplayInOrder
BY DEF JournalOrder, RowsOrdered, RowsWhole, ReplayInOrder

LEMMA JournalOrderInit == JournalInit => JournalOrder
<1> SUFFICES ASSUME JournalInit PROVE JournalOrder
  OBVIOUS
<1>1. Len(<<>>) = 0
  OBVIOUS
<1>2. QueuedEvents = {} /\ \A b \in Journaled : EventRows(b) = {}
  BY <1>1 DEF JournalInit, QueuedEvents, EventRows
<1>3. JournalTyped
  BY JournalTypesInit
<1> QED BY <1>2, <1>3 DEF JournalOrder, RowsOrdered, QueueOrdered, RowsFirst, QueueWhole, RowsWhole

\* The types of what the order is about.
LEMMA OrderTypes ==
    ASSUME JournalTypes
    PROVE  /\ writeChain \in Seq(Op) /\ Len(writeChain) \in Nat
           /\ \A k \in QueuedEvents : /\ k \in 1..Len(writeChain) /\ writeChain[k].kind = "event"
                                      /\ writeChain[k].build \in Journaled
                                      /\ writeChain[k].event \in Nat
           /\ \A b \in Journaled : /\ emitted[b] \in Nat
                                   /\ rows[b] \in Seq(Events \cup {Notice}) /\ Len(rows[b]) \in Nat
                                   /\ \A i \in 1..Len(rows[b]) : rows[b][i] \in Nat
                                   /\ \A i \in EventRows(b) : i \in 1..Len(rows[b])
<1>1. writeChain \in Seq(Op) /\ Len(writeChain) \in Nat
  BY LenProperties DEF JournalTypes
<1>2. ASSUME NEW k \in QueuedEvents
      PROVE  /\ k \in 1..Len(writeChain) /\ writeChain[k].kind = "event"
             /\ writeChain[k].build \in Journaled /\ writeChain[k].event \in Nat
  <2>1. k \in 1..Len(writeChain) /\ writeChain[k].kind = "event"
    BY <1>2 DEF QueuedEvents
  <2>2. writeChain[k] \in Op
    BY <1>1, <2>1, ElementOfSeq
  <2> QED BY <2>1, <2>2, JournalAssumption DEF Op
<1>3. ASSUME NEW b \in Journaled
      PROVE  /\ emitted[b] \in Nat
             /\ rows[b] \in Seq(Events \cup {Notice}) /\ Len(rows[b]) \in Nat
             /\ \A i \in 1..Len(rows[b]) : rows[b][i] \in Nat
             /\ \A i \in EventRows(b) : i \in 1..Len(rows[b])
  <2>1. emitted[b] \in Nat /\ rows[b] \in Seq(Events \cup {Notice})
    BY <1>3, JournalAssumption DEF JournalTypes
  <2>2. Len(rows[b]) \in Nat
    BY <2>1, LenProperties
  <2>3. \A i \in 1..Len(rows[b]) : rows[b][i] \in Events \cup {Notice}
    BY <2>1, ElementOfSeq
  <2>4. Events \cup {Notice} \subseteq Nat
    BY JournalAssumption DEF Events, Notice
  <2> QED BY <2>1, <2>2, <2>3, <2>4 DEF EventRows
<1> QED BY <1>1, <1>2, <1>3

\* What an append to the chain does to the queued events.
LEMMA QueueAppends ==
    ASSUME JournalTypes, NEW op \in Op, writeChain' = Append(writeChain, op)
    PROVE  LET z == Len(writeChain) + 1 IN
           /\ writeChain'[z] = op
           /\ \A k \in QueuedEvents : k < z /\ k \in QueuedEvents' /\ writeChain'[k] = writeChain[k]
           /\ \A k \in QueuedEvents' : k \in QueuedEvents \/ (k = z /\ op.kind = "event")
           /\ PendingEvents \subseteq PendingEvents'
           /\ op.kind = "event" => <<op.build, op.event>> \in PendingEvents'
<1> DEFINE z == Len(writeChain) + 1
<1>1. /\ Len(writeChain) \in Nat /\ Len(writeChain') = z /\ writeChain'[z] = op
      /\ \A i \in 1..Len(writeChain) : writeChain'[i] = writeChain[i]
  BY OpsAppend DEF JournalTypes
<1>2. ASSUME NEW k \in QueuedEvents
      PROVE  k < z /\ k \in QueuedEvents' /\ writeChain'[k] = writeChain[k]
  BY <1>1, <1>2 DEF QueuedEvents
<1>3. ASSUME NEW k \in QueuedEvents' PROVE k \in QueuedEvents \/ (k = z /\ op.kind = "event")
  <2>1. k \in 1..Len(writeChain') /\ writeChain'[k].kind = "event"
    BY <1>3 DEF QueuedEvents
  <2>2. CASE k \in 1..Len(writeChain)
    <3>1. writeChain[k].kind = "event"
      BY <1>1, <2>1, <2>2
    <3> QED BY <2>2, <3>1 DEF QueuedEvents
  <2>3. CASE k = z
    BY <1>1, <2>1, <2>3
  <2>4. k \in 1..Len(writeChain) \/ k = z
    BY <1>1, <2>1
  <2> QED BY <2>2, <2>3, <2>4
<1>4. PendingEvents = {<<writeChain[k].build, writeChain[k].event>> : k \in QueuedEvents}
  BY DEF PendingEvents, QueuedEvents
<1>5. \A k \in QueuedEvents' : <<writeChain'[k].build, writeChain'[k].event>> \in PendingEvents'
  BY DEF PendingEvents, QueuedEvents
<1>6. PendingEvents \subseteq PendingEvents'
  BY <1>2, <1>4, <1>5
<1>7. op.kind = "event" => z \in QueuedEvents'
  BY <1>1 DEF QueuedEvents
<1>8. op.kind = "event" => <<op.build, op.event>> \in PendingEvents'
  BY <1>1, <1>5, <1>7
<1> QED BY <1>1, <1>2, <1>3, <1>6, <1>8

\* What taking the head off the chain does to them.
LEMMA QueueShifts ==
    ASSUME JournalTypes, writeChain # <<>>, writeChain' = Tail(writeChain)
    PROVE  LET op == writeChain[1] IN
           /\ \A k \in QueuedEvents' : /\ k \in Nat \ {0} /\ k + 1 \in QueuedEvents
                                       /\ writeChain'[k] = writeChain[k + 1]
           /\ op.kind = "event" => 1 \in QueuedEvents
           /\ \A p \in PendingEvents : \/ p \in PendingEvents'
                                       \/ op.kind = "event" /\ p = <<op.build, op.event>>
<1> DEFINE op == writeChain[1]
<1>1. /\ Len(writeChain) \in Nat \ {0} /\ Len(writeChain') = Len(writeChain) - 1
      /\ \A i \in 1..(Len(writeChain) - 1) : writeChain'[i] = writeChain[i + 1]
  BY OpsTail DEF JournalTypes
<1>2. ASSUME NEW k \in QueuedEvents'
      PROVE  k \in Nat \ {0} /\ k + 1 \in QueuedEvents /\ writeChain'[k] = writeChain[k + 1]
  BY <1>1, <1>2 DEF QueuedEvents
<1>3. op.kind = "event" => 1 \in QueuedEvents
  BY <1>1 DEF QueuedEvents
<1>4. PendingEvents = {<<writeChain[k].build, writeChain[k].event>> : k \in QueuedEvents}
  BY DEF PendingEvents, QueuedEvents
<1>5. \A k \in QueuedEvents' : <<writeChain'[k].build, writeChain'[k].event>> \in PendingEvents'
  BY DEF PendingEvents, QueuedEvents
<1>6. ASSUME NEW p \in PendingEvents
      PROVE  p \in PendingEvents' \/ (op.kind = "event" /\ p = <<op.build, op.event>>)
  <2>1. PICK k \in QueuedEvents : p = <<writeChain[k].build, writeChain[k].event>>
    BY <1>4, <1>6
  <2>2. CASE k = 1
    BY <2>1, <2>2 DEF QueuedEvents
  <2>3. CASE k # 1
    <3>1. PICK m \in 1..(Len(writeChain) - 1) : m + 1 = k
      BY <1>1, <2>3 DEF QueuedEvents
    <3>2. writeChain'[m] = writeChain[k]
      BY <1>1, <3>1
    <3>3. m \in QueuedEvents'
      BY <1>1, <3>1, <3>2 DEF QueuedEvents
    <3> QED BY <1>5, <2>1, <3>2, <3>3
  <2> QED BY <2>2, <2>3
<1> QED BY <1>2, <1>3, <1>6

\* Whatever leaves the chain at its head, the queued appends stay in order.
LEMMA ShiftKeepsQueue ==
    ASSUME JournalTypes, QueueOrdered, writeChain # <<>>, writeChain' = Tail(writeChain),
           UNCHANGED emitted
    PROVE  QueueOrdered'
<1> SUFFICES ASSUME NEW k \in QueuedEvents'
             PROVE  /\ writeChain'[k].event \in 1..emitted[writeChain'[k].build]
                    /\ \A l \in QueuedEvents' :
                        k < l /\ writeChain'[l].build = writeChain'[k].build
                            => writeChain'[k].event < writeChain'[l].event
  BY DEF QueueOrdered
<1>1. k \in Nat /\ k + 1 \in QueuedEvents /\ writeChain'[k] = writeChain[k + 1]
  BY QueueShifts
<1>2. ASSUME NEW l \in QueuedEvents', k < l, writeChain'[l].build = writeChain'[k].build
      PROVE  writeChain'[k].event < writeChain'[l].event
  <2>1. l \in Nat /\ l + 1 \in QueuedEvents /\ writeChain'[l] = writeChain[l + 1]
    BY QueueShifts
  <2>2. k + 1 < l + 1
    BY <1>1, <1>2, <2>1
  <2> QED BY <1>1, <1>2, <2>1, <2>2 DEF QueueOrdered
<1> QED BY <1>1, <1>2 DEF QueueOrdered

\* An event is emitted: its append is the last of the sequence.
LEMMA OrderEmits ==
    ASSUME JournalOrder, NEW b \in Journaled, Journal(b), UNCHANGED <<rows, lost>>, JournalTyped'
    PROVE  JournalOrder'
<1> DEFINE z == Len(writeChain) + 1
           e0 == emitted[b] + 1
<1>1. JournalTypes /\ JournalTypes'
  BY DEF JournalOrder, JournalTyped
<1>2. /\ emitted[b] \in Nat /\ e0 \in Nat
      /\ emitted' = [emitted EXCEPT ![b] = e0]
      /\ EventOp(b) \in Op /\ writeChain' = Append(writeChain, EventOp(b))
  BY <1>1, JournalQueues
<1>3. EventOp(b).kind = "event" /\ EventOp(b).build = b /\ EventOp(b).event = e0
  BY DEF EventOp
<1>4. /\ writeChain'[z] = EventOp(b)
      /\ \A k \in QueuedEvents : k < z /\ k \in QueuedEvents' /\ writeChain'[k] = writeChain[k]
      /\ \A k \in QueuedEvents' : k \in QueuedEvents \/ k = z
      /\ PendingEvents \subseteq PendingEvents' /\ <<b, e0>> \in PendingEvents'
  BY <1>1, <1>2, <1>3, QueueAppends
<1>5. \A c \in Journaled :
        /\ emitted[c] \in Nat /\ emitted'[c] \in Nat /\ emitted[c] <= emitted'[c]
        /\ \A e \in Nat : e <= emitted'[c] => e <= emitted[c] \/ (c = b /\ e = e0)
  <2>1. ASSUME NEW c \in Journaled
        PROVE  /\ emitted[c] \in Nat /\ emitted'[c] \in Nat /\ emitted[c] <= emitted'[c]
               /\ \A e \in Nat : e <= emitted'[c] => e <= emitted[c] \/ (c = b /\ e = e0)
    <3>1. emitted[c] \in Nat /\ emitted \in [Journaled -> 0..MaxEvents]
      BY <1>1, OrderTypes DEF JournalTypes
    <3>2. emitted'[c] = IF c = b THEN e0 ELSE emitted[c]
      BY <1>2, <3>1
    <3> QED BY <1>2, <3>1, <3>2
  <2> QED BY <2>1
<1>6. emitted'[b] = e0
  BY <1>1, <1>2 DEF JournalTypes
<1>7. \A c : EventRows(c)' = EventRows(c)
  BY DEF JournalOrder, EventRows
<1> HIDE DEF z, e0
<1>8. RowsOrdered'
  <2> SUFFICES ASSUME NEW c \in Journaled, NEW i \in EventRows(c)
               PROVE  /\ rows[c][i] \in 1..emitted'[c]
                      /\ \A j \in EventRows(c) : i < j => rows[c][i] < rows[c][j]
    BY <1>7 DEF RowsOrdered, JournalOrder
  <2>1. rows[c][i] \in 1..emitted[c] /\ \A j \in EventRows(c) : i < j => rows[c][i] < rows[c][j]
    BY DEF JournalOrder, RowsOrdered
  <2> QED BY <1>5, <2>1
<1>9. QueueOrdered'
  <2> SUFFICES ASSUME NEW k \in QueuedEvents'
               PROVE  /\ writeChain'[k].event \in 1..emitted'[writeChain'[k].build]
                      /\ \A l \in QueuedEvents' :
                          k < l /\ writeChain'[l].build = writeChain'[k].build
                              => writeChain'[k].event < writeChain'[l].event
    BY DEF QueueOrdered
  <2>1. CASE k \in QueuedEvents
    <3>1. /\ writeChain'[k] = writeChain[k] /\ writeChain[k].build \in Journaled
          /\ writeChain[k].event \in 1..emitted[writeChain[k].build]
      BY <1>1, <1>4, <2>1, OrderTypes DEF JournalOrder, QueueOrdered
    <3>2. writeChain'[k].event \in 1..emitted'[writeChain'[k].build]
      BY <1>5, <3>1
    <3>3. ASSUME NEW l \in QueuedEvents', k < l, writeChain'[l].build = writeChain'[k].build
          PROVE  writeChain'[k].event < writeChain'[l].event
      <4>1. CASE l \in QueuedEvents
        <5>1. writeChain'[l] = writeChain[l]
          BY <1>4, <4>1
        <5> QED BY <2>1, <3>1, <3>3, <4>1, <5>1 DEF JournalOrder, QueueOrdered
      <4>2. CASE l = z
        <5>1. writeChain[k].build = b /\ writeChain'[l].event = e0
          BY <1>3, <1>4, <3>1, <3>3, <4>2
        <5> QED BY <1>2, <3>1, <5>1 DEF e0
      <4> QED BY <1>4, <4>1, <4>2
    <3> QED BY <3>2, <3>3
  <2>2. CASE k = z
    <3>1. \A l \in QueuedEvents' : ~(k < l)
      <4>1. ASSUME NEW l \in QueuedEvents', k < l PROVE FALSE
        <5>1. l \in Nat /\ (l < z \/ l = z) /\ z \in Nat
          BY <1>1, <1>4, OrderTypes DEF z
        <5> QED BY <2>2, <4>1, <5>1
      <4> QED BY <4>1
    <3>2. writeChain'[k].build = b /\ writeChain'[k].event = e0
      BY <1>3, <1>4, <2>2
    <3>3. e0 \in 1..emitted'[b]
      BY <1>2, <1>6 DEF e0
    <3> QED BY <3>1, <3>2, <3>3
  <2> QED BY <1>4, <2>1, <2>2
<1>10. RowsFirst'
  <2> SUFFICES ASSUME NEW c \in Journaled, NEW i \in EventRows(c), NEW k \in QueuedEvents',
                      writeChain'[k].build = c
               PROVE  rows[c][i] < writeChain'[k].event
    BY <1>7 DEF RowsFirst, JournalOrder
  <2>1. CASE k \in QueuedEvents
    BY <1>4, <2>1 DEF JournalOrder, RowsFirst
  <2>2. CASE k = z
    <3>1. c = b /\ writeChain'[k].event = e0 /\ i \in EventRows(b)
      BY <1>3, <1>4, <2>2
    <3>2. rows[b][i] \in 1..emitted[b]
      BY <3>1 DEF JournalOrder, RowsOrdered
    <3> QED BY <1>2, <3>1, <3>2 DEF e0
  <2> QED BY <1>4, <2>1, <2>2
<1>11. QueueWhole'
  <2> SUFFICES ASSUME NEW k \in QueuedEvents',
                      NEW e \in writeChain'[k].event..emitted'[writeChain'[k].build]
               PROVE  <<writeChain'[k].build, e>> \in PendingEvents' \cup lost'
    BY DEF QueueWhole
  <2>1. CASE k \in QueuedEvents
    <3>1. /\ writeChain'[k] = writeChain[k] /\ writeChain[k].build \in Journaled
          /\ writeChain[k].event \in Nat
      BY <1>1, <1>4, <2>1, OrderTypes
    <3>2. e \in Nat /\ (e <= emitted[writeChain[k].build] \/ (writeChain[k].build = b /\ e = e0))
      BY <1>5, <3>1
    <3>3. CASE e <= emitted[writeChain[k].build]
      <4>1. e \in writeChain[k].event..emitted[writeChain[k].build]
        BY <1>5, <3>1, <3>2, <3>3
      <4>2. <<writeChain[k].build, e>> \in PendingEvents \cup lost
        BY <2>1, <4>1 DEF JournalOrder, QueueWhole
      <4> QED BY <1>4, <3>1, <4>2
    <3>4. CASE writeChain[k].build = b /\ e = e0
      BY <1>4, <3>1, <3>4
    <3> QED BY <3>2, <3>3, <3>4
  <2>2. CASE k = z
    <3>1. writeChain'[k].build = b /\ writeChain'[k].event = e0
      BY <1>3, <1>4, <2>2
    <3>2. e = e0
      BY <1>2, <1>6, <3>1
    <3> QED BY <1>4, <3>1, <3>2
  <2> QED BY <1>4, <2>1, <2>2
<1>12. RowsWhole'
  <2> SUFFICES ASSUME NEW c \in Journaled, NEW i \in EventRows(c), NEW e \in rows[c][i]..emitted'[c]
               PROVE  \/ \E j \in EventRows(c) : rows[c][j] = e
                      \/ <<c, e>> \in PendingEvents' \cup lost'
    BY <1>7 DEF RowsWhole, JournalOrder
  <2>1. rows[c][i] \in Nat
    BY <1>1, OrderTypes
  <2>2. e \in Nat /\ (e <= emitted[c] \/ (c = b /\ e = e0))
    BY <1>5, <2>1
  <2>3. CASE e <= emitted[c]
    <3>1. e \in rows[c][i]..emitted[c]
      BY <1>5, <2>1, <2>2, <2>3
    <3>2. (\E j \in EventRows(c) : rows[c][j] = e) \/ <<c, e>> \in PendingEvents \cup lost
      BY <3>1 DEF JournalOrder, RowsWhole
    <3> QED BY <1>4, <3>2
  <2>4. CASE c = b /\ e = e0
    BY <1>4, <2>4
  <2> QED BY <2>2, <2>3, <2>4
<1> QED BY <1>8, <1>9, <1>10, <1>11, <1>12 DEF JournalOrder

\* Nor does a gap open behind one of them.
LEMMA ShiftKeepsWhole ==
    ASSUME JournalTypes, QueueOrdered, QueueWhole, writeChain # <<>>,
           writeChain' = Tail(writeChain), UNCHANGED emitted, lost \subseteq lost'
    PROVE  QueueWhole'
<1> SUFFICES ASSUME NEW k \in QueuedEvents',
                    NEW e \in writeChain'[k].event..emitted[writeChain'[k].build]
             PROVE  <<writeChain'[k].build, e>> \in PendingEvents' \cup lost'
  BY DEF QueueWhole
<1>1. k \in Nat \ {0} /\ k + 1 \in QueuedEvents /\ writeChain'[k] = writeChain[k + 1]
  BY QueueShifts
<1> DEFINE b == writeChain[k + 1].build
           op == writeChain[1]
<1>2. e \in writeChain[k + 1].event..emitted[b] /\ writeChain[k + 1].event \in Nat
  BY <1>1, OrderTypes
<1>3. <<b, e>> \in PendingEvents \cup lost
  BY <1>1, <1>2 DEF QueueWhole
<1>4. ASSUME <<b, e>> \in PendingEvents, <<b, e>> \notin PendingEvents' PROVE FALSE
  <2>1. op.kind = "event" /\ <<b, e>> = <<op.build, op.event>> /\ 1 \in QueuedEvents
    BY <1>4, QueueShifts
  <2>2. b = op.build /\ e = op.event /\ 1 < k + 1
    BY <1>1, <2>1
  <2>3. op.event < writeChain[k + 1].event
    BY <1>1, <2>1, <2>2 DEF QueueOrdered
  <2>4. op.event \in Nat
    BY <2>1, OrderTypes
  <2> QED BY <1>2, <2>2, <2>3, <2>4
<1> QED BY <1>1, <1>3, <1>4

\* A row more.
LEMMA RowAppended ==
    ASSUME JournalTypes, NEW b \in Journaled, NEW v \in Events \cup {Notice},
           rows' = [rows EXCEPT ![b] = Append(rows[b], v)]
    PROVE  LET z == Len(rows[b]) + 1 IN
           /\ \A c \in Journaled : \A i \in EventRows(c) :
                i \in EventRows(c)' /\ rows'[c][i] = rows[c][i]
           /\ \A c \in Journaled : \A i \in EventRows(c)' :
                i \in EventRows(c) \/ (c = b /\ i = z /\ v # Notice)
           /\ \A i \in EventRows(b) : i < z
           /\ rows'[b][z] = v
           /\ v # Notice => z \in EventRows(b)'
<1> DEFINE z == Len(rows[b]) + 1
<1>1. /\ Len(rows[b]) \in Nat /\ rows'[b] = Append(rows[b], v)
      /\ \A c \in Journaled \ {b} : rows'[c] = rows[c]
  BY OrderTypes DEF JournalTypes
<1>2. /\ Len(rows'[b]) = z /\ rows'[b][z] = v
      /\ \A i \in 1..Len(rows[b]) : rows'[b][i] = rows[b][i]
  <2>1. rows[b] \in Seq(Events \cup {Notice})
    BY OrderTypes
  <2> QED BY <1>1, <2>1, AppendProperties
<1>3. ASSUME NEW c \in Journaled, NEW i \in EventRows(c)
      PROVE  i \in EventRows(c)' /\ rows'[c][i] = rows[c][i]
  <2>1. i \in 1..Len(rows[c]) /\ rows[c][i] # Notice
    BY <1>3 DEF EventRows
  <2>2. i \in 1..Len(rows'[c]) /\ rows'[c][i] = rows[c][i]
    BY <1>1, <1>2, <2>1
  <2> QED BY <2>1, <2>2 DEF EventRows
<1>4. ASSUME NEW c \in Journaled, NEW i \in EventRows(c)'
      PROVE  i \in EventRows(c) \/ (c = b /\ i = z /\ v # Notice)
  <2>1. i \in 1..Len(rows'[c]) /\ rows'[c][i] # Notice
    BY <1>4 DEF EventRows
  <2>2. CASE c # b
    BY <1>1, <2>1, <2>2 DEF EventRows
  <2>3. CASE c = b /\ i # z
    BY <1>1, <1>2, <2>1, <2>3 DEF EventRows
  <2>4. CASE c = b /\ i = z
    BY <1>2, <2>1, <2>4
  <2> QED BY <2>2, <2>3, <2>4
<1>5. \A i \in EventRows(b) : i < z
  BY <1>1 DEF EventRows
<1>6. v # Notice => z \in EventRows(b)'
  BY <1>1, <1>2 DEF EventRows
<1> QED BY <1>2, <1>3, <1>4, <1>5, <1>6

\* The oldest rows gone.
LEMMA RowsDropped ==
    ASSUME JournalTypes, NEW b \in Journaled, NEW n \in Nat,
           rows' = [rows EXCEPT ![b] = Dropped(rows[b], n)]
    PROVE  \A c \in Journaled : \E m \in Nat :
             /\ \A i \in EventRows(c)' : /\ i \in Nat \ {0} /\ i + m \in EventRows(c)
                                         /\ rows'[c][i] = rows[c][i + m]
             /\ \A j \in EventRows(c) : m < j =>
                    \E i \in EventRows(c)' : j = i + m /\ rows'[c][i] = rows[c][j]
<1>1. /\ rows[b] \in Seq(Events \cup {Notice}) /\ Len(rows[b]) \in Nat
      /\ rows'[b] = Dropped(rows[b], n)
      /\ \A c \in Journaled \ {b} : rows'[c] = rows[c]
  BY OrderTypes DEF JournalTypes
<1>2. /\ Len(rows'[b]) = IF n <= Len(rows[b]) THEN Len(rows[b]) - n ELSE 0
      /\ \A i \in 1..Len(rows'[b]) : i + n \in 1..Len(rows[b]) /\ rows'[b][i] = rows[b][i + n]
  BY <1>1, DroppedRows
<1> SUFFICES ASSUME NEW c \in Journaled
             PROVE  \E m \in Nat :
                /\ \A i \in EventRows(c)' : /\ i \in Nat \ {0} /\ i + m \in EventRows(c)
                                            /\ rows'[c][i] = rows[c][i + m]
                /\ \A j \in EventRows(c) : m < j =>
                        \E i \in EventRows(c)' : j = i + m /\ rows'[c][i] = rows[c][j]
  OBVIOUS
<1>3. CASE c = b
  <2>1. ASSUME NEW i \in EventRows(b)'
        PROVE  i \in Nat \ {0} /\ i + n \in EventRows(b) /\ rows'[b][i] = rows[b][i + n]
    <3>1. i \in 1..Len(rows'[b]) /\ rows'[b][i] # Notice
      BY <2>1 DEF EventRows
    <3> QED BY <1>1, <1>2, <3>1 DEF EventRows
  <2>2. ASSUME NEW j \in EventRows(b), n < j
        PROVE  \E i \in EventRows(b)' : j = i + n /\ rows'[b][i] = rows[b][j]
    <3>1. j \in 1..Len(rows[b]) /\ rows[b][j] # Notice
      BY <2>2 DEF EventRows
    <3>2. PICK i \in Nat \ {0} : j = i + n
      BY <1>1, <2>2, <3>1
    <3>3. i \in 1..Len(rows'[b])
      BY <1>1, <1>2, <3>1, <3>2
    <3>4. rows'[b][i] = rows[b][j]
      BY <1>2, <3>2, <3>3
    <3>5. i \in EventRows(b)'
      BY <3>1, <3>3, <3>4 DEF EventRows
    <3> QED BY <3>2, <3>4, <3>5
  <2> QED BY <1>3, <2>1, <2>2
<1>4. CASE c # b
  <2>1. rows'[c] = rows[c] /\ Len(rows[c]) \in Nat
    BY <1>1, <1>4, OrderTypes
  <2>2. EventRows(c)' = EventRows(c)
    BY <2>1 DEF EventRows
  <2>3. \A i \in EventRows(c) : i \in Nat \ {0} /\ i + 0 = i
    BY <2>1 DEF EventRows
  <2>4. 0 \in Nat
    OBVIOUS
  <2> QED BY <2>1, <2>2, <2>3, <2>4
<1> QED BY <1>3, <1>4

\* A write appends a row: the head of the chain when it is an event, else a row
\* journal() does not count.
LEMMA OrderWritesRow ==
    ASSUME JournalOrder, JournalTyped', writeChain # <<>>, writeChain' = Tail(writeChain),
           UNCHANGED <<emitted, lost>>,
           NEW b \in Journaled, NEW v \in Events \cup {Notice},
           rows' = [rows EXCEPT ![b] = Append(rows[b], v)],
           \/ /\ writeChain[1].kind = "event" /\ v # Notice
              /\ b = writeChain[1].build /\ v = writeChain[1].event
           \/ writeChain[1].kind # "event" /\ v = Notice
    PROVE  JournalOrder'
<1> DEFINE z == Len(rows[b]) + 1
<1>1. JournalTypes /\ RowsOrdered /\ QueueOrdered /\ RowsFirst /\ QueueWhole /\ RowsWhole
  BY DEF JournalOrder, JournalTyped
<1>2. QueueOrdered' /\ QueueWhole'
  BY <1>1, ShiftKeepsQueue, ShiftKeepsWhole
<1>3. /\ \A c \in Journaled : \A i \in EventRows(c) : i \in EventRows(c)' /\ rows'[c][i] = rows[c][i]
      /\ \A c \in Journaled : \A i \in EventRows(c)' :
            i \in EventRows(c) \/ (c = b /\ i = z /\ v # Notice)
      /\ \A i \in EventRows(b) : i < z
      /\ rows'[b][z] = v
      /\ v # Notice => z \in EventRows(b)'
  BY <1>1, RowAppended
<1>4. /\ \A k \in QueuedEvents' : /\ k \in Nat \ {0} /\ k + 1 \in QueuedEvents
                                  /\ writeChain'[k] = writeChain[k + 1]
      /\ v # Notice => /\ 1 \in QueuedEvents
                       /\ writeChain[1].build = b /\ writeChain[1].event = v
      /\ \A p \in PendingEvents : p \in PendingEvents' \/ (v # Notice /\ p = <<b, v>>)
  BY <1>1, QueueShifts
<1>5. z \in Nat /\ \A c \in Journaled : \A i \in EventRows(c) : i \in Nat /\ rows[c][i] \in Nat
  BY <1>1, OrderTypes
<1>6. v # Notice => v \in 1..emitted[b] /\ \A i \in EventRows(b) : rows[b][i] < v
  BY <1>1, <1>4 DEF QueueOrdered, RowsFirst
<1>7. v \in Nat /\ \A c \in Journaled : emitted[c] \in Nat
  BY <1>1, OrderTypes, JournalAssumption DEF Events, Notice
<1> HIDE DEF z
<1>8. RowsOrdered'
  <2> SUFFICES ASSUME NEW c \in Journaled, NEW i \in EventRows(c)'
               PROVE  /\ rows'[c][i] \in 1..emitted[c]
                      /\ \A j \in EventRows(c)' : i < j => rows'[c][i] < rows'[c][j]
    BY DEF RowsOrdered
  <2>1. CASE i \in EventRows(c)
    <3>1. rows'[c][i] = rows[c][i] /\ rows[c][i] \in 1..emitted[c]
      BY <1>1, <1>3, <2>1 DEF RowsOrdered
    <3>2. ASSUME NEW j \in EventRows(c)', i < j PROVE rows'[c][i] < rows'[c][j]
      <4>1. CASE j \in EventRows(c)
        BY <1>1, <1>3, <2>1, <3>1, <3>2, <4>1 DEF RowsOrdered
      <4>2. CASE c = b /\ j = z /\ v # Notice
        <5>1. rows'[c][j] = v
          BY <1>3, <4>2
        <5>2. rows[c][i] < v
          BY <1>6, <2>1, <4>2
        <5> QED BY <3>1, <5>1, <5>2
      <4> QED BY <1>3, <4>1, <4>2
    <3> QED BY <3>1, <3>2
  <2>2. CASE c = b /\ i = z /\ v # Notice
    <3>1. \A j \in EventRows(c)' : ~(i < j)
      <4>1. ASSUME NEW j \in EventRows(c)', i < j PROVE FALSE
        <5>1. j < z \/ j = z
          BY <1>3, <2>2
        <5>2. j \in Nat
          BY <1>3, <1>5
        <5> QED BY <1>5, <2>2, <4>1, <5>1, <5>2
      <4> QED BY <4>1
    <3> QED BY <1>3, <1>6, <2>2, <3>1
  <2> QED BY <1>3, <2>1, <2>2
<1>9. RowsFirst'
  <2> SUFFICES ASSUME NEW c \in Journaled, NEW i \in EventRows(c)', NEW k \in QueuedEvents',
                      writeChain'[k].build = c
               PROVE  rows'[c][i] < writeChain'[k].event
    BY DEF RowsFirst
  <2>1. k \in Nat \ {0} /\ k + 1 \in QueuedEvents /\ writeChain'[k] = writeChain[k + 1]
    BY <1>4
  <2>2. CASE i \in EventRows(c)
    BY <1>1, <1>3, <2>1, <2>2 DEF RowsFirst
  <2>3. CASE c = b /\ i = z /\ v # Notice
    <3>1. 1 < k + 1 /\ 1 \in QueuedEvents /\ writeChain[1].build = b
      BY <1>4, <2>1, <2>3
    <3>2. writeChain[k + 1].build = writeChain[1].build
      BY <2>1, <2>3, <3>1
    <3>3. writeChain[1].event < writeChain[k + 1].event
      BY <1>1, <2>1, <3>1, <3>2 DEF QueueOrdered
    <3> QED BY <1>3, <1>4, <2>1, <2>3, <3>3
  <2> QED BY <1>3, <2>2, <2>3
<1>10. RowsWhole'
  <2> SUFFICES ASSUME NEW c \in Journaled, NEW i \in EventRows(c)', NEW e \in rows'[c][i]..emitted[c]
               PROVE  \/ \E j \in EventRows(c)' : rows'[c][j] = e
                      \/ <<c, e>> \in PendingEvents' \cup lost
    BY DEF RowsWhole
  <2>1. \/ \E j \in EventRows(c) : rows[c][j] = e
        \/ <<c, e>> \in PendingEvents \cup lost
    <3>1. CASE i \in EventRows(c)
      BY <1>1, <1>3, <3>1 DEF RowsWhole
    <3>2. CASE c = b /\ i = z /\ v # Notice
      <4>1. 1 \in QueuedEvents /\ writeChain[1].build = b /\ writeChain[1].event = v
        BY <1>4, <3>2
      <4>2. e \in writeChain[1].event..emitted[writeChain[1].build]
        BY <1>3, <3>2, <4>1
      <4>3. <<writeChain[1].build, e>> \in PendingEvents \cup lost
        BY <1>1, <4>1, <4>2 DEF QueueWhole
      <4> QED BY <3>2, <4>1, <4>3
    <3> QED BY <1>3, <3>1, <3>2
  <2>2. CASE \E j \in EventRows(c) : rows[c][j] = e
    BY <1>3, <2>2
  <2>3. CASE <<c, e>> \in PendingEvents /\ <<c, e>> \notin PendingEvents'
    <3>1. v # Notice /\ c = b /\ e = v
      BY <1>4, <2>3
    <3> QED BY <1>3, <3>1
  <2> QED BY <2>1, <2>2, <2>3
<1> QED BY <1>2, <1>8, <1>9, <1>10 DEF JournalOrder

\* A trim: what is left of the rows are the last ones, so nothing goes missing
\* behind the first of them.
LEMMA OrderTrims ==
    ASSUME JournalOrder, JournalTyped', writeChain # <<>>, writeChain' = Tail(writeChain),
           UNCHANGED <<emitted, lost>>, writeChain[1].kind = "trim",
           NEW b \in Journaled, NEW n \in Nat, rows' = [rows EXCEPT ![b] = Dropped(rows[b], n)]
    PROVE  JournalOrder'
<1>1. JournalTypes /\ RowsOrdered /\ QueueOrdered /\ RowsFirst /\ QueueWhole /\ RowsWhole
  BY DEF JournalOrder, JournalTyped
<1>2. QueueOrdered' /\ QueueWhole'
  BY <1>1, ShiftKeepsQueue, ShiftKeepsWhole
<1>3. /\ \A k \in QueuedEvents' : /\ k \in Nat \ {0} /\ k + 1 \in QueuedEvents
                                  /\ writeChain'[k] = writeChain[k + 1]
      /\ PendingEvents \subseteq PendingEvents'
  BY <1>1, QueueShifts
<1>4. \A c \in Journaled : \E m \in Nat :
        /\ \A i \in EventRows(c)' : /\ i \in Nat \ {0} /\ i + m \in EventRows(c)
                                    /\ rows'[c][i] = rows[c][i + m]
        /\ \A j \in EventRows(c) : m < j =>
               \E i \in EventRows(c)' : j = i + m /\ rows'[c][i] = rows[c][j]
  BY <1>1, RowsDropped
<1>5. \A c \in Journaled : \A i \in EventRows(c) : i \in Nat /\ rows[c][i] \in Nat
  BY <1>1, OrderTypes
<1>6. RowsOrdered'
  <2> SUFFICES ASSUME NEW c \in Journaled, NEW i \in EventRows(c)'
               PROVE  /\ rows'[c][i] \in 1..emitted[c]
                      /\ \A j \in EventRows(c)' : i < j => rows'[c][i] < rows'[c][j]
    BY DEF RowsOrdered
  <2>1. PICK m \in Nat : \A j \in EventRows(c)' :
            j \in Nat /\ j + m \in EventRows(c) /\ rows'[c][j] = rows[c][j + m]
    BY <1>4
  <2>2. rows[c][i + m] \in 1..emitted[c]
    BY <1>1, <2>1 DEF RowsOrdered
  <2>3. ASSUME NEW j \in EventRows(c)', i < j PROVE rows'[c][i] < rows'[c][j]
    <3>1. i + m < j + m
      BY <2>1, <2>3
    <3> QED BY <1>1, <2>1, <3>1 DEF RowsOrdered
  <2> QED BY <2>1, <2>2, <2>3
<1>7. RowsFirst'
  <2> SUFFICES ASSUME NEW c \in Journaled, NEW i \in EventRows(c)', NEW k \in QueuedEvents',
                      writeChain'[k].build = c
               PROVE  rows'[c][i] < writeChain'[k].event
    BY DEF RowsFirst
  <2>1. PICK m \in Nat : i + m \in EventRows(c) /\ rows'[c][i] = rows[c][i + m]
    BY <1>4
  <2> QED BY <1>1, <1>3, <2>1 DEF RowsFirst
<1>8. RowsWhole'
  <2> SUFFICES ASSUME NEW c \in Journaled, NEW i \in EventRows(c)', NEW e \in rows'[c][i]..emitted[c]
               PROVE  \/ \E j \in EventRows(c)' : rows'[c][j] = e
                      \/ <<c, e>> \in PendingEvents' \cup lost
    BY DEF RowsWhole
  <2>1. PICK m \in Nat :
            /\ i \in Nat \ {0} /\ i + m \in EventRows(c) /\ rows'[c][i] = rows[c][i + m]
            /\ \A j \in EventRows(c) : m < j =>
                    \E l \in EventRows(c)' : j = l + m /\ rows'[c][l] = rows[c][j]
    BY <1>4
  <2>2. \/ \E j \in EventRows(c) : rows[c][j] = e
        \/ <<c, e>> \in PendingEvents \cup lost
    BY <1>1, <2>1 DEF RowsWhole
  <2>3. ASSUME NEW j \in EventRows(c), rows[c][j] = e
        PROVE  \E l \in EventRows(c)' : rows'[c][l] = e
    <3>1. ~(j < i + m)
      <4>1. ASSUME j < i + m PROVE FALSE
        <5>1. rows[c][j] < rows[c][i + m]
          BY <1>1, <2>1, <4>1 DEF RowsOrdered
        <5>2. rows[c][i + m] \in Nat /\ rows[c][i + m] <= e
          BY <1>5, <2>1
        <5> QED BY <1>5, <2>3, <5>1, <5>2
      <4> QED BY <4>1
    <3>2. m < j
      BY <1>5, <2>1, <3>1
    <3> QED BY <2>1, <2>3, <3>2
  <2> QED BY <1>3, <2>2, <2>3
<1> QED BY <1>2, <1>6, <1>7, <1>8 DEF JournalOrder

\* A write throws: its event is missing for good and counted among the lost.
LEMMA OrderThrows ==
    ASSUME JournalOrder, JournalTyped', WriteThrows
    PROVE  JournalOrder'
<1> DEFINE op == writeChain[1]
<1>1. JournalTypes /\ RowsOrdered /\ QueueOrdered /\ RowsFirst /\ QueueWhole /\ RowsWhole
  BY DEF JournalOrder, JournalTyped
<1>2. /\ writeChain # <<>> /\ writeChain' = Tail(writeChain)
      /\ lost' = IF op.kind = "event" THEN lost \cup {<<op.build, op.event>>} ELSE lost
      /\ UNCHANGED <<emitted, rows>>
  <2>1. writeChain # <<>> /\ Head(writeChain) = op
    BY <1>1, OpsTail DEF WriteThrows, JournalTypes
  <2> QED BY <2>1 DEF WriteThrows
<1>3. QueueOrdered' /\ QueueWhole'
  BY <1>1, <1>2, ShiftKeepsQueue, ShiftKeepsWhole
<1>4. /\ \A k \in QueuedEvents' : k + 1 \in QueuedEvents /\ writeChain'[k] = writeChain[k + 1]
      /\ \A p \in PendingEvents : p \in PendingEvents' \cup lost'
  BY <1>1, <1>2, QueueShifts
<1>5. \A c : EventRows(c)' = EventRows(c)
  BY <1>2 DEF EventRows
<1>6. RowsOrdered'
  BY <1>1, <1>2, <1>5 DEF RowsOrdered
<1>7. RowsFirst'
  BY <1>1, <1>2, <1>4, <1>5 DEF RowsFirst
<1>8. RowsWhole'
  <2> SUFFICES ASSUME NEW c \in Journaled, NEW i \in EventRows(c), NEW e \in rows[c][i]..emitted[c]
               PROVE  \/ \E j \in EventRows(c) : rows[c][j] = e
                      \/ <<c, e>> \in PendingEvents' \cup lost'
    BY <1>2, <1>5 DEF RowsWhole
  <2>1. \/ \E j \in EventRows(c) : rows[c][j] = e
        \/ <<c, e>> \in PendingEvents \cup lost
    BY <1>1 DEF RowsWhole
  <2> QED BY <1>2, <1>4, <2>1
<1> QED BY <1>3, <1>6, <1>7, <1>8 DEF JournalOrder

\* The chain keeps its events, and nothing else of the order changes: journal()
\* resumes, and may queue a trim or a note.
LEMMA OrderContinues ==
    ASSUME JournalOrder, JournalTyped', Continue
    PROVE  JournalOrder'
<1>1. JournalTypes /\ RowsOrdered /\ QueueOrdered /\ RowsFirst /\ QueueWhole /\ RowsWhole
  BY DEF JournalOrder, JournalTyped
<1>2. UNCHANGED <<emitted, rows, lost>>
  BY DEF Continue
<1>3. \/ writeChain' = writeChain
      \/ \E q \in Op : writeChain' = Append(writeChain, q) /\ q.kind # "event"
  BY <1>1, ContinueQueues
<1>4. /\ \A k \in QueuedEvents' : k \in QueuedEvents /\ writeChain'[k] = writeChain[k]
      /\ PendingEvents \subseteq PendingEvents'
  <2>1. CASE writeChain' = writeChain
    BY <2>1 DEF QueuedEvents, PendingEvents
  <2>2. ASSUME NEW q \in Op, writeChain' = Append(writeChain, q), q.kind # "event"
        PROVE  /\ \A k \in QueuedEvents' : k \in QueuedEvents /\ writeChain'[k] = writeChain[k]
               /\ PendingEvents \subseteq PendingEvents'
    BY <1>1, <2>2, QueueAppends
  <2> QED BY <1>3, <2>1, <2>2
<1>5. \A c : EventRows(c)' = EventRows(c)
  BY <1>2 DEF EventRows
<1>6. RowsOrdered'
  BY <1>1, <1>2, <1>5 DEF RowsOrdered
<1>7. QueueOrdered'
  BY <1>1, <1>2, <1>4 DEF QueueOrdered
<1>8. RowsFirst'
  BY <1>1, <1>2, <1>4, <1>5 DEF RowsFirst
<1>9. QueueWhole'
  BY <1>1, <1>2, <1>4 DEF QueueWhole
<1>10. RowsWhole'
  BY <1>1, <1>2, <1>4, <1>5 DEF RowsWhole
<1> QED BY <1>6, <1>7, <1>8, <1>9, <1>10 DEF JournalOrder

\* A restart empties the chain into the lost events; the notes it queues are none.
LEMMA OrderRestarts ==
    ASSUME JournalOrder, JournalTyped', Restart
    PROVE  JournalOrder'
<1>1. JournalTypes /\ IsFiniteSet(live) /\ RowsOrdered /\ RowsWhole
  BY DEF JournalOrder, JournalTyped
<1>2. UNCHANGED <<emitted, rows>> /\ lost' = lost \cup PendingEvents
  BY DEF Restart
<1>3. PICK stale \in SUBSET live : writeChain' = SetToSeq({BootNote(b) : b \in stale})
  BY DEF Restart
<1>4. stale \in SUBSET Journaled /\ IsFiniteSet(stale)
  BY <1>1, FS_Subset DEF JournalTypes
<1>5. \A k \in 1..Len(writeChain') : writeChain'[k] \in {BootNote(b) : b \in stale}
  BY <1>3, <1>4, BootNotes
<1>6. QueuedEvents' = {}
  BY <1>5 DEF QueuedEvents, BootNote
<1>7. \A c : EventRows(c)' = EventRows(c)
  BY <1>2 DEF EventRows
<1>8. RowsOrdered' /\ QueueOrdered' /\ RowsFirst' /\ QueueWhole'
  BY <1>1, <1>2, <1>6, <1>7 DEF RowsOrdered, QueueOrdered, RowsFirst, QueueWhole
<1>9. RowsWhole'
  BY <1>1, <1>2, <1>7 DEF RowsWhole
<1> QED BY <1>8, <1>9 DEF JournalOrder

\* Every step of the journal keeps the order.
LEMMA JournalOrderStep == JournalOrder /\ [JournalNext]_journalVars => JournalOrder'
<1> SUFFICES ASSUME JournalOrder, [JournalNext]_journalVars PROVE JournalOrder'
  OBVIOUS
<1>1. JournalTypes /\ JournalTyped'
  BY JournalTypesStep DEF JournalOrder, JournalTyped
<1>2. ASSUME NEW b \in Journaled, Emit(b) \/ FirstEvent(b) \/ CreateSession(b)
      PROVE  JournalOrder'
  BY <1>1, <1>2, OrderEmits DEF Emit, FirstEvent, CreateSession
<1>3. ASSUME WriteRuns PROVE JournalOrder'
  <2> DEFINE op == writeChain[1]
  <2>1. /\ writeChain # <<>> /\ writeChain' = Tail(writeChain) /\ UNCHANGED <<emitted, lost>>
        /\ op \in Op
    BY <1>1, <1>3, WriteTakesHead, RowsAfter
  <2>2. op.build \in Journaled /\ op.n \in Nat
    BY <2>1 DEF Op
  <2>3. \/ op.kind = "event" /\ rows' = [rows EXCEPT ![op.build] = Append(rows[op.build], op.event)]
        \/ /\ op.kind \in {"note", "boot"}
           /\ rows' = [rows EXCEPT ![op.build] = Append(rows[op.build], Notice)]
        \/ op.kind = "trim" /\ rows' = [rows EXCEPT ![op.build] = Dropped(rows[op.build], op.n)]
    BY <1>1, <1>3, RowsAfter
  <2>4. CASE op.kind = "event"
    <3>1. 1 \in QueuedEvents
      BY <1>1, <2>1, <2>4, OpsTail DEF QueuedEvents, JournalTypes
    <3>2. op.event \in 1..emitted[op.build] /\ emitted[op.build] \in 0..MaxEvents
      BY <1>1, <2>2, <3>1 DEF JournalOrder, QueueOrdered, JournalTypes
    <3>3. op.event \in Events /\ op.event # Notice
      BY <3>2, JournalAssumption DEF Events, Notice
    <3> QED BY <1>1, <2>1, <2>2, <2>3, <2>4, <3>3, OrderWritesRow
  <2>5. CASE op.kind \in {"note", "boot"}
    BY <1>1, <2>1, <2>2, <2>3, <2>5, OrderWritesRow
  <2>6. CASE op.kind = "trim"
    BY <1>1, <2>1, <2>2, <2>3, <2>6, OrderTrims
  <2> QED BY <2>3, <2>4, <2>5, <2>6
<1>4. ASSUME UNCHANGED journalVars PROVE JournalOrder'
  BY <1>1, <1>4 DEF journalVars, JournalOrder, RowsOrdered, QueueOrdered, RowsFirst, QueueWhole,
                    RowsWhole, QueuedEvents, EventRows, PendingEvents
<1> QED BY <1>1, <1>2, <1>3, <1>4, OrderThrows, OrderContinues, OrderRestarts DEF JournalNext

\* The journal of a build replays in the order of emission, and only its oldest
\* events are dropped, for every cap and any number of builds, events, failed
\* writes and restarts.
THEOREM JournalReplays == JournalSpec => []ReplayInOrder
<1>1. JournalSpec => []JournalOrder
  BY JournalOrderInit, JournalOrderStep, PTL DEF JournalSpec
<1> QED BY <1>1, JournalOrderReplays, PTL

-----------------------------------------------------------------------------
(* The journal: a trim keeps the cap                                       *)
(*                                                                         *)
(* journal() computes the overflow from a count it read when the event was *)
(* emitted, and up to JOURNAL_CAP + 1 appends and trims of the build may be *)
(* queued between that moment and the trim.  For a build of this process   *)
(* every trim takes one row, so the rows that stand once the queued trims  *)
(* have run bound every count in flight; a build of an earlier process has *)
(* at most one append or trim in flight, and its own row count bounds it.  *)

\* The places of the chain that belong to a build, and the trims among them.
OpsOf(b) == {k \in 1..Len(writeChain) : writeChain[k].build = b}
TrimsOf(b) == {k \in OpsOf(b) : writeChain[k].kind = "trim"}
Trims(b) == Cardinality(TrimsOf(b))

\* The operation of the build whose write has settled, if there is one.
SettledOps(b) == {op \in Op : settledWrite = <<op>> /\ op.build = b}

\* The operations that count rows.
Counts(op) == op.kind \in {"event", "trim"}

\* journal() is about to queue a trim.
TrimDue(b) == \E op \in SettledOps(b) : op.kind = "event" /\ op.n + 1 > JOURNAL_CAP

\* The rows that stand once every trim of one row, queued or due, has run.
Standing(b) == Len(rows[b]) - Trims(b) - (IF TrimDue(b) THEN 1 ELSE 0)

\* A build none of whose events was emitted has nothing anywhere.
Untouched(b) == emitted[b] = 0 =>
    /\ b \notin live /\ rows[b] = <<>> /\ journalCounts[b] = Unknown
    /\ OpsOf(b) = {} /\ SettledOps(b) = {}

\* A build of this process: no count in flight exceeds the rows that stand.
LiveCounts(b) ==
    /\ journalCounts[b] \in 0..JOURNAL_CAP /\ journalCounts[b] <= Standing(b)
    /\ \A k \in OpsOf(b) :
        /\ writeChain[k].kind = "event" =>
            writeChain[k].n <= JOURNAL_CAP /\ writeChain[k].n <= Standing(b)
        /\ writeChain[k].kind = "trim" => writeChain[k].n = 1 /\ JOURNAL_CAP <= Standing(b)
    /\ \A op \in SettledOps(b) :
        /\ op.kind = "event" =>
            /\ op.n <= JOURNAL_CAP
            /\ op.n < JOURNAL_CAP => op.n + 1 <= Standing(b)
            /\ op.n = JOURNAL_CAP => JOURNAL_CAP <= Standing(b)
        /\ op.kind = "trim" => JOURNAL_CAP <= Standing(b)

\* A build of an earlier process: at most one counted operation is in flight.
StoredCounts(b) ==
    /\ \/ journalCounts[b] <= Len(rows[b])
       \/ \E op \in SettledOps(b) : op.kind = "trim"
    /\ \A k \in OpsOf(b) : Counts(writeChain[k]) =>
        /\ writeChain[k].kind = "event" => writeChain[k].n <= Len(rows[b])
        /\ writeChain[k].kind = "trim" => JOURNAL_CAP + writeChain[k].n <= Len(rows[b])
        /\ \A l \in OpsOf(b) : Counts(writeChain[l]) => l = k
        /\ \A op \in SettledOps(b) : ~Counts(op)
    /\ \A op \in SettledOps(b) :
        /\ op.kind = "event" => op.n + 1 <= Len(rows[b])
        /\ op.kind = "trim" => JOURNAL_CAP <= Len(rows[b])

CountsRight(b) ==
    /\ Untouched(b)
    /\ b \in live => LiveCounts(b)
    /\ b \notin live => StoredCounts(b)

JournalCounted == JournalTyped /\ \A b \in Journaled : CountsRight(b)

LEMMA JournalCountedInit == JournalInit => JournalCounted
<1> SUFFICES ASSUME JournalInit PROVE JournalCounted
  OBVIOUS
<1>1. JournalTyped
  BY JournalTypesInit
<1>2. Len(<<>>) = 0
  OBVIOUS
<1>3. ASSUME NEW b \in Journaled PROVE CountsRight(b)
  <2>1. OpsOf(b) = {} /\ SettledOps(b) = {}
    BY <1>2 DEF JournalInit, OpsOf, SettledOps
  <2>2. live = {} /\ rows[b] = <<>> /\ journalCounts[b] = Unknown /\ Unknown <= 0
    BY DEF JournalInit, Unknown
  <2> QED BY <1>2, <2>1, <2>2 DEF CountsRight, Untouched, StoredCounts
<1> QED BY <1>1, <1>3 DEF JournalCounted

\* The trims of a build are finitely many.
LEMMA TrimsFinite ==
    ASSUME JournalTypes
    PROVE  \A b : IsFiniteSet(TrimsOf(b)) /\ Trims(b) \in Nat
<1>1. ASSUME NEW b PROVE IsFiniteSet(TrimsOf(b)) /\ Trims(b) \in Nat
  <2>1. IsFiniteSet(1..Len(writeChain))
    BY OrderTypes, FS_Interval
  <2>2. TrimsOf(b) \in SUBSET (1..Len(writeChain))
    BY DEF TrimsOf, OpsOf
  <2>3. IsFiniteSet(TrimsOf(b))
    BY <2>1, <2>2, FS_Subset
  <2> QED BY <2>3, FS_CardinalityType DEF Trims
<1> QED BY <1>1

\* An operation more in the chain.
LEMMA OpsAppended ==
    ASSUME JournalTypes, NEW op \in Op, writeChain' = Append(writeChain, op), NEW b
    PROVE  /\ \A k \in OpsOf(b)' :
                 \/ k \in OpsOf(b) /\ writeChain'[k] = writeChain[k]
                 \/ k = Len(writeChain) + 1 /\ op.build = b /\ writeChain'[k] = op
           /\ op.kind # "trim" \/ op.build # b => Trims(b)' = Trims(b)
           /\ op.kind = "trim" /\ op.build = b => Trims(b)' = Trims(b) + 1
<1> DEFINE z == Len(writeChain) + 1
<1>1. /\ Len(writeChain) \in Nat /\ Len(writeChain') = z /\ writeChain'[z] = op
      /\ \A i \in 1..Len(writeChain) : writeChain'[i] = writeChain[i]
  BY OpsAppend DEF JournalTypes
<1>2. z \notin 1..Len(writeChain)
  BY <1>1
<1>3. 1..Len(writeChain') = (1..Len(writeChain)) \cup {z}
  BY <1>1
<1> HIDE DEF z
<1>4. OpsOf(b)' = IF op.build = b THEN OpsOf(b) \cup {z} ELSE OpsOf(b)
  BY <1>1, <1>2, <1>3 DEF OpsOf
<1>5. \A k \in OpsOf(b) : writeChain'[k] = writeChain[k]
  BY <1>1 DEF OpsOf
<1>6. CASE op.kind = "trim" /\ op.build = b
  <2>1. TrimsOf(b)' = TrimsOf(b) \cup {z}
    BY <1>1, <1>4, <1>5, <1>6 DEF TrimsOf
  <2>2. z \notin TrimsOf(b)
    BY <1>2 DEF TrimsOf, OpsOf
  <2>3. Trims(b)' = Trims(b) + 1
    BY <2>1, <2>2, TrimsFinite, FS_AddElement DEF Trims
  <2> QED BY <1>1, <1>4, <1>5, <1>6, <2>3 DEF z
<1>7. CASE op.kind # "trim" \/ op.build # b
  <2>1. TrimsOf(b)' = TrimsOf(b)
    BY <1>1, <1>4, <1>5, <1>7 DEF TrimsOf
  <2>2. Trims(b)' = Trims(b)
    BY <2>1 DEF Trims
  <2> QED BY <1>1, <1>4, <1>5, <1>7, <2>2 DEF z
<1> QED BY <1>6, <1>7

\* The head taken off the chain.
LEMMA OpsShifted ==
    ASSUME JournalTypes, writeChain # <<>>, writeChain' = Tail(writeChain), NEW b
    PROVE  LET op == writeChain[1] IN
           /\ op \in Op
           /\ \A k \in OpsOf(b)' : /\ k \in Nat \ {0} /\ k + 1 \in OpsOf(b)
                                   /\ writeChain'[k] = writeChain[k + 1]
           /\ op.build = b => 1 \in OpsOf(b)
           /\ op.kind # "trim" \/ op.build # b => Trims(b)' = Trims(b)
           /\ op.kind = "trim" /\ op.build = b => Trims(b)' = Trims(b) - 1 /\ Trims(b) \in Nat \ {0}
<1> DEFINE op == writeChain[1]
<1>1. /\ Len(writeChain) \in Nat \ {0} /\ Len(writeChain') = Len(writeChain) - 1 /\ op \in Op
      /\ \A i \in 1..(Len(writeChain) - 1) : writeChain'[i] = writeChain[i + 1]
  BY OpsTail DEF JournalTypes
<1>2. \A k \in OpsOf(b)' : /\ k \in Nat \ {0} /\ k + 1 \in OpsOf(b)
                           /\ writeChain'[k] = writeChain[k + 1]
  BY <1>1 DEF OpsOf
<1>3. op.build = b => 1 \in OpsOf(b)
  BY <1>1 DEF OpsOf
<1>4. Cardinality(TrimsOf(b) \ {1}) = Trims(b)' /\ IsFiniteSet(TrimsOf(b)')
  <2>1. ASSUME NEW k \in TrimsOf(b)' PROVE k \in Nat \ {0} /\ k + 1 \in TrimsOf(b) \ {1}
    <3>1. k \in OpsOf(b)' /\ writeChain'[k].kind = "trim"
      BY <2>1 DEF TrimsOf
    <3>2. k \in Nat \ {0} /\ k + 1 \in OpsOf(b) /\ writeChain'[k] = writeChain[k + 1]
      BY <1>2, <3>1
    <3>3. writeChain[k + 1].kind = "trim"
      BY <3>1, <3>2
    <3>4. k + 1 # 1
      BY <3>2
    <3> QED BY <3>2, <3>3, <3>4 DEF TrimsOf
  <2>2. ASSUME NEW l \in TrimsOf(b) \ {1} PROVE \E k \in TrimsOf(b)' : k + 1 = l
    <3>1. l \in 1..Len(writeChain) /\ l # 1 /\ writeChain[l].kind = "trim" /\ writeChain[l].build = b
      BY <2>2 DEF TrimsOf, OpsOf
    <3>2. PICK k \in 1..(Len(writeChain) - 1) : k + 1 = l
      BY <1>1, <3>1
    <3>3. writeChain'[k] = writeChain[l]
      BY <1>1, <3>2
    <3>4. k \in TrimsOf(b)'
      BY <1>1, <3>1, <3>2, <3>3 DEF TrimsOf, OpsOf
    <3> QED BY <3>2, <3>4
  <2> DEFINE f == [k \in TrimsOf(b)' |-> k + 1]
  <2>3. f \in Injection(TrimsOf(b)', TrimsOf(b) \ {1})
    BY <2>1 DEF Injection, IsInjective
  <2>4. f \in Surjection(TrimsOf(b)', TrimsOf(b) \ {1})
    BY <2>1, <2>2 DEF Surjection
  <2>5. IsFiniteSet(TrimsOf(b) \ {1})
    BY TrimsFinite, FS_RemoveElement
  <2> HIDE DEF f
  <2>6. IsFiniteSet(TrimsOf(b)')
    BY <2>3, <2>5, FS_Injection
  <2>7. ExistsBijection(TrimsOf(b)', TrimsOf(b) \ {1})
    BY <2>3, <2>4 DEF ExistsBijection, Bijection
  <2> QED BY <2>6, <2>7, FS_Bijection DEF Trims
<1>5. CASE op.kind # "trim" \/ op.build # b
  <2>1. TrimsOf(b) \ {1} = TrimsOf(b)
    BY <1>5 DEF TrimsOf, OpsOf
  <2> QED BY <1>1, <1>2, <1>3, <1>4, <1>5, <2>1 DEF Trims
<1>6. CASE op.kind = "trim" /\ op.build = b
  <2>1. 1 \in TrimsOf(b)
    BY <1>3, <1>6 DEF TrimsOf
  <2>2. Cardinality(TrimsOf(b) \ {1}) = Trims(b) - 1
    BY <2>1, TrimsFinite, FS_RemoveElement DEF Trims
  <2>3. Trims(b) # 0
    BY <2>1, TrimsFinite, FS_EmptySet DEF Trims
  <2> QED BY <1>1, <1>2, <1>3, <1>4, <1>6, <2>2, <2>3, TrimsFinite
<1> QED BY <1>5, <1>6

\* The types of what the counts are about.
CountsTyped == \A b \in Journaled :
    /\ Standing(b) \in Int /\ Len(rows[b]) \in Nat /\ Trims(b) \in Nat
    /\ Standing(b) <= Len(rows[b]) - Trims(b)
    /\ journalCounts[b] \in Nat \cup {Unknown}
    /\ \A k \in OpsOf(b) : writeChain[k] \in Op /\ writeChain[k].build = b /\ writeChain[k].n \in Nat
    /\ \A op \in SettledOps(b) : op \in Op /\ op.build = b /\ op.n \in Nat

LEMMA CountsTypes == JournalTypes => CountsTyped
<1> SUFFICES ASSUME JournalTypes, NEW b \in Journaled
             PROVE  /\ Standing(b) \in Int /\ Len(rows[b]) \in Nat /\ Trims(b) \in Nat
                    /\ Standing(b) <= Len(rows[b]) - Trims(b)
                    /\ journalCounts[b] \in Nat \cup {Unknown}
                    /\ \A k \in OpsOf(b) : /\ writeChain[k] \in Op /\ writeChain[k].build = b
                                           /\ writeChain[k].n \in Nat
                    /\ \A op \in SettledOps(b) : op \in Op /\ op.build = b /\ op.n \in Nat
  BY DEF CountsTyped
<1>1. Len(rows[b]) \in Nat /\ Trims(b) \in Nat /\ journalCounts[b] \in Nat \cup {Unknown}
  BY OrderTypes, TrimsFinite DEF JournalTypes
<1>2. Standing(b) \in Int /\ Standing(b) <= Len(rows[b]) - Trims(b)
  BY <1>1 DEF Standing
<1>3. ASSUME NEW k \in OpsOf(b)
      PROVE  writeChain[k] \in Op /\ writeChain[k].build = b /\ writeChain[k].n \in Nat
  <2>1. k \in 1..Len(writeChain) /\ writeChain[k].build = b
    BY <1>3 DEF OpsOf
  <2>2. writeChain[k] \in Op
    BY <2>1, ElementOfSeq DEF JournalTypes
  <2> QED BY <2>1, <2>2 DEF Op
<1>4. ASSUME NEW op \in SettledOps(b) PROVE op \in Op /\ op.build = b /\ op.n \in Nat
  BY <1>4 DEF SettledOps, Op
<1> QED BY <1>1, <1>2, <1>3, <1>4

LEMMA CountsTypesNext == JournalTypes' => CountsTyped'
BY CountsTypes, PTL

\* At most one operation has settled.
LEMMA OneSettled ==
    ASSUME JournalTypes, NEW b \in Journaled
    PROVE  /\ settledWrite = <<>> => SettledOps(b) = {}
           /\ settledWrite # <<>> =>
                SettledOps(b) = IF settledWrite[1].build = b THEN {settledWrite[1]} ELSE {}
<1>1. CASE settledWrite = <<>>
  BY <1>1 DEF SettledOps
<1>2. CASE settledWrite # <<>>
  <2>1. PICK op \in Op : settledWrite[1] = op /\ settledWrite \in Seq(Op) /\ Len(settledWrite) = 1
    BY <1>2, SettledOp DEF JournalTypes
  <2>2. settledWrite = <<op>>
    BY <2>1
  <2> QED BY <1>2, <2>1, <2>2 DEF SettledOps
<1> QED BY <1>1, <1>2

\* A step that leaves a build's rows and count alone, and of its operations at
\* most drops some that take no row.
LEMMA OtherBuild ==
    ASSUME JournalCounted, JournalTyped', NEW b \in Journaled, NEW m \in Nat,
           \A k \in OpsOf(b)' : k + m \in OpsOf(b) /\ writeChain'[k] = writeChain[k + m],
           \A k \in OpsOf(b)' : k \in Nat,
           SettledOps(b)' = SettledOps(b), Trims(b)' <= Trims(b), rows'[b] = rows[b],
           journalCounts'[b] = journalCounts[b], emitted'[b] = emitted[b],
           b \in live' <=> b \in live
    PROVE  CountsRight(b)'
<1>1. CountsRight(b) /\ CountsTyped /\ CountsTyped'
  BY CountsTypes, CountsTypesNext DEF JournalCounted, JournalTyped
<1>2. TrimDue(b)' <=> TrimDue(b)
  BY DEF TrimDue
<1>3. Standing(b) \in Int /\ Standing(b)' \in Int /\ Standing(b) <= Standing(b)'
  BY <1>1, <1>2 DEF Standing, CountsTyped
<1>4. Untouched(b)'
  <2>1. Untouched(b)
    BY <1>1 DEF CountsRight
  <2> QED BY <2>1 DEF Untouched
<1>5. ASSUME b \in live PROVE LiveCounts(b)'
  <2>1. LiveCounts(b)
    BY <1>1, <1>5 DEF CountsRight
  <2>2. journalCounts'[b] \in 0..JOURNAL_CAP /\ journalCounts'[b] <= Standing(b)'
    BY <1>3, <2>1 DEF LiveCounts
  <2>3. ASSUME NEW k \in OpsOf(b)'
        PROVE  /\ writeChain'[k].kind = "event" =>
                    writeChain'[k].n <= JOURNAL_CAP /\ writeChain'[k].n <= Standing(b)'
               /\ writeChain'[k].kind = "trim" =>
                    writeChain'[k].n = 1 /\ JOURNAL_CAP <= Standing(b)'
    <3>1. /\ writeChain'[k].n \in Nat
          /\ writeChain'[k].kind = "event" =>
                writeChain'[k].n <= JOURNAL_CAP /\ writeChain'[k].n <= Standing(b)
          /\ writeChain'[k].kind = "trim" =>
                writeChain'[k].n = 1 /\ JOURNAL_CAP <= Standing(b)
      BY <1>1, <2>1, <2>3 DEF LiveCounts, CountsTyped
    <3> QED BY <1>3, <3>1, JournalAssumption
  <2>4. ASSUME NEW op \in SettledOps(b)'
        PROVE  /\ op.kind = "event" =>
                    /\ op.n <= JOURNAL_CAP
                    /\ op.n < JOURNAL_CAP => op.n + 1 <= Standing(b)'
                    /\ op.n = JOURNAL_CAP => JOURNAL_CAP <= Standing(b)'
               /\ op.kind = "trim" => JOURNAL_CAP <= Standing(b)'
    <3>1. /\ op.n \in Nat
          /\ op.kind = "event" =>
                /\ op.n <= JOURNAL_CAP
                /\ op.n < JOURNAL_CAP => op.n + 1 <= Standing(b)
                /\ op.n = JOURNAL_CAP => JOURNAL_CAP <= Standing(b)
          /\ op.kind = "trim" => JOURNAL_CAP <= Standing(b)
      BY <1>1, <2>1, <2>4 DEF LiveCounts, CountsTyped
    <3> QED BY <1>3, <3>1, JournalAssumption
  <2> QED BY <2>2, <2>3, <2>4 DEF LiveCounts
<1>6. ASSUME b \notin live PROVE StoredCounts(b)'
  <2>1. StoredCounts(b)
    BY <1>1, <1>6 DEF CountsRight
  <2>2. ASSUME NEW k \in OpsOf(b)', Counts(writeChain'[k])
        PROVE  /\ writeChain'[k].kind = "event" => writeChain'[k].n <= Len(rows'[b])
               /\ writeChain'[k].kind = "trim" => JOURNAL_CAP + writeChain'[k].n <= Len(rows'[b])
               /\ \A l \in OpsOf(b)' : Counts(writeChain'[l]) => l = k
               /\ \A op \in SettledOps(b)' : ~Counts(op)
    <3>1. /\ writeChain'[k].kind = "event" => writeChain'[k].n <= Len(rows'[b])
          /\ writeChain'[k].kind = "trim" => JOURNAL_CAP + writeChain'[k].n <= Len(rows'[b])
          /\ \A op \in SettledOps(b)' : ~Counts(op)
      BY <2>1, <2>2 DEF StoredCounts
    <3>2. ASSUME NEW l \in OpsOf(b)', Counts(writeChain'[l]) PROVE l = k
      <4>1. l + m = k + m
        BY <2>1, <2>2, <3>2 DEF StoredCounts
      <4> QED BY <4>1
    <3> QED BY <3>1, <3>2
  <2>3. /\ \/ journalCounts'[b] <= Len(rows'[b])
           \/ \E op \in SettledOps(b)' : op.kind = "trim"
        /\ \A op \in SettledOps(b)' :
            /\ op.kind = "event" => op.n + 1 <= Len(rows'[b])
            /\ op.kind = "trim" => JOURNAL_CAP <= Len(rows'[b])
    BY <2>1 DEF StoredCounts
  <2> QED BY <2>2, <2>3 DEF StoredCounts, Counts
<1> QED BY <1>4, <1>5, <1>6 DEF CountsRight

\* An event of b is emitted, and it is not the first of a build: its count is the
\* one the build has.
LEMMA CountsEmit ==
    ASSUME JournalCounted, JournalTyped', NEW b \in Journaled, Emit(b)
    PROVE  CountsRight(b)'
<1> DEFINE op == EventOp(b)
<1>1. JournalTypes /\ CountsTyped /\ CountsTyped' /\ b \in live /\ CountsRight(b)
  BY CountsTypes, CountsTypesNext DEF JournalCounted, JournalTyped, Emit
<1>2. LiveCounts(b)
  BY <1>1 DEF CountsRight
<1>3. /\ live' = live /\ UNCHANGED <<settledWrite, rows>> /\ Journal(b)
  BY DEF Emit
<1>4. /\ op \in Op /\ writeChain' = Append(writeChain, op) /\ emitted[b] \in Nat
      /\ emitted' = [emitted EXCEPT ![b] = emitted[b] + 1]
  BY <1>1, <1>3, JournalQueues
<1>5. op.kind = "event" /\ op.build = b /\ op.n = CountOf(b)
  BY DEF EventOp
<1>6. CountOf(b) = journalCounts[b] /\ journalCounts' = journalCounts
  <2>1. CountOf(b) = journalCounts[b]
    BY <1>2 DEF LiveCounts, CountOf, Unknown
  <2> QED BY <1>1, <1>3, <2>1 DEF Journal, JournalTypes
<1> HIDE DEF op
<1>7. /\ \A k \in OpsOf(b)' : \/ k \in OpsOf(b) /\ writeChain'[k] = writeChain[k]
                              \/ writeChain'[k] = op
      /\ Trims(b)' = Trims(b)
  BY <1>1, <1>4, <1>5, OpsAppended
<1>8. SettledOps(b)' = SettledOps(b)
  BY <1>3 DEF SettledOps
<1>9. Standing(b)' = Standing(b)
  BY <1>3, <1>7, <1>8 DEF Standing, TrimDue
<1>10. Untouched(b)'
  <2>1. emitted'[b] = emitted[b] + 1
    BY <1>1, <1>4 DEF JournalTypes
  <2> QED BY <1>4, <2>1 DEF Untouched
<1>11. LiveCounts(b)'
  <2>1. ASSUME NEW k \in OpsOf(b)'
        PROVE  /\ writeChain'[k].kind = "event" =>
                    writeChain'[k].n <= JOURNAL_CAP /\ writeChain'[k].n <= Standing(b)
               /\ writeChain'[k].kind = "trim" =>
                    writeChain'[k].n = 1 /\ JOURNAL_CAP <= Standing(b)
    <3>1. CASE k \in OpsOf(b) /\ writeChain'[k] = writeChain[k]
      BY <1>2, <3>1 DEF LiveCounts
    <3>2. CASE writeChain'[k] = op
      BY <1>2, <1>5, <1>6, <3>2, JournalAssumption DEF LiveCounts
    <3> QED BY <1>7, <3>1, <3>2
  <2> QED BY <1>2, <1>6, <1>8, <1>9, <2>1 DEF LiveCounts
<1> QED BY <1>1, <1>3, <1>10, <1>11 DEF CountsRight

\* The first event of a build finds nothing of it anywhere.
LEMMA CountsStart ==
    ASSUME JournalCounted, JournalTyped', NEW b \in Journaled, FirstEvent(b)
    PROVE  CountsRight(b)'
<1> DEFINE op == EventOp(b)
<1>1. JournalTypes /\ CountsTyped /\ CountsTyped' /\ Untouched(b)
  BY CountsTypes, CountsTypesNext DEF JournalCounted, JournalTyped, CountsRight
<1>2. /\ rows[b] = <<>> /\ journalCounts[b] = Unknown /\ OpsOf(b) = {} /\ SettledOps(b) = {}
      /\ live' = live \cup {b} /\ UNCHANGED <<settledWrite, rows>> /\ Journal(b)
  BY <1>1 DEF FirstEvent, Untouched
<1>3. /\ op \in Op /\ writeChain' = Append(writeChain, op) /\ emitted[b] \in Nat
      /\ emitted' = [emitted EXCEPT ![b] = emitted[b] + 1]
  BY <1>1, <1>2, JournalQueues
<1>4. CountOf(b) = 0
  BY <1>2 DEF CountOf
<1>5. op.kind = "event" /\ op.build = b /\ op.n = 0
  BY <1>4 DEF EventOp
<1>6. journalCounts'[b] = 0
  BY <1>1, <1>2, <1>4 DEF Journal, JournalTypes
<1> HIDE DEF op
<1>7. (\A k \in OpsOf(b)' : writeChain'[k] = op) /\ Trims(b)' = Trims(b)
  BY <1>1, <1>2, <1>3, <1>5, OpsAppended
<1>8. SettledOps(b)' = {}
  BY <1>2 DEF SettledOps
<1>9. Standing(b)' = 0
  <2>1. TrimsOf(b) = {}
    BY <1>2 DEF TrimsOf
  <2>2. Trims(b)' = 0
    BY <1>7, <2>1, FS_EmptySet DEF Trims
  <2>3. Len(rows'[b]) = 0
    BY <1>2
  <2>4. ~TrimDue(b)'
    BY <1>8 DEF TrimDue
  <2>5. Standing(b)' = 0 - 0 - 0
    BY <2>2, <2>3, <2>4 DEF Standing
  <2> QED BY <2>5
<1>10. Untouched(b)'
  <2>1. emitted'[b] = emitted[b] + 1
    BY <1>1, <1>3 DEF JournalTypes
  <2> QED BY <1>3, <2>1 DEF Untouched
<1>11. LiveCounts(b)'
  <2>1. ASSUME NEW k \in OpsOf(b)'
        PROVE  /\ writeChain'[k].kind = "event" =>
                    writeChain'[k].n <= JOURNAL_CAP /\ writeChain'[k].n <= 0
               /\ writeChain'[k].kind = "trim" =>
                    writeChain'[k].n = 1 /\ JOURNAL_CAP <= 0
    BY <1>5, <1>7, <2>1, JournalAssumption
  <2> QED BY <1>6, <1>8, <1>9, <2>1, JournalAssumption DEF LiveCounts
<1> QED BY <1>2, <1>10, <1>11 DEF CountsRight

\* A session of a stored build finds the chain drained, and the rows bound its count.
LEMMA CountsSession ==
    ASSUME JournalCounted, JournalTyped', NEW b \in Journaled, CreateSession(b)
    PROVE  CountsRight(b)'
<1> DEFINE op == EventOp(b)
<1>1. JournalTypes /\ CountsTyped /\ CountsTyped' /\ b \notin live /\ CountsRight(b)
  BY CountsTypes, CountsTypesNext DEF JournalCounted, JournalTyped, CreateSession
<1>2. /\ StoredCounts(b) /\ writeChain = <<>> /\ settledWrite = <<>>
      /\ live' = live /\ UNCHANGED <<settledWrite, rows>> /\ Journal(b)
  BY <1>1 DEF CreateSession, Settled, CountsRight
<1>3. /\ op \in Op /\ writeChain' = Append(writeChain, op) /\ emitted[b] \in Nat
      /\ emitted' = [emitted EXCEPT ![b] = emitted[b] + 1]
  BY <1>1, <1>2, JournalQueues
<1>4. OpsOf(b) = {} /\ SettledOps(b) = {} /\ SettledOps(b)' = {}
  BY <1>2 DEF OpsOf, SettledOps
<1>5. CountOf(b) <= Len(rows[b])
  BY <1>1, <1>2, <1>4 DEF StoredCounts, CountOf, CountsTyped
<1>6. op.kind = "event" /\ op.build = b /\ op.n <= Len(rows[b])
  BY <1>5 DEF EventOp
<1>7. journalCounts'[b] <= Len(rows'[b])
  BY <1>1, <1>2, <1>5 DEF Journal, JournalTypes
<1> HIDE DEF op
<1>8. \A k \in OpsOf(b)' : writeChain'[k] = op /\ k = Len(writeChain) + 1
  BY <1>1, <1>3, <1>4, <1>6, OpsAppended
<1>9. Untouched(b)'
  <2>1. emitted'[b] = emitted[b] + 1
    BY <1>1, <1>3 DEF JournalTypes
  <2> QED BY <1>3, <2>1 DEF Untouched
<1>10. StoredCounts(b)'
  <2>1. ASSUME NEW k \in OpsOf(b)'
        PROVE  /\ writeChain'[k].kind = "event" => writeChain'[k].n <= Len(rows'[b])
               /\ writeChain'[k].kind = "trim" => JOURNAL_CAP + writeChain'[k].n <= Len(rows'[b])
               /\ \A l \in OpsOf(b)' : Counts(writeChain'[l]) => l = k
    BY <1>2, <1>6, <1>8, <2>1
  <2> QED BY <1>4, <1>7, <2>1 DEF StoredCounts, Counts
<1> QED BY <1>1, <1>2, <1>9, <1>10 DEF CountsRight

\* The event of another build adds nothing to b.
LEMMA CountsOther ==
    ASSUME JournalCounted, JournalTyped', NEW b \in Journaled, NEW c \in Journaled \ {b},
           Emit(c) \/ FirstEvent(c) \/ CreateSession(c)
    PROVE  CountsRight(b)'
<1> DEFINE op == EventOp(c)
<1>1. JournalTypes
  BY DEF JournalCounted, JournalTyped
<1>2. /\ live' = live \/ live' = live \cup {c}
      /\ UNCHANGED <<settledWrite, rows>> /\ Journal(c)
  BY DEF Emit, FirstEvent, CreateSession
<1>3. /\ op \in Op /\ writeChain' = Append(writeChain, op)
      /\ emitted' = [emitted EXCEPT ![c] = emitted[c] + 1]
  BY <1>1, <1>2, JournalQueues
<1>4. op.build # b
  BY DEF EventOp
<1>5. emitted'[b] = emitted[b] /\ journalCounts'[b] = journalCounts[b] /\ rows'[b] = rows[b]
  BY <1>1, <1>2, <1>3 DEF JournalTypes, Journal
<1>6. SettledOps(b)' = SettledOps(b) /\ (b \in live' <=> b \in live)
  BY <1>2 DEF SettledOps
<1> HIDE DEF op
<1>7. /\ \A k \in OpsOf(b)' : k \in OpsOf(b) /\ writeChain'[k] = writeChain[k]
      /\ Trims(b)' = Trims(b) /\ Trims(b) \in Nat
  BY <1>1, <1>3, <1>4, OpsAppended, TrimsFinite
<1>8. \A k \in OpsOf(b)' : k \in Nat /\ k + 0 = k
  BY <1>7, OrderTypes DEF OpsOf
<1>9. \A k \in OpsOf(b)' : k + 0 \in OpsOf(b) /\ writeChain'[k] = writeChain[k + 0]
  BY <1>7, <1>8
<1>10. 0 \in Nat /\ Trims(b)' <= Trims(b)
  BY <1>7
<1> QED BY <1>5, <1>6, <1>8, <1>9, <1>10, OtherBuild

\* The rows of the build a write belongs to, and of every other one.
LEMMA WriteLengths ==
    ASSUME JournalTypes, WriteRuns
    PROVE  LET op == writeChain[1] IN
           /\ \A b \in Journaled \ {op.build} : rows'[b] = rows[b]
           /\ op.kind # "trim" => Len(rows'[op.build]) = Len(rows[op.build]) + 1
           /\ op.kind = "trim" => Len(rows'[op.build]) =
                IF op.n <= Len(rows[op.build]) THEN Len(rows[op.build]) - op.n ELSE 0
           /\ op.kind \in {"event", "trim", "note", "boot"}
<1> DEFINE op == writeChain[1]
           r == rows[op.build]
<1>1. op \in Op /\ \/ op.kind = "event" /\ rows' = [rows EXCEPT ![op.build] = Append(r, op.event)]
                   \/ op.kind \in {"note", "boot"} /\ rows' = [rows EXCEPT ![op.build] = Append(r, Notice)]
                   \/ op.kind = "trim" /\ rows' = [rows EXCEPT ![op.build] = Dropped(r, op.n)]
  BY RowsAfter
<1>2. /\ op.build \in Journaled /\ op.n \in Nat /\ op.event \in 0..MaxEvents
      /\ op.kind \in {"event", "trim", "note", "boot"}
  BY <1>1 DEF Op
<1>3. r \in Seq(0..MaxEvents)
  BY <1>2, JournalAssumption DEF JournalTypes, Events, Notice
<1>4. \A v \in 0..MaxEvents : Len(Append(r, v)) = Len(r) + 1
  BY <1>3, AppendProperties
<1>5. Len(Dropped(r, op.n)) = IF op.n <= Len(r) THEN Len(r) - op.n ELSE 0
  <2> HIDE DEF r, op
  <2> QED BY <1>2, <1>3, DroppedRows
<1>6. Notice \in 0..MaxEvents
  BY JournalAssumption DEF Notice
<1>7. PICK t : rows' = [rows EXCEPT ![op.build] = t] /\
               \/ op.kind # "trim" /\ \E v \in 0..MaxEvents : t = Append(r, v)
               \/ op.kind = "trim" /\ t = Dropped(r, op.n)
  BY <1>1, <1>2, <1>6
<1>8. rows'[op.build] = t /\ \A b \in Journaled \ {op.build} : rows'[b] = rows[b]
  BY <1>2, <1>7 DEF JournalTypes
<1>9. op.kind # "trim" => Len(t) = Len(r) + 1
  BY <1>4, <1>7
<1>10. op.kind = "trim" => Len(t) = IF op.n <= Len(r) THEN Len(r) - op.n ELSE 0
  BY <1>5, <1>7
<1> QED BY <1>2, <1>8, <1>9, <1>10

\* A write of another build.
LEMMA CountsWriteOther ==
    ASSUME JournalCounted, JournalTyped', NEW b \in Journaled, WriteRuns, writeChain[1].build # b
    PROVE  CountsRight(b)'
<1> DEFINE op == writeChain[1]
<1>1. JournalTypes
  BY DEF JournalCounted, JournalTyped
<1>2. /\ writeChain # <<>> /\ settledWrite = <<>> /\ settledWrite' = <<op>>
      /\ writeChain' = Tail(writeChain)
      /\ UNCHANGED <<emitted, live, journalCounts>>
  BY <1>1, WriteTakesHead
<1>3. rows'[b] = rows[b]
  BY <1>1, WriteLengths
<1>4. SettledOps(b)' = SettledOps(b)
  BY <1>2 DEF SettledOps
<1>5. /\ \A k \in OpsOf(b)' : /\ k \in Nat /\ k + 1 \in OpsOf(b)
                              /\ writeChain'[k] = writeChain[k + 1]
      /\ Trims(b)' = Trims(b) /\ Trims(b) \in Nat
  BY <1>1, <1>2, OpsShifted, TrimsFinite
<1>6. 1 \in Nat /\ Trims(b)' <= Trims(b)
  BY <1>5
<1> QED BY <1>2, <1>3, <1>4, <1>5, <1>6, OtherBuild

\* A write of b itself.
LEMMA CountsWrite ==
    ASSUME JournalCounted, JournalTyped', NEW b \in Journaled, WriteRuns, writeChain[1].build = b
    PROVE  CountsRight(b)'
<1> DEFINE op == writeChain[1]
<1>1. JournalTypes /\ CountsTyped /\ CountsTyped' /\ CountsRight(b)
  BY CountsTypes, CountsTypesNext DEF JournalCounted, JournalTyped
<1>2. /\ writeChain # <<>> /\ settledWrite = <<>> /\ settledWrite' = <<op>>
      /\ writeChain' = Tail(writeChain)
      /\ UNCHANGED <<emitted, live, journalCounts>>
  BY <1>1, WriteTakesHead
<1>3. /\ op \in Op /\ 1 \in OpsOf(b)
      /\ \A k \in OpsOf(b)' : /\ k \in Nat \ {0} /\ k + 1 \in OpsOf(b)
                              /\ writeChain'[k] = writeChain[k + 1]
      /\ op.kind # "trim" => Trims(b)' = Trims(b)
      /\ op.kind = "trim" => Trims(b)' = Trims(b) - 1 /\ Trims(b) \in Nat \ {0}
  BY <1>1, <1>2, OpsShifted
<1>4. SettledOps(b) = {} /\ SettledOps(b)' = {op}
  BY <1>2, <1>3 DEF SettledOps
<1>5. /\ op.kind \in {"event", "trim", "note", "boot"} /\ op.n \in Nat
      /\ op.kind # "trim" => Len(rows'[b]) = Len(rows[b]) + 1
      /\ op.kind = "trim" =>
            Len(rows'[b]) = IF op.n <= Len(rows[b]) THEN Len(rows[b]) - op.n ELSE 0
  <2>1. op.n \in Nat
    BY <1>3 DEF Op
  <2> QED BY <1>1, <2>1, WriteLengths
<1> HIDE DEF op
<1>6. PICK len \in Nat, len2 \in Nat, q \in Nat, q2 \in Nat :
        len = Len(rows[b]) /\ len2 = Len(rows'[b]) /\ q = Trims(b) /\ q2 = Trims(b)'
  BY <1>1 DEF CountsTyped
<1>7. Untouched(b)'
  BY <1>1, <1>2, <1>3 DEF CountsRight, Untouched
<1>8. ASSUME b \in live PROVE LiveCounts(b)'
  <2>1. LiveCounts(b)
    BY <1>1, <1>8 DEF CountsRight
  <2>2. ~TrimDue(b) /\ (TrimDue(b)' <=> op.kind = "event" /\ op.n + 1 > JOURNAL_CAP)
    BY <1>4 DEF TrimDue
  <2>3. PICK s \in Int, s2 \in Int :
        /\ s = Standing(b) /\ s2 = Standing(b)'
        /\ s = len - q
        /\ s2 = len2 - q2 - (IF op.kind = "event" /\ op.n + 1 > JOURNAL_CAP THEN 1 ELSE 0)
    BY <1>6, <2>2 DEF Standing
  <2>4. /\ op.kind = "event" => op.n <= JOURNAL_CAP /\ op.n <= s
        /\ op.kind = "trim" => op.n = 1 /\ JOURNAL_CAP <= s
    BY <1>3, <2>1, <2>3 DEF LiveCounts, op
  <2>5. /\ op.kind # "trim" => len2 = len + 1 /\ q2 = q
        /\ op.kind = "trim" => /\ q2 = q - 1 /\ q > 0
                               /\ len2 = IF op.n <= len THEN len - op.n ELSE 0
    BY <1>3, <1>5, <1>6
  <2>6. s <= s2
    BY <1>5, <2>3, <2>4, <2>5, JournalAssumption
  <2>7. op.kind = "event" /\ op.n < JOURNAL_CAP => op.n + 1 <= s2
    BY <1>5, <2>3, <2>4, <2>5, JournalAssumption
  <2>8. journalCounts'[b] \in 0..JOURNAL_CAP /\ journalCounts'[b] <= s2
    BY <1>2, <2>1, <2>3, <2>6 DEF LiveCounts
  <2>9. ASSUME NEW k \in OpsOf(b)'
        PROVE  /\ writeChain'[k].kind = "event" =>
                    writeChain'[k].n <= JOURNAL_CAP /\ writeChain'[k].n <= s2
               /\ writeChain'[k].kind = "trim" =>
                    writeChain'[k].n = 1 /\ JOURNAL_CAP <= s2
    <3>1. /\ writeChain'[k].n \in Nat
          /\ writeChain'[k].kind = "event" =>
                writeChain'[k].n <= JOURNAL_CAP /\ writeChain'[k].n <= s
          /\ writeChain'[k].kind = "trim" =>
                writeChain'[k].n = 1 /\ JOURNAL_CAP <= s
      BY <1>1, <1>3, <2>1, <2>3, <2>9 DEF LiveCounts, CountsTyped
    <3> QED BY <2>6, <3>1, JournalAssumption
  <2>10. /\ op.kind = "event" =>
                /\ op.n <= JOURNAL_CAP
                /\ op.n < JOURNAL_CAP => op.n + 1 <= s2
                /\ op.n = JOURNAL_CAP => JOURNAL_CAP <= s2
         /\ op.kind = "trim" => JOURNAL_CAP <= s2
    BY <1>5, <2>3, <2>4, <2>6, <2>7, JournalAssumption
  <2> QED BY <1>4, <2>3, <2>8, <2>9, <2>10 DEF LiveCounts
<1>9. ASSUME b \notin live PROVE StoredCounts(b)'
  <2>1. StoredCounts(b)
    BY <1>1, <1>9 DEF CountsRight
  <2>2. /\ op.kind = "event" => op.n <= len
        /\ op.kind = "trim" => JOURNAL_CAP + op.n <= len
        /\ \A l \in OpsOf(b) : Counts(op) /\ Counts(writeChain[l]) => l = 1
    BY <1>3, <1>6, <2>1 DEF StoredCounts, op, Counts
  <2>3. journalCounts[b] <= len /\ journalCounts[b] \in Nat \cup {Unknown}
    BY <1>1, <1>4, <1>6, <2>1 DEF StoredCounts, CountsTyped
  <2>4. /\ op.kind = "event" => op.n + 1 <= len2
        /\ op.kind = "trim" => JOURNAL_CAP <= len2
        /\ op.kind # "trim" => len2 = len + 1
    BY <1>5, <1>6, <2>2, JournalAssumption
  <2>5. journalCounts'[b] <= len2 \/ op.kind = "trim"
    BY <1>2, <2>3, <2>4 DEF Unknown
  <2>6. ASSUME NEW k \in OpsOf(b)', Counts(writeChain'[k])
        PROVE  /\ writeChain'[k].kind = "event" => writeChain'[k].n <= len2
               /\ writeChain'[k].kind = "trim" => JOURNAL_CAP + writeChain'[k].n <= len2
               /\ \A l \in OpsOf(b)' : Counts(writeChain'[l]) => l = k
               /\ ~Counts(op)
    <3>1. k \in Nat \ {0} /\ k + 1 \in OpsOf(b) /\ writeChain'[k] = writeChain[k + 1]
      BY <1>3
    <3>2. ~Counts(op)
      <4>1. k + 1 # 1
        BY <3>1
      <4> QED BY <2>2, <2>6, <3>1, <4>1
    <3>3. op.kind # "trim" /\ len2 = len + 1
      BY <2>4, <3>2 DEF Counts
    <3>4. /\ writeChain[k + 1].kind = "event" => writeChain[k + 1].n <= len
          /\ writeChain[k + 1].kind = "trim" => JOURNAL_CAP + writeChain[k + 1].n <= len
          /\ \A l \in OpsOf(b) : Counts(writeChain[l]) => l = k + 1
          /\ writeChain[k + 1].n \in Nat
      BY <1>1, <1>6, <2>1, <2>6, <3>1 DEF StoredCounts, CountsTyped
    <3>5. ASSUME NEW l \in OpsOf(b)', Counts(writeChain'[l]) PROVE l = k
      <4>1. l \in Nat /\ l + 1 \in OpsOf(b) /\ writeChain'[l] = writeChain[l + 1]
        BY <1>3
      <4>2. l + 1 = k + 1
        BY <3>4, <3>5, <4>1
      <4> QED BY <3>1, <4>1, <4>2
    <3>6. /\ writeChain'[k].kind = "event" => writeChain'[k].n <= len2
          /\ writeChain'[k].kind = "trim" => JOURNAL_CAP + writeChain'[k].n <= len2
      BY <3>1, <3>3, <3>4, JournalAssumption
    <3> QED BY <3>2, <3>5, <3>6
  <2> QED BY <1>4, <1>6, <2>4, <2>5, <2>6 DEF StoredCounts, Counts
<1> QED BY <1>2, <1>7, <1>8, <1>9 DEF CountsRight

\* What journal() makes of the counts when it resumes.
LEMMA ContinueCounts ==
    ASSUME JournalTypes, Continue
    PROVE  LET op == settledWrite[1] IN
           /\ op \in Op
           /\ \A c \in Journaled \ {op.build} : journalCounts'[c] = journalCounts[c]
           /\ op.kind = "event" /\ op.n + 1 <= JOURNAL_CAP =>
                writeChain' = writeChain /\ journalCounts'[op.build] = op.n + 1
           /\ op.kind = "event" /\ op.n + 1 > JOURNAL_CAP =>
                /\ journalCounts' = journalCounts
                /\ \E q \in Op : /\ writeChain' = Append(writeChain, q) /\ q.build = op.build
                                 /\ q.kind = "trim" /\ q.n = op.n + 1 - JOURNAL_CAP
           /\ op.kind = "trim" =>
                /\ journalCounts'[op.build] = JOURNAL_CAP
                /\ \/ writeChain' = writeChain
                   \/ \E q \in Op : /\ writeChain' = Append(writeChain, q) /\ q.build = op.build
                                    /\ q.kind = "note"
           /\ op.kind \in {"note", "boot"} => UNCHANGED <<writeChain, journalCounts>>
           /\ op.kind \in {"event", "trim", "note", "boot"}
<1> DEFINE op == settledWrite[1]
<1>1. op \in Op /\ Head(settledWrite) = op
  BY SettledOp DEF Continue
<1>2. AfterEvent(op) \/ AfterTrim(op) \/ AfterNote(op)
  BY <1>1 DEF Continue
<1>3. \/ writeChain' = writeChain
      \/ \E q \in Op : /\ writeChain' = Append(writeChain, q)
                       /\ q.build = op.build
                       /\ \/ /\ op.kind = "event" /\ op.n + 1 > JOURNAL_CAP
                             /\ q.kind = "trim" /\ q.n = op.n + 1 - JOURNAL_CAP
                          \/ op.kind = "trim" /\ q.kind = "note"
  BY ContinueQueues
<1>4. /\ op.build \in Journaled /\ op.n \in Nat /\ op.kind \in {"event", "trim", "note", "boot"}
      /\ journalCounts \in [Journaled -> Nat \cup {Unknown}] /\ Len(writeChain) \in Nat
      /\ writeChain \in Seq(Op)
  BY <1>1, OrderTypes DEF Op, JournalTypes
<1>5. \A q \in Op : Append(writeChain, q) # writeChain
  <2>1. ASSUME NEW q \in Op PROVE Append(writeChain, q) # writeChain
    <3>1. Len(Append(writeChain, q)) = Len(writeChain) + 1
      BY <1>4, OpsAppend
    <3> QED BY <1>4, <3>1
  <2> QED BY <2>1
<1> HIDE DEF op
<1>6. CASE op.kind = "event"
  <2>1. AfterEvent(op)
    BY <1>2, <1>6 DEF AfterTrim, AfterNote
  <2>2. CASE op.n + 1 > JOURNAL_CAP
    <3>1. journalCounts' = journalCounts /\ ~(op.n + 1 <= JOURNAL_CAP)
      BY <1>4, <2>1, <2>2, JournalAssumption DEF AfterEvent
    <3>2. writeChain' # writeChain
      <4>1. writeChain' = Append(writeChain, [op EXCEPT !.kind = "trim", !.n = op.n + 1 - JOURNAL_CAP])
        BY <2>1, <2>2 DEF AfterEvent, Enqueue
      <4>2. op.n + 1 - JOURNAL_CAP \in Nat
        BY <1>4, <2>2, JournalAssumption
      <4>3. [op EXCEPT !.kind = "trim", !.n = op.n + 1 - JOURNAL_CAP] \in Op
        <5>1. PICK m \in Nat : m = op.n + 1 - JOURNAL_CAP
          BY <4>2
        <5>2. [op EXCEPT !.kind = "trim", !.n = m] \in Op
          BY <1>1 DEF Op, op
        <5> QED BY <5>1, <5>2
      <4> QED BY <1>5, <4>1, <4>3
    <3> QED BY <1>1, <1>3, <1>6, <3>1, <3>2 DEF op
  <2>3. CASE ~(op.n + 1 > JOURNAL_CAP)
    <3>1. writeChain' = writeChain /\ journalCounts' = [journalCounts EXCEPT ![op.build] = op.n + 1]
      BY <2>1, <2>3 DEF AfterEvent
    <3> QED BY <1>1, <1>4, <1>6, <2>3, <3>1 DEF op
  <2> QED BY <2>2, <2>3
<1>7. CASE op.kind = "trim"
  <2>1. journalCounts' = [journalCounts EXCEPT ![op.build] = JOURNAL_CAP]
    BY <1>2, <1>7 DEF AfterEvent, AfterTrim, AfterNote
  <2> QED BY <1>1, <1>3, <1>4, <1>7, <2>1 DEF op
<1>8. CASE op.kind \in {"note", "boot"}
  <2>1. UNCHANGED <<writeChain, journalCounts>>
    BY <1>2, <1>8 DEF AfterEvent, AfterTrim, AfterNote
  <2> QED BY <1>1, <1>4, <1>8, <2>1 DEF op
<1> QED BY <1>4, <1>6, <1>7, <1>8

\* journal() resumes for another build.
LEMMA CountsContinueOther ==
    ASSUME JournalCounted, JournalTyped', NEW b \in Journaled, Continue, settledWrite[1].build # b
    PROVE  CountsRight(b)'
<1> DEFINE op == settledWrite[1]
<1>1. JournalTypes
  BY DEF JournalCounted, JournalTyped
<1>2. settledWrite # <<>> /\ settledWrite' = <<>> /\ UNCHANGED <<emitted, live, rows>>
  BY DEF Continue
<1>3. SettledOps(b) = {} /\ SettledOps(b)' = {}
  <2>1. SettledOps(b) = {}
    BY <1>1, <1>2, OneSettled
  <2>2. SettledOps(b)' = {}
    BY <1>2 DEF SettledOps
  <2> QED BY <2>1, <2>2
<1>4. journalCounts'[b] = journalCounts[b]
  BY <1>1, ContinueCounts
<1>5. \/ writeChain' = writeChain
      \/ \E q \in Op : writeChain' = Append(writeChain, q) /\ q.build # b
  BY <1>1, ContinueQueues
<1>6. /\ \A k \in OpsOf(b)' : k \in OpsOf(b) /\ writeChain'[k] = writeChain[k]
      /\ Trims(b)' = Trims(b)
  <2>1. CASE writeChain' = writeChain
    BY <2>1 DEF OpsOf, Trims, TrimsOf
  <2>2. ASSUME NEW q \in Op, writeChain' = Append(writeChain, q), q.build # b
        PROVE  /\ \A k \in OpsOf(b)' : k \in OpsOf(b) /\ writeChain'[k] = writeChain[k]
               /\ Trims(b)' = Trims(b)
    BY <1>1, <2>2, OpsAppended
  <2> QED BY <1>5, <2>1, <2>2
<1>7. \A k \in OpsOf(b)' : k \in Nat /\ k + 0 = k
  BY <1>1, <1>6, OrderTypes DEF OpsOf
<1>8. \A k \in OpsOf(b)' : k + 0 \in OpsOf(b) /\ writeChain'[k] = writeChain[k + 0]
  BY <1>6, <1>7
<1>9. 0 \in Nat /\ Trims(b)' <= Trims(b)
  BY <1>1, <1>6, TrimsFinite
<1> QED BY <1>2, <1>3, <1>4, <1>7, <1>8, <1>9, OtherBuild

\* A write throws: the chain loses its head and nothing else changes.
LEMMA CountsThrows ==
    ASSUME JournalCounted, JournalTyped', NEW b \in Journaled, WriteThrows
    PROVE  CountsRight(b)'
<1>1. JournalTypes
  BY DEF JournalCounted, JournalTyped
<1>2. /\ writeChain # <<>> /\ writeChain' = Tail(writeChain)
      /\ UNCHANGED <<emitted, live, settledWrite, rows, journalCounts>>
  BY DEF WriteThrows
<1>3. SettledOps(b)' = SettledOps(b)
  BY <1>2 DEF SettledOps
<1>4. /\ \A k \in OpsOf(b)' : /\ k \in Nat /\ k + 1 \in OpsOf(b)
                              /\ writeChain'[k] = writeChain[k + 1]
      /\ Trims(b)' = Trims(b) \/ Trims(b)' = Trims(b) - 1
  <2>1. /\ \A k \in OpsOf(b)' : /\ k \in Nat \ {0} /\ k + 1 \in OpsOf(b)
                                /\ writeChain'[k] = writeChain[k + 1]
        /\ writeChain[1].kind # "trim" \/ writeChain[1].build # b => Trims(b)' = Trims(b)
        /\ writeChain[1].kind = "trim" /\ writeChain[1].build = b => Trims(b)' = Trims(b) - 1
    BY <1>1, <1>2, OpsShifted
  <2> QED BY <2>1
<1>5. 1 \in Nat /\ Trims(b)' <= Trims(b)
  BY <1>1, <1>4, TrimsFinite
<1> QED BY <1>2, <1>3, <1>4, <1>5, OtherBuild

\* journal() resumes for b itself.
LEMMA CountsContinue ==
    ASSUME JournalCounted, JournalTyped', NEW b \in Journaled, Continue, settledWrite[1].build = b
    PROVE  CountsRight(b)'
<1> DEFINE op == settledWrite[1]
<1>1. JournalTypes /\ CountsTyped /\ CountsTyped' /\ CountsRight(b)
  BY CountsTypes, CountsTypesNext DEF JournalCounted, JournalTyped
<1>2. settledWrite # <<>> /\ settledWrite' = <<>> /\ UNCHANGED <<emitted, live, rows>>
  BY DEF Continue
<1>3. SettledOps(b) = {op} /\ SettledOps(b)' = {}
  <2>1. SettledOps(b) = {op}
    BY <1>1, <1>2, OneSettled
  <2>2. SettledOps(b)' = {}
    BY <1>2 DEF SettledOps
  <2> QED BY <2>1, <2>2
<1>4. /\ op \in Op
      /\ op.kind = "event" /\ op.n + 1 <= JOURNAL_CAP =>
            writeChain' = writeChain /\ journalCounts'[b] = op.n + 1
      /\ op.kind = "event" /\ op.n + 1 > JOURNAL_CAP =>
            /\ journalCounts' = journalCounts
            /\ \E q \in Op : /\ writeChain' = Append(writeChain, q) /\ q.build = b
                             /\ q.kind = "trim" /\ q.n = op.n + 1 - JOURNAL_CAP
      /\ op.kind = "trim" =>
            /\ journalCounts'[b] = JOURNAL_CAP
            /\ \/ writeChain' = writeChain
               \/ \E q \in Op : /\ writeChain' = Append(writeChain, q) /\ q.build = b
                                /\ q.kind = "note"
      /\ op.kind \in {"note", "boot"} => UNCHANGED <<writeChain, journalCounts>>
      /\ op.kind \in {"event", "trim", "note", "boot"}
  BY <1>1, ContinueCounts
<1>5. op.n \in Nat
  BY <1>4 DEF Op
<1> HIDE DEF op
<1>6. Untouched(b)'
  BY <1>1, <1>2, <1>3 DEF CountsRight, Untouched
<1>7. CASE op.kind = "event" /\ op.n + 1 > JOURNAL_CAP
  <2>1. PICK q \in Op : /\ writeChain' = Append(writeChain, q) /\ q.build = b
                        /\ q.kind = "trim" /\ q.n = op.n + 1 - JOURNAL_CAP
    BY <1>4, <1>7
  <2>2. journalCounts' = journalCounts
    BY <1>4, <1>7
  <2>3. /\ \A k \in OpsOf(b)' : \/ k \in OpsOf(b) /\ writeChain'[k] = writeChain[k]
                                \/ k = Len(writeChain) + 1 /\ writeChain'[k] = q
        /\ Trims(b)' = Trims(b) + 1
    BY <1>1, <2>1, OpsAppended
  <2>4. ASSUME b \in live PROVE LiveCounts(b)'
    <3>1. LiveCounts(b)
      BY <1>1, <2>4 DEF CountsRight
    <3>2. op.n = JOURNAL_CAP /\ JOURNAL_CAP <= Standing(b)
      BY <1>3, <1>5, <1>7, <3>1, JournalAssumption DEF LiveCounts
    <3>3. TrimDue(b) /\ ~TrimDue(b)'
      BY <1>3, <1>7 DEF TrimDue
    <3>4. Standing(b)' = Standing(b)
      BY <1>1, <1>2, <2>3, <3>3 DEF Standing, CountsTyped
    <3>5. q.n = 1
      BY <2>1, <3>2, JournalAssumption
    <3>6. ASSUME NEW k \in OpsOf(b)'
          PROVE  /\ writeChain'[k].kind = "event" =>
                        writeChain'[k].n <= JOURNAL_CAP /\ writeChain'[k].n <= Standing(b)
                 /\ writeChain'[k].kind = "trim" =>
                        writeChain'[k].n = 1 /\ JOURNAL_CAP <= Standing(b)
      <4>1. CASE k \in OpsOf(b) /\ writeChain'[k] = writeChain[k]
        BY <3>1, <4>1 DEF LiveCounts
      <4>2. CASE writeChain'[k] = q
        BY <2>1, <3>2, <3>5, <4>2
      <4> QED BY <2>3, <3>6, <4>1, <4>2
    <3> QED BY <1>3, <2>2, <3>1, <3>4, <3>6 DEF LiveCounts
  <2>5. ASSUME b \notin live PROVE StoredCounts(b)'
    <3>1. StoredCounts(b)
      BY <1>1, <2>5 DEF CountsRight
    <3>2. /\ op.n + 1 <= Len(rows[b]) /\ journalCounts[b] <= Len(rows[b])
          /\ \A k \in OpsOf(b) : ~Counts(writeChain[k])
      BY <1>3, <1>7, <3>1 DEF StoredCounts, Counts
    <3>3. JOURNAL_CAP + q.n <= Len(rows[b])
      BY <1>1, <1>5, <1>7, <2>1, <3>2, JournalAssumption DEF CountsTyped
    <3>4. \A k \in OpsOf(b)' : Counts(writeChain'[k]) =>
                k = Len(writeChain) + 1 /\ writeChain'[k] = q
      BY <2>3, <3>2
    <3>5. \A k \in OpsOf(b)' : Counts(writeChain'[k]) =>
                /\ writeChain'[k].kind = "event" => writeChain'[k].n <= Len(rows'[b])
                /\ writeChain'[k].kind = "trim" => JOURNAL_CAP + writeChain'[k].n <= Len(rows'[b])
                /\ \A l \in OpsOf(b)' : Counts(writeChain'[l]) => l = k
      BY <1>2, <2>1, <3>3, <3>4
    <3> QED BY <1>2, <1>3, <2>2, <3>2, <3>5 DEF StoredCounts, Counts
  <2> QED BY <1>2, <1>6, <2>4, <2>5 DEF CountsRight
<1>8. CASE ~(op.kind = "event" /\ op.n + 1 > JOURNAL_CAP)
  <2>1. \/ writeChain' = writeChain
        \/ \E q \in Op : writeChain' = Append(writeChain, q) /\ q.build = b /\ q.kind = "note"
    BY <1>4, <1>5, <1>8, JournalAssumption
  <2>2. /\ \A k \in OpsOf(b)' : \/ k \in OpsOf(b) /\ writeChain'[k] = writeChain[k]
                                \/ writeChain'[k].kind = "note"
        /\ Trims(b)' = Trims(b)
    <3>1. CASE writeChain' = writeChain
      BY <3>1 DEF OpsOf, Trims, TrimsOf
    <3>2. ASSUME NEW q \in Op, writeChain' = Append(writeChain, q), q.build = b, q.kind = "note"
          PROVE  /\ \A k \in OpsOf(b)' : \/ k \in OpsOf(b) /\ writeChain'[k] = writeChain[k]
                                         \/ writeChain'[k].kind = "note"
                 /\ Trims(b)' = Trims(b)
      BY <1>1, <3>2, OpsAppended
    <3> QED BY <2>1, <3>1, <3>2
  <2>3. /\ op.kind = "event" => op.n + 1 <= JOURNAL_CAP /\ journalCounts'[b] = op.n + 1
        /\ op.kind = "trim" => journalCounts'[b] = JOURNAL_CAP
        /\ op.kind \in {"note", "boot"} => journalCounts'[b] = journalCounts[b]
    BY <1>4, <1>5, <1>8, JournalAssumption
  <2>4. ASSUME b \in live PROVE LiveCounts(b)'
    <3>1. LiveCounts(b)
      BY <1>1, <2>4 DEF CountsRight
    <3>2. ~TrimDue(b) /\ ~TrimDue(b)'
      BY <1>3, <1>8 DEF TrimDue
    <3>3. Standing(b)' = Standing(b)
      BY <1>2, <2>2, <3>2 DEF Standing
    <3>4. journalCounts'[b] \in 0..JOURNAL_CAP /\ journalCounts'[b] <= Standing(b)
      <4>1. /\ op.kind = "event" => (op.n < JOURNAL_CAP => op.n + 1 <= Standing(b))
            /\ op.kind = "trim" => JOURNAL_CAP <= Standing(b)
            /\ journalCounts[b] \in 0..JOURNAL_CAP /\ journalCounts[b] <= Standing(b)
        BY <1>3, <3>1 DEF LiveCounts
      <4>2. op.kind = "event" => op.n < JOURNAL_CAP
        BY <1>5, <2>3, JournalAssumption
      <4> QED BY <1>4, <1>5, <2>3, <4>1, <4>2, JournalAssumption
    <3>5. ASSUME NEW k \in OpsOf(b)'
          PROVE  /\ writeChain'[k].kind = "event" =>
                        writeChain'[k].n <= JOURNAL_CAP /\ writeChain'[k].n <= Standing(b)
                 /\ writeChain'[k].kind = "trim" =>
                        writeChain'[k].n = 1 /\ JOURNAL_CAP <= Standing(b)
      BY <2>2, <3>1, <3>5 DEF LiveCounts
    <3> QED BY <1>3, <3>3, <3>4, <3>5 DEF LiveCounts
  <2>5. ASSUME b \notin live PROVE StoredCounts(b)'
    <3>1. StoredCounts(b)
      BY <1>1, <2>5 DEF CountsRight
    <3>2. journalCounts'[b] <= Len(rows'[b])
      <4>1. /\ op.kind = "event" => op.n + 1 <= Len(rows[b])
            /\ op.kind = "trim" => JOURNAL_CAP <= Len(rows[b])
            /\ journalCounts[b] <= Len(rows[b]) \/ op.kind = "trim"
        BY <1>3, <3>1 DEF StoredCounts
      <4> QED BY <1>2, <1>4, <2>3, <4>1
    <3>3. \A k \in OpsOf(b)' : Counts(writeChain'[k]) =>
                k \in OpsOf(b) /\ writeChain'[k] = writeChain[k]
      BY <2>2 DEF Counts
    <3> QED BY <1>2, <1>3, <3>1, <3>2, <3>3 DEF StoredCounts
  <2> QED BY <1>2, <1>6, <2>4, <2>5 DEF CountsRight
<1> QED BY <1>7, <1>8

\* A restart forgets every count, and what it queues counts nothing.
LEMMA CountsRestart ==
    ASSUME JournalCounted, JournalTyped', NEW b \in Journaled, Restart
    PROVE  CountsRight(b)'
<1>1. JournalTypes /\ IsFiniteSet(live) /\ CountsTyped /\ CountsRight(b)
  BY CountsTypes DEF JournalCounted, JournalTyped
<1>2. /\ live' = {} /\ settledWrite' = <<>> /\ UNCHANGED <<emitted, rows>>
      /\ journalCounts'[b] = Unknown
  BY DEF Restart
<1>3. PICK stale \in SUBSET live : writeChain' = SetToSeq({BootNote(c) : c \in stale})
  BY DEF Restart
<1>4. stale \in SUBSET Journaled /\ IsFiniteSet(stale)
  BY <1>1, FS_Subset DEF JournalTypes
<1>5. \A k \in 1..Len(writeChain') : \E c \in stale : writeChain'[k] = BootNote(c)
  <2>1. \A k \in 1..Len(writeChain') : writeChain'[k] \in {BootNote(c) : c \in stale}
    BY <1>3, <1>4, BootNotes
  <2> QED BY <2>1
<1>6. \A k \in OpsOf(b)' : ~Counts(writeChain'[k]) /\ b \in live
  <2>1. ASSUME NEW k \in OpsOf(b)' PROVE ~Counts(writeChain'[k]) /\ b \in live
    <3>1. k \in 1..Len(writeChain') /\ writeChain'[k].build = b
      BY <2>1 DEF OpsOf
    <3>2. PICK c \in stale : writeChain'[k] = BootNote(c)
      BY <1>5, <3>1
    <3>3. writeChain'[k].kind = "boot" /\ c = b
      BY <3>1, <3>2 DEF BootNote
    <3> QED BY <3>3 DEF Counts
  <2> QED BY <2>1
<1>7. SettledOps(b)' = {}
  BY <1>2 DEF SettledOps
<1>8. Untouched(b)'
  <2>1. Untouched(b)
    BY <1>1 DEF CountsRight
  <2> QED BY <1>2, <1>6, <1>7, <2>1 DEF Untouched
<1>9. journalCounts'[b] <= Len(rows'[b])
  BY <1>1, <1>2 DEF CountsTyped, Unknown
<1>10. StoredCounts(b)'
  BY <1>6, <1>7, <1>9 DEF StoredCounts, Counts
<1> QED BY <1>2, <1>8, <1>10 DEF CountsRight

\* Every step keeps every count right.
LEMMA JournalCountedStep == JournalCounted /\ [JournalNext]_journalVars => JournalCounted'
<1> SUFFICES ASSUME JournalCounted, [JournalNext]_journalVars PROVE JournalCounted'
  OBVIOUS
<1>1. JournalTyped' /\ JournalTypes
  BY JournalTypesStep DEF JournalCounted, JournalTyped
<1> SUFFICES ASSUME NEW b \in Journaled PROVE CountsRight(b)'
  BY <1>1 DEF JournalCounted
<1>2. ASSUME NEW c \in Journaled, Emit(c) \/ FirstEvent(c) \/ CreateSession(c)
      PROVE  CountsRight(b)'
  <2>1. CASE c = b
    BY <1>1, <1>2, <2>1, CountsEmit, CountsStart, CountsSession
  <2>2. CASE c # b
    BY <1>1, <1>2, <2>2, CountsOther
  <2> QED BY <2>1, <2>2
<1>3. CASE WriteRuns
  BY <1>1, <1>3, CountsWrite, CountsWriteOther
<1>4. CASE WriteThrows
  BY <1>1, <1>4, CountsThrows
<1>5. CASE Continue
  BY <1>1, <1>5, CountsContinue, CountsContinueOther
<1>6. CASE Restart
  BY <1>1, <1>6, CountsRestart
<1>7. CASE UNCHANGED journalVars
  <2>1. UNCHANGED <<emitted, live, writeChain, settledWrite, rows, journalCounts>>
    BY <1>7 DEF journalVars
  <2>2. OpsOf(b)' = OpsOf(b) /\ SettledOps(b)' = SettledOps(b)
    BY <2>1 DEF OpsOf, SettledOps
  <2>3. Trims(b)' = Trims(b)
    BY <2>1, <2>2 DEF Trims, TrimsOf
  <2>4. \A k \in OpsOf(b)' : k \in Nat /\ k + 0 = k
    BY <1>1, <2>2, OrderTypes DEF OpsOf
  <2>5. \A k \in OpsOf(b)' : k + 0 \in OpsOf(b) /\ writeChain'[k] = writeChain[k + 0]
    BY <2>1, <2>2, <2>4
  <2>6. 0 \in Nat /\ Trims(b)' <= Trims(b)
    BY <1>1, <2>3, TrimsFinite
  <2> QED BY <1>1, <2>1, <2>2, <2>4, <2>5, <2>6, OtherBuild
<1> QED BY <1>1, <1>2, <1>3, <1>4, <1>5, <1>6, <1>7 DEF JournalNext

\* The step property: only a trim takes rows, and the counts leave it the cap.
LEMMA TrimStep ==
    ASSUME JournalCounted, [JournalNext]_journalVars, NEW b \in Journaled,
           Len(rows'[b]) < Len(rows[b])
    PROVE  Len(rows'[b]) >= JOURNAL_CAP
<1> DEFINE op == writeChain[1]
<1>1. JournalTypes /\ CountsTyped /\ CountsRight(b)
  BY CountsTypes DEF JournalCounted, JournalTyped
<1>2. PICK len \in Nat, q \in Nat : len = Len(rows[b]) /\ q = Trims(b)
  BY <1>1 DEF CountsTyped
<1>3. rows'[b] # rows[b]
  BY <1>2
<1>4. WriteRuns
  BY <1>3 DEF JournalNext, Emit, FirstEvent, CreateSession, WriteThrows, Continue, Restart, journalVars
<1>5. writeChain # <<>> /\ writeChain' = Tail(writeChain)
  BY <1>1, <1>4, WriteTakesHead
<1>6. op.build = b /\ op.kind = "trim" /\ Len(rows'[b]) = IF op.n <= len THEN len - op.n ELSE 0
  BY <1>1, <1>2, <1>3, <1>4, WriteLengths
<1>7. op \in Op /\ 1 \in OpsOf(b) /\ q # 0
  BY <1>1, <1>2, <1>5, <1>6, OpsShifted
<1>8. op.n \in Nat
  BY <1>7 DEF Op
<1>9. CASE b \in live
  <2>1. op.n = 1 /\ JOURNAL_CAP <= Standing(b)
    BY <1>1, <1>6, <1>7, <1>9 DEF CountsRight, LiveCounts
  <2>2. PICK s \in Int : s = Standing(b) /\ s <= len - q
    BY <1>1, <1>2 DEF CountsTyped
  <2> QED BY <1>2, <1>6, <1>7, <2>1, <2>2, JournalAssumption
<1>10. CASE b \notin live
  <2>1. JOURNAL_CAP + op.n <= len
    BY <1>1, <1>2, <1>6, <1>7, <1>10 DEF CountsRight, StoredCounts, Counts
  <2> QED BY <1>2, <1>6, <1>8, <2>1, JournalAssumption
<1> QED BY <1>9, <1>10

\* A trim never cuts a build below the cap, whatever was queued between the event
\* whose overflow it removes and the moment it runs.
THEOREM TrimLeavesCap == JournalSpec => TrimKeepsCap
<1>1. JournalSpec => []JournalCounted
  BY JournalCountedInit, JournalCountedStep, PTL DEF JournalSpec
<1>2. JournalCounted /\ [JournalNext]_journalVars =>
        [\A b \in Journaled : Len(rows'[b]) < Len(rows[b]) => Len(rows'[b]) >= JOURNAL_CAP]_journalVars
  BY TrimStep
<1> QED BY <1>1, <1>2, PTL DEF JournalSpec, TrimKeepsCap
================================================================================
