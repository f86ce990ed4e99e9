-------------------------- MODULE ImageBuilderProofs --------------------------
(* Theorems about ImageBuilder for every set of builds and of profiles and    *)
(* any number of restarts.                                                    *)
EXTENDS ImageBuilder, TLAPS

\* Where a request stands fixes what its process and its row can be.
RequestOK(b) ==
    /\ pc[b] \in {"idle", "found", "refused"} => row[b] = "absent"
    /\ pc[b] \in {"idle", "found", "refused", "prepare"} => child[b] = None /\ code[b] = Null
    /\ pc[b] = "waiting" => child[b] # None
    /\ pc[b] \in {"scan", "update", "done", "thrown"} => child[b] # "running"
    /\ pc[b] = "thrown" => child[b] = None \/ row[b] = "absent"
    /\ pc[b] = "done" => row[b] # "running"
    /\ row[b] \in Verdicts => pc[b] = "done"
    /\ pc[b] = "lost" => crashes > 0

\* liveProcs holds exactly the requests that wait for their process.
TrackedOK(b) == b \in live <=> pc[b] = "waiting"

VerdictOK(b) == row[b] \in Verdicts =>
    /\ row[b] = "succeeded" <=> code[b] = 0 /\ b \notin timedOut
    /\ rc[b] \in Codes /\ (rc[b] = 0 <=> code[b] = 0)

BuildOK(b) == RequestOK(b) /\ TrackedOK(b) /\ VerdictOK(b)
Inv == TypeOK /\ \A b \in Builds : BuildOK(b)

\* The initial state is of the declared types.
LEMMA TypeOKInit == Init => TypeOK
BY BuilderAssumption DEF Init, TypeOK, InProgress, Verdicts, Codes, Errno, Null, None

\* Each action keeps the declared types.
LEMMA TypeOKStep == TypeOK /\ [Next]_vars => TypeOK'
<1> SUFFICES ASSUME TypeOK, [Next]_vars PROVE TypeOK'
  OBVIOUS
<1> USE BuilderAssumption DEF TypeOK, InProgress, Verdicts, Codes, Errno, Null, None
<1>1. ASSUME NEW b \in Builds, NEW p \in Profiles, FindProfile(b, p) PROVE TypeOK'
  BY <1>1 DEF FindProfile, Goto, process, deletion
<1>2. ASSUME NEW b \in Builds, Refuse(b) \/ PrepareThrows(b) \/ Close(b) PROVE TypeOK'
  BY <1>2 DEF Refuse, PrepareThrows, Close, Goto, table, process, deletion
<1>3. ASSUME NEW b \in Builds, CreateRow(b) PROVE TypeOK'
  BY <1>3 DEF CreateRow, Goto, process, deletion
<1>4. ASSUME NEW b \in Builds, Spawn(b) \/ SpawnFails(b) PROVE TypeOK'
  BY <1>4 DEF Spawn, SpawnFails, Goto, table, deletion
<1>5. ASSUME NEW b \in Builds, RecordArtifacts(b) PROVE TypeOK'
  BY <1>5 DEF RecordArtifacts, Goto, process, deletion
<1>6. ASSUME NEW b \in Builds, RecordOutcome(b) PROVE TypeOK'
  BY <1>6 DEF RecordOutcome, OutcomeState, OutcomeRc, Goto, process, deletion
<1>7. ASSUME NEW b \in Builds, Exit(b) \/ PipesClose(b) \/ Watchdog(b) \/ Cancel(b) PROVE TypeOK'
  BY <1>7 DEF Exit, PipesClose, Watchdog, Cancel, table, deletion
<1>8. ASSUME NEW b \in Builds, ClearArtifacts(b) PROVE TypeOK'
  BY <1>8 DEF ClearArtifacts, process, deletion
<1>9. ASSUME NEW p \in Profiles, CreateProfile(p) \/ DropProfile(p) PROVE TypeOK'
  BY <1>9 DEF CreateProfile, DropProfile, table, process
<1>10. ASSUME NEW p \in Profiles, DeleteProfile(p) PROVE TypeOK'
  BY <1>10 DEF DeleteProfile, RowsOf, table, process
<1>11. ASSUME NEW p \in Profiles, DeleteArtifacts(p) PROVE TypeOK'
  BY <1>11 DEF DeleteArtifacts, process
<1>12. ASSUME NEW p \in Profiles, DeleteRows(p) PROVE TypeOK'
  BY <1>12 DEF DeleteRows, RowsOf, process
<1>13. CASE Crash
  BY <1>13 DEF Crash, table, process
<1>14. CASE UNCHANGED vars
  BY <1>14 DEF vars, table, process, deletion
<1> QED
  BY <1>1, <1>2, <1>3, <1>4, <1>5, <1>6, <1>7, <1>8, <1>9, <1>10, <1>11, <1>12, <1>13, <1>14
  DEF Next, Continue

\* The types of the build table, the processes and the requests
\* (builder.ts) hold for every number of builds and profiles.
THEOREM BuilderTypes == Spec => []TypeOK
<1>1. Init => TypeOK
  BY TypeOKInit
<1>2. TypeOK /\ [Next]_vars => TypeOK'
  BY TypeOKStep
<1> QED
  BY <1>1, <1>2, PTL DEF Spec

-----------------------------------------------------------------------------
\* What BuildOK(b) reads.
Same(b) ==
    /\ pc'[b] = pc[b] /\ row'[b] = row[b] /\ rc'[b] = rc[b]
    /\ child'[b] = child[b] /\ code'[b] = code[b]
    /\ (b \in timedOut') = (b \in timedOut)
    /\ (b \in live') = (b \in live)
    /\ crashes' = crashes

\* A step that changes none of it keeps BuildOK(b).
LEMMA SameOK == ASSUME NEW b, BuildOK(b), Same(b) PROVE BuildOK(b)'
BY DEF Same, BuildOK, RequestOK, TrackedOK, VerdictOK, Verdicts, Codes, Errno

\* A step of one build leaves the others alone.
LEMMA OthersSame ==
    ASSUME TypeOK, NEW b \in Builds, NEW c \in Builds, c # b,
           \/ \E p \in Profiles : FindProfile(b, p)
           \/ Continue(b) \/ Exit(b) \/ PipesClose(b) \/ Watchdog(b) \/ Cancel(b) \/ ClearArtifacts(b)
    PROVE  Same(c)
BY DEF Same, TypeOK, FindProfile, Continue, Refuse, CreateRow, PrepareThrows, Spawn, SpawnFails, Close,
       RecordArtifacts, RecordOutcome, Exit, PipesClose, Watchdog, Cancel, ClearArtifacts, Goto, table, process, deletion

\* Each step of a build takes it from one coherent place to another.
LEMMA OwnStep ==
    ASSUME TypeOK, NEW b \in Builds, BuildOK(b),
           \/ \E p \in Profiles : FindProfile(b, p)
           \/ Continue(b) \/ Exit(b) \/ PipesClose(b) \/ Watchdog(b) \/ Cancel(b) \/ ClearArtifacts(b)
    PROVE  BuildOK(b)'
<1> USE DEF TypeOK, BuildOK, RequestOK, TrackedOK, VerdictOK, Goto, InProgress, Verdicts, Codes, Errno, Null, None
<1>1. CASE \E p \in Profiles : FindProfile(b, p)
  BY <1>1 DEF FindProfile, process, deletion
<1>2. CASE Refuse(b) \/ PrepareThrows(b)
  BY <1>2 DEF Refuse, PrepareThrows, table, process, deletion
<1>3. CASE CreateRow(b)
  BY <1>3 DEF CreateRow, process, deletion
<1>4. CASE Spawn(b)
  BY <1>4 DEF Spawn, table, deletion
<1>5. CASE SpawnFails(b)
  BY <1>5 DEF SpawnFails, table, deletion
<1>6. CASE Close(b)
  BY <1>6 DEF Close, table, process, deletion
<1>7. CASE RecordArtifacts(b)
  BY <1>7 DEF RecordArtifacts, process, deletion
<1>8. CASE RecordOutcome(b)
  BY <1>8 DEF RecordOutcome, OutcomeState, OutcomeRc, process, deletion
<1>9. CASE Exit(b)
  BY <1>9 DEF Exit, table, deletion
<1>10. CASE PipesClose(b) \/ Watchdog(b) \/ Cancel(b)
  BY <1>10 DEF PipesClose, Watchdog, Cancel, table, deletion
<1>11. CASE ClearArtifacts(b)
  BY <1>11 DEF ClearArtifacts, process, deletion
<1> QED
  BY <1>1, <1>2, <1>3, <1>4, <1>5, <1>6, <1>7, <1>8, <1>9, <1>10, <1>11 DEF Continue

\* Deleting rows and restarting touch many builds at once.
LEMMA DeleteRowsOK ==
    ASSUME TypeOK, NEW p \in Profiles, NEW b \in Builds, BuildOK(b), DeleteRows(p)
    PROVE  BuildOK(b)'
BY DEF DeleteRows, RowsOf, process, TypeOK, BuildOK, RequestOK, TrackedOK, VerdictOK, Verdicts, Codes, Errno, Null, None

\* A restart turns every request in progress into a lost one.
LEMMA CrashOK ==
    ASSUME TypeOK, NEW b \in Builds, BuildOK(b), Crash
    PROVE  BuildOK(b)'
BY BuilderAssumption
   DEF Crash, table, process, TypeOK, BuildOK, RequestOK, TrackedOK, VerdictOK, InProgress, Verdicts, Codes, Errno, Null, None

\* Before the first request every build is coherent.
LEMMA InvInit == Init => Inv
BY TypeOKInit DEF Init, Inv, BuildOK, RequestOK, TrackedOK, VerdictOK, Verdicts, None

\* Every action keeps every build coherent.
LEMMA InvStep == Inv /\ [Next]_vars => Inv'
<1> SUFFICES ASSUME Inv, [Next]_vars PROVE Inv'
  OBVIOUS
<1>1. TypeOK /\ TypeOK'
  BY TypeOKStep DEF Inv
<1>2. ASSUME NEW b \in Builds PROVE BuildOK(b)'
  <2>1. BuildOK(b)
    BY DEF Inv
  <2>2. ASSUME NEW c \in Builds,
               \/ \E p \in Profiles : FindProfile(c, p)
               \/ Continue(c) \/ Exit(c) \/ PipesClose(c) \/ Watchdog(c) \/ Cancel(c) \/ ClearArtifacts(c)
        PROVE  BuildOK(b)'
    <3>1. CASE c = b
      BY <1>1, <2>1, <2>2, <3>1, OwnStep
    <3>2. CASE c # b
      BY <1>1, <2>1, <2>2, <3>2, OthersSame, SameOK
    <3> QED
      BY <3>1, <3>2
  <2>3. ASSUME NEW p \in Profiles, CreateProfile(p) \/ DeleteProfile(p) \/ DeleteArtifacts(p) \/ DropProfile(p)
        PROVE  BuildOK(b)'
    <3>1. Same(b)
      BY <2>3 DEF Same, CreateProfile, DeleteProfile, DeleteArtifacts, DropProfile, table, process
    <3> QED
      BY <2>1, <3>1, SameOK
  <2>4. ASSUME NEW p \in Profiles, DeleteRows(p) PROVE BuildOK(b)'
    BY <1>1, <2>1, <2>4, DeleteRowsOK
  <2>5. CASE Crash
    BY <1>1, <2>1, <2>5, CrashOK
  <2>6. CASE UNCHANGED vars
    <3>1. Same(b)
      BY <2>6 DEF Same, vars, table, process, deletion
    <3> QED
      BY <2>1, <3>1, SameOK
  <2> QED
    BY <2>2, <2>3, <2>4, <2>5, <2>6 DEF Next
<1> QED
  BY <1>1, <1>2 DEF Inv

\* The inductive invariant of the image builder (builder.ts) always holds.
THEOREM BuilderInvariance == Spec => []Inv
<1>1. Init => Inv
  BY InvInit
<1>2. Inv /\ [Next]_vars => Inv'
  BY InvStep
<1> QED
  BY <1>1, <1>2, PTL DEF Spec

-----------------------------------------------------------------------------
\* A row with a verdict (builder.ts:383) describes a process that has
\* ended, succeeded exactly when it exited with 0 before the watchdog fired.
THEOREM OutcomesDescribeProcesses == Spec => []VerdictSound
<1>1. Inv => VerdictSound
  BY DEF Inv, BuildOK, RequestOK, VerdictOK, VerdictSound
<1> QED
  BY <1>1, BuilderInvariance, PTL

\* A running backend is in liveProcs, so that cancel (builder.ts:418)
\* reaches it, unless its server restarted.
THEOREM LiveBackendsCancellable == Spec => []Cancellable
<1>1. Inv => Cancellable
  BY DEF Inv, TypeOK, BuildOK, RequestOK, TrackedOK, Cancellable, InProgress, None
<1> QED
  BY <1>1, BuilderInvariance, PTL

\* A row left running belongs to a request in progress, to one that
\* threw before it had a process, or to one a restart lost (builder.ts:369).
THEOREM RunningRowsAccounted == Spec => []RunningRowExplained
<1>1. Inv => RunningRowExplained
  BY DEF Inv, TypeOK, BuildOK, RequestOK, RunningRowExplained, InProgress
<1> QED
  BY <1>1, BuilderInvariance, PTL
================================================================================
