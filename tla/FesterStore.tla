------------------------------ MODULE FesterStore ------------------------------
(***************************************************************************)
(* The builds table of the Fester service across restarts: the write chain *)
(* of store.ts, the boot sequence of index.ts (stale builds failed,        *)
(* history seeded into an empty store) and the writes of the engine.  A    *)
(* crash ends the process with its executors and its queued writes.  A hot *)
(* reload (`bun --hot`, the service's dev script) evaluates the modules    *)
(* again in the same process: a new engine with no runs boots on the same  *)
(* database while the executors of the old one go on.                      *)
(*                                                                         *)
(* The engine (FesterEngine) appears as the state of each run.  Writes are *)
(* queued in a macrotask and drained in its microtasks, so requests and    *)
(* reloads find the chain empty; a crash need not.  The old and the new    *)
(* store have a chain each, and never hold writes of the same build, so    *)
(* one sequence stands for both.  Statements that throw are left out.      *)
(***************************************************************************)
EXTENDS Integers, Sequences, FiniteSets, Functions

CONSTANTS Builds,      \* build identifiers
          SeedPlans,   \* number of builds in the seeded history
          MaxCrashes,  \* bound on crashes
          MaxReloads   \* bound on hot reloads

ASSUME StoreAssumption ==
    /\ IsFiniteSet(Builds)
    /\ SeedPlans \in Nat /\ MaxCrashes \in Nat /\ MaxReloads \in Nat

VARIABLES
    up,         \* the process runs and has booted
    issued,     \* build ids handed out so far
    run,        \* BuildRun.state of the executor of the build; "none" without one
    current,    \* builds in the runs map of the engine that serves requests
    rowState,   \* builds.state; "absent" without a row
    rowNote,    \* builds.note = 'service restarted'
    chain,      \* writes queued behind Store.writeLock
    crashes, reloads

vars == <<up, issued, run, current, rowState, rowNote, chain, crashes, reloads>>
tables == <<rowState, rowNote>>

Verdicts == {"succeeded", "failed", "cancelled"}
Write == [kind: {"create", "update"}, build: Builds, state: {"queued", "running"} \cup Verdicts]

TypeOK ==
    /\ up \in BOOLEAN
    /\ issued \subseteq Builds
    /\ run \in [Builds -> {"none", "running"} \cup Verdicts]
    /\ current \subseteq issued
    /\ rowState \in [Builds -> {"absent", "queued", "running"} \cup Verdicts]
    /\ rowNote \in [Builds -> BOOLEAN]
    /\ chain \in Seq(Write)
    /\ crashes \in 0..MaxCrashes /\ reloads \in 0..MaxReloads

Init ==
    /\ up = FALSE
    /\ issued = {}
    /\ run = [b \in Builds |-> "none"]
    /\ current = {}
    /\ rowState = [b \in Builds |-> "absent"]
    /\ rowNote = [b \in Builds |-> FALSE]
    /\ chain = <<>>
    /\ crashes = 0 /\ reloads = 0

-----------------------------------------------------------------------------
Serving == up /\ chain = <<>>

createBuild(b, s) == [kind |-> "create", build |-> b, state |-> s]
updateBuild(b, s) == [kind |-> "update", build |-> b, state |-> s]

\* Mutant: the row is updated before it is created.
StartWritesSwapped(b) == <<updateBuild(b, "running"), createBuild(b, "queued")>>
StartWrites(b) == <<createBuild(b, "queued"), updateBuild(b, "running")>>

StartBuild(b) ==
    /\ Serving
    /\ b \notin issued
    /\ issued' = issued \cup {b}
    /\ run' = [run EXCEPT ![b] = "running"]
    /\ current' = current \cup {b}
    /\ chain' = chain \o StartWrites(b)
    /\ UNCHANGED <<up, tables, crashes, reloads>>

\* The executor of b ends, of the serving engine or of one a reload replaced.
FinishRun(b) ==
    /\ Serving
    /\ run[b] = "running"
    /\ \E v \in Verdicts :
        /\ run' = [run EXCEPT ![b] = v]
        /\ chain' = Append(chain, updateBuild(b, v))
    /\ UNCHANGED <<up, issued, current, tables, crashes, reloads>>

Apply(w) ==
    \/ /\ w.kind = "create"                       \* INSERT OR REPLACE
       /\ rowState' = [rowState EXCEPT ![w.build] = w.state]
       /\ rowNote' = [rowNote EXCEPT ![w.build] = FALSE]
    \/ /\ w.kind = "update"                       \* no row, no effect
       /\ rowState' = [rowState EXCEPT ![w.build] = IF @ = "absent" THEN @ ELSE w.state]
       /\ UNCHANGED rowNote

RunWrite ==
    /\ up /\ chain # <<>>
    /\ Apply(Head(chain))
    /\ chain' = Tail(chain)
    /\ UNCHANGED <<up, issued, run, current, crashes, reloads>>

-----------------------------------------------------------------------------
(* Boot, crash and hot reload *)

StaleAll == {b \in Builds : rowState[b] # "absent"}             \* mutant: no WHERE clause
StaleNone == {}                                                 \* mutant: no boot fix
Stale == {b \in Builds : rowState[b] \in {"queued", "running"}}

markStaleRunningFailed ==
    /\ rowState' = [b \in Builds |-> IF b \in Stale THEN "failed" ELSE rowState[b]]
    /\ rowNote' = [b \in Builds |-> b \in Stale \/ rowNote[b]]

\* The writes of each seeded build: its row, then its outcome.
SeedWrites(ids, outcome) == [i \in 1..(2 * SeedPlans) |->
    LET k == (i + 1) \div 2 IN
        IF i % 2 = 1 THEN createBuild(ids[k], "queued") ELSE updateBuild(ids[k], outcome[k])]

\* An empty builds table gets a history of fresh ids through the chain.
seedHistory ==
    \/ /\ \E b \in Builds : rowState[b] # "absent"
       /\ UNCHANGED issued
       /\ chain' = <<>>
    \/ /\ \A b \in Builds : rowState[b] = "absent"
       /\ \E ids \in [1..SeedPlans -> Builds \ issued], outcome \in [1..SeedPlans -> Verdicts] :
            /\ IsInjective(ids)
            /\ issued' = issued \cup {ids[k] : k \in 1..SeedPlans}
            /\ chain' = SeedWrites(ids, outcome)

Boot ==
    /\ ~up
    /\ up' = TRUE
    /\ markStaleRunningFailed
    /\ seedHistory
    /\ UNCHANGED <<run, current, crashes, reloads>>

Crash ==
    /\ up
    /\ crashes < MaxCrashes
    /\ crashes' = crashes + 1
    /\ up' = FALSE
    /\ run' = [b \in Builds |-> "none"]
    /\ current' = {} /\ chain' = <<>>
    /\ UNCHANGED <<issued, tables, reloads>>

HotReload ==
    /\ Serving
    /\ reloads < MaxReloads
    /\ reloads' = reloads + 1
    /\ current' = {}
    /\ markStaleRunningFailed
    /\ seedHistory
    /\ UNCHANGED <<up, run, crashes>>

Next ==
    \/ \E b \in Builds : StartBuild(b) \/ FinishRun(b)
    \/ RunWrite \/ Boot \/ Crash \/ HotReload

\* The process manager starts the service again and microtasks drain.  A build
\* need not end (one that is left paused does not), and clients need not do
\* anything.
Spec == Init /\ [][Next]_vars /\ WF_vars(RunWrite) /\ WF_vars(Boot)

-----------------------------------------------------------------------------
(* Properties *)

\* While the service serves requests, the row of a build its engine knows
\* says what the engine says: the API may answer from either.
RowTracksRun == Serving => \A b \in current : rowState[b] = run[b]

\* A row that carries a verdict keeps it, over crashes and reboots too; only
\* the executor of a build that a hot reload failed in its lifetime replaces it.
VerdictKept == [][\A b \in Builds :
    rowState[b] \in Verdicts /\ rowState'[b] # rowState[b]
        => reloads > 0 /\ rowNote[b] /\ rowState'[b] = run[b]]_vars

\* A row that says queued or running while no executor runs its build (it ended
\* with its verdict still in the chain, a crash took it, or it is a seeded one)
\* gets a verdict: from the queued write, or from the next boot when the crash
\* took that as well.
RowSettles == \A b \in Builds :
    rowState[b] \in {"queued", "running"} /\ run[b] # "running" ~> rowState[b] \in Verdicts
================================================================================
