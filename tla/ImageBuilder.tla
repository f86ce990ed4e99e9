----------------------------- MODULE ImageBuilder -----------------------------
(***************************************************************************)
(* The image builds of the bridge (bridge/builder.ts): the `build` command *)
(* from its profile lookup to the row that records the outcome, the child  *)
(* process it runs with its ten minute watchdog, `cancel`, the deletion of *)
(* a profile with its builds, and a restart of the web server.  One action *)
(* is the code between two awaits; each database statement is atomic, and  *)
(* fails where the schema's constraints make it fail.                      *)
(*                                                                         *)
(* A build id is <profile>-<second>.  A second build in the same second is *)
(* refused by the unique index before it changes anything, so every        *)
(* request here has an id of its own; no profile is deleted, created again *)
(* and built within one second.                                            *)
(***************************************************************************)
EXTENDS Integers, FiniteSets

CONSTANTS Builds,      \* build requests, named by their build id
          Profiles,    \* profile names
          MaxCrashes   \* bound on restarts of the web server

ASSUME BuilderAssumption == IsFiniteSet(Builds) /\ MaxCrashes \in Nat

VARIABLES
    profiles,   \* SdProfile
    pc,         \* where each build request is
    profileOf,  \* SdBuild.profile
    row,        \* SdBuild.state, "absent" without a row
    rc,         \* SdBuild.rc
    arts,       \* builds with rows in SdArtifact
    child,      \* the backend process of the build
    code,       \* its exitCode: Null while it runs and when a signal ended it
    held,       \* builds whose child has ended and left its pipes to a descendant
    killed,     \* builds whose child was sent SIGINT
    timedOut,   \* BuildOutcome.cancelled
    live,       \* keys of liveProcs
    del,        \* where the deletion of each profile is
    snap,       \* the builds it found and has not cleared yet
    crashes

table == <<row, rc, arts, profileOf>>
process == <<child, code, held, killed, timedOut>>
deletion == <<profiles, del, snap>>
vars == <<table, process, deletion, pc, live, crashes>>

None == "none"
Null == -1
Errno == -2
Codes == {0, 1, 127, 130, Errno}      \* 127 or an errno: the spawn failed
Verdicts == {"succeeded", "failed"}
InProgress == {"found", "prepare", "waiting", "scan", "update"}

TypeOK ==
    /\ profiles \subseteq Profiles
    /\ pc \in [Builds -> InProgress \cup {"idle", "refused", "done", "thrown", "lost"}]
    /\ profileOf \in [Builds -> Profiles \cup {None}]
    /\ row \in [Builds -> {"absent", "running"} \cup Verdicts]
    /\ rc \in [Builds -> Codes \cup {Null}]
    /\ arts \subseteq Builds
    /\ child \in [Builds -> {None, "running", "ended"}]
    /\ code \in [Builds -> Codes \cup {Null}]
    /\ held \subseteq Builds /\ killed \subseteq Builds /\ timedOut \subseteq Builds
    /\ live \subseteq Builds
    /\ del \in [Profiles -> {None, "artifacts", "profile"}]
    /\ snap \in [Profiles -> SUBSET Builds]
    /\ crashes \in 0..MaxCrashes

Init ==
    /\ profiles = {}
    /\ pc = [b \in Builds |-> "idle"]
    /\ profileOf = [b \in Builds |-> None]
    /\ row = [b \in Builds |-> "absent"]
    /\ rc = [b \in Builds |-> Null]
    /\ arts = {} /\ held = {} /\ killed = {} /\ timedOut = {} /\ live = {}
    /\ child = [b \in Builds |-> None]
    /\ code = [b \in Builds |-> Null]
    /\ del = [p \in Profiles |-> None]
    /\ snap = [p \in Profiles |-> {}]
    /\ crashes = 0

Goto(b, from, to) == pc[b] = from /\ pc' = [pc EXCEPT ![b] = to]

-----------------------------------------------------------------------------
(* The build command *)

FindProfile(b, p) ==
    /\ p \in profiles
    /\ Goto(b, "idle", "found")
    /\ profileOf' = [profileOf EXCEPT ![b] = p]
    /\ UNCHANGED <<row, rc, arts, process, deletion, live, crashes>>

\* which() finds no backend.
Refuse(b) ==
    /\ Goto(b, "found", "refused")
    /\ UNCHANGED <<table, process, deletion, live, crashes>>

CreateRow(b) ==
    /\ Goto(b, "found", "prepare")
    /\ row' = [row EXCEPT ![b] = "running"]
    /\ UNCHANGED <<profileOf, rc, arts, process, deletion, live, crashes>>

\* mkdir or writeFile throws: nothing undoes the row.
PrepareThrows(b) ==
    /\ Goto(b, "prepare", "thrown")
    /\ UNCHANGED <<table, process, deletion, live, crashes>>

SpawnUntracked(b) ==                                        \* mutant: no liveProcs.set
    /\ Goto(b, "prepare", "waiting")
    /\ child' = [child EXCEPT ![b] = "running"]
    /\ UNCHANGED <<table, code, held, killed, timedOut, deletion, live, crashes>>

Spawn(b) ==
    /\ Goto(b, "prepare", "waiting")
    /\ child' = [child EXCEPT ![b] = "running"]
    /\ live' = live \cup {b}
    /\ UNCHANGED <<table, code, held, killed, timedOut, deletion, crashes>>

\* The 'error' event of a process that could not be started; the 'close' event
\* behind it may replace its 127 by the errno before the row is written.
SpawnFails(b) ==
    /\ Goto(b, "prepare", "scan")
    /\ \E c \in {127, Errno} : code' = [code EXCEPT ![b] = c]
    /\ UNCHANGED <<table, child, held, killed, timedOut, deletion, live, crashes>>

\* The backend exits by itself or dies of a signal; nobody need be waiting.  A
\* signal reaches the child alone: the sh around live-build leaves its lb behind,
\* which holds the pipes.
Exit(b) ==
    /\ child[b] = "running"
    /\ child' = [child EXCEPT ![b] = "ended"]
    /\ \E c \in {0, 1, 130, Null} : code' = [code EXCEPT ![b] = c]
    /\ held' \in {held, held \cup {b}}
    /\ UNCHANGED <<table, killed, timedOut, deletion, pc, live, crashes>>

\* The last descendant that held the pipes ends.
PipesClose(b) ==
    /\ b \in held
    /\ held' = held \ {b}
    /\ UNCHANGED <<table, child, code, killed, timedOut, deletion, pc, live, crashes>>

WatchdogQuiet(b) ==                                         \* mutant: no SIGINT
    /\ pc[b] = "waiting" /\ b \notin timedOut /\ code[b] = Null
    /\ timedOut' = timedOut \cup {b}
    /\ UNCHANGED <<table, child, code, held, killed, deletion, pc, live, crashes>>

Watchdog(b) ==
    /\ pc[b] = "waiting"
    /\ b \notin timedOut
    /\ code[b] = Null
    /\ timedOut' = timedOut \cup {b}
    /\ killed' = killed \cup {b}
    /\ UNCHANGED <<table, child, code, held, deletion, pc, live, crashes>>

Cancel(b) ==
    /\ b \in live
    /\ killed' = killed \cup {b}
    /\ UNCHANGED <<table, child, code, held, timedOut, deletion, pc, live, crashes>>

\* The 'close' event: the process has ended and its pipes are closed.
Close(b) ==
    /\ child[b] = "ended" /\ b \notin held
    /\ Goto(b, "waiting", "scan")
    /\ live' = live \ {b}
    /\ UNCHANGED <<table, process, deletion, crashes>>

RecordArtifactsOrReturn(b) ==                               \* mutant: no artifacts, early return
    /\ \/ Goto(b, "scan", "done") /\ UNCHANGED arts
       \/ row[b] # "absent" /\ Goto(b, "scan", "update") /\ arts' = arts \cup {b}
       \/ row[b] = "absent" /\ Goto(b, "scan", "thrown") /\ UNCHANGED arts
    /\ UNCHANGED <<row, rc, profileOf, process, deletion, live, crashes>>

\* createMany fails on its foreign key when the row is gone.
RecordArtifacts(b) ==
    /\ \/ Goto(b, "scan", "update") /\ UNCHANGED arts       \* none found
       \/ /\ row[b] # "absent"
          /\ Goto(b, "scan", "update")
          /\ arts' = arts \cup {b}
       \/ /\ row[b] = "absent"
          /\ Goto(b, "scan", "thrown")
          /\ UNCHANGED arts
    /\ UNCHANGED <<row, rc, profileOf, process, deletion, live, crashes>>

OutcomeStateByRc(b) == IF code[b] = 0 THEN "succeeded" ELSE "failed"  \* mutant: cancelled ignored
OutcomeState(b) == IF b \notin timedOut /\ code[b] = 0 THEN "succeeded" ELSE "failed"
OutcomeRc(b) == IF code[b] = Null THEN 1 ELSE code[b]

\* The row must still be there.
RecordOutcome(b) ==
    /\ \/ /\ row[b] # "absent"
          /\ Goto(b, "update", "done")
          /\ row' = [row EXCEPT ![b] = OutcomeState(b)]
          /\ rc' = [rc EXCEPT ![b] = OutcomeRc(b)]
       \/ /\ row[b] = "absent"
          /\ Goto(b, "update", "thrown")
          /\ UNCHANGED <<row, rc>>
    /\ UNCHANGED <<arts, profileOf, process, deletion, live, crashes>>

-----------------------------------------------------------------------------
(* Profiles, artifacts, restarts *)

\* create and copy.
CreateProfile(p) ==
    /\ p \notin profiles
    /\ profiles' = profiles \cup {p}
    /\ UNCHANGED <<table, process, del, snap, pc, live, crashes>>

RowsOf(p) == {b \in Builds : row[b] # "absent" /\ profileOf[b] = p}

DeleteProfile(p) ==
    /\ p \in profiles /\ del[p] = None
    /\ del' = [del EXCEPT ![p] = "artifacts"]
    /\ snap' = [snap EXCEPT ![p] = RowsOf(p)]
    /\ UNCHANGED <<table, process, profiles, pc, live, crashes>>

DeleteArtifacts(p) ==
    /\ del[p] = "artifacts"
    /\ \E b \in snap[p] :
        /\ arts' = arts \ {b}
        /\ snap' = [snap EXCEPT ![p] = @ \ {b}]
    /\ UNCHANGED <<row, rc, profileOf, process, profiles, del, pc, live, crashes>>

\* deleteMany fails as a whole when an artifact refers to one of the rows.
DeleteRows(p) ==
    /\ del[p] = "artifacts" /\ snap[p] = {}
    /\ \/ /\ RowsOf(p) \cap arts = {}
          /\ row' = [b \in Builds |-> IF b \in RowsOf(p) THEN "absent" ELSE row[b]]
          /\ rc' = [b \in Builds |-> IF b \in RowsOf(p) THEN Null ELSE rc[b]]
          /\ del' = [del EXCEPT ![p] = "profile"]
       \/ /\ RowsOf(p) \cap arts # {}
          /\ del' = [del EXCEPT ![p] = None]
          /\ UNCHANGED <<row, rc>>
    /\ UNCHANGED <<arts, profileOf, process, profiles, snap, pc, live, crashes>>

DropProfile(p) ==
    /\ del[p] = "profile"
    /\ profiles' = profiles \ {p}
    /\ del' = [del EXCEPT ![p] = None]
    /\ UNCHANGED <<table, process, snap, pc, live, crashes>>

\* deleteArtifact, and clearArtifacts for each build it found.
ClearArtifacts(b) ==
    /\ b \in arts
    /\ arts' = arts \ {b}
    /\ UNCHANGED <<row, rc, profileOf, process, deletion, pc, live, crashes>>

\* The web server ends and starts again: its requests and its liveProcs map
\* are lost, the rows stay, the backends may go on.  Nothing repairs rows at boot.
Crash ==
    /\ crashes < MaxCrashes
    /\ crashes' = crashes + 1
    /\ pc' = [b \in Builds |-> IF pc[b] \in InProgress THEN "lost" ELSE pc[b]]
    /\ live' = {}
    /\ del' = [p \in Profiles |-> None]
    /\ snap' = [p \in Profiles |-> {}]
    /\ UNCHANGED <<table, process, profiles>>

Continue(b) ==
    \/ Refuse(b) \/ CreateRow(b) \/ PrepareThrows(b) \/ Spawn(b) \/ SpawnFails(b)
    \/ Close(b) \/ RecordArtifacts(b) \/ RecordOutcome(b)

Next ==
    \/ \E b \in Builds :
        \/ \E p \in Profiles : FindProfile(b, p)
        \/ Continue(b) \/ Exit(b) \/ PipesClose(b) \/ Watchdog(b) \/ Cancel(b) \/ ClearArtifacts(b)
    \/ \E p \in Profiles :
        \/ CreateProfile(p) \/ DeleteProfile(p) \/ DeleteArtifacts(p)
        \/ DeleteRows(p) \/ DropProfile(p)
    \/ Crash

\* Promises settle and timers fire.  A backend need not end, not even when it was
\* sent SIGINT (no SIGKILL follows), and operators are under no obligation.
Spec == Init /\ [][Next]_vars
        /\ \A b \in Builds : WF_vars(Continue(b)) /\ WF_vars(Watchdog(b))

-----------------------------------------------------------------------------
(* Properties *)

\* A row with a verdict describes a process that has ended: succeeded exactly
\* when it exited with 0 and the watchdog had not fired, with an exit code, and
\* never 0 for a process that died of a signal.
VerdictSound == \A b \in Builds : row[b] \in Verdicts =>
    /\ child[b] # "running"
    /\ row[b] = "succeeded" <=> code[b] = 0 /\ b \notin timedOut
    /\ rc[b] \in Codes /\ (rc[b] = 0 <=> code[b] = 0)

\* A running backend can be cancelled, whatever happened to its row, unless
\* its server restarted; and a cancel that is accepted finds the request waiting.
Cancellable == \A b \in Builds :
    /\ child[b] = "running" => b \in live \/ pc[b] = "lost"
    /\ b \in live => pc[b] = "waiting"

\* A row that says running belongs to a request in progress, unless the request
\* threw before it started a process, or a restart lost it.  In particular a
\* build that ran, and whose outcome could not be recorded, left no row behind.
RunningRowExplained == \A b \in Builds : row[b] = "running" =>
    \/ pc[b] \in {"prepare", "waiting", "scan", "update"}
    \/ pc[b] = "thrown" /\ child[b] = None
    \/ pc[b] = "lost" /\ crashes > 0

\* The backend outlives its SIGINT, or left a descendant on its pipes.
Survives(b) == (child[b] = "running" /\ b \in killed) \/ b \in held

\* A build that hangs is sent SIGINT, by the watchdog at the latest, and a backend
\* that is gone with its pipes is noticed: a request fails to answer only because
\* its backend survives for ever, or a restart lost it.
BuildAnswers == \A b \in Builds :
    \/ pc[b] \in InProgress ~> pc[b] \in {"refused", "done", "thrown", "lost"}
    \/ <>[]Survives(b)
================================================================================
