# SysDeck verification project

TLA+ models of the stateful core of SysDeck, model-checked with TLC and, for
the larger part, proved with TLAPS. SysDeck is a Linux operations console: one
Next.js process (`web/`) with a SQLite store and thirty-one panels over a bridge
layer that reads and changes the host, and a sidecar service, Fester
(`web/mini-services/fester/`), that runs build graphs. Most of the repository
parses command output; what it *keeps* and *coordinates* is a small part, and
that part is modelled here.

All paths below are relative to the repository; `fester/` stands for
`web/mini-services/fester/`, `bridge/` for `web/src/lib/sysdeck/bridge/`, and
`festerPanel.tsx` for the file of that name in
`web/src/components/sysdeck/panels/`.

## 1. Inventory

### 1.1 Parts that keep state over time

| Part | State | Operations | What is hard |
|---|---|---|---|
| Build engine, `fester/engine.ts`, `targets.ts` | runs map (`BuildRun`, `ActionNode`), gate waiters, step tickets and passes, the CAS, `active_jobs` of nodes | `startBuild`, `cancelBuild`, `debuggerCommand` (pause, resume, step), `executeRun`, `executeAction`, `gate` | many actions of many builds suspended at sleeps and gates while calls arrive; retries; cancel between any two awaits; slots returned on six paths |
| Event journal, `fester/index.ts` `journal()` | row counts per build, cap notes, rows of `events` | append, count, trim, note | counts read before an await and written after it; a statement that throws in the middle of the chain |
| Autopsy, `fester/autopsy.ts` | none of its own: the engine's actions, or the events | `failureAutopsy`, `reconstructActions` | after a restart the DAG is rebuilt from events alone |
| Store and boot, `fester/store.ts`, `seed.ts` | tables `builds`, `sessions`; the write chain | create, update, `markStaleRunningFailed`, `seedHistory` | crash between a state change and its write; a hot reload that is not a crash |
| Loops, `fester/clock.ts` | supervised loops, their last tick | `ensureLoop`, `sleep`, `bindLoop` | a loop taken for dead that is only late; one that a reload kills |
| WebSocket hub and endpoints, `fester/index.ts`, `api.ts`, `events.ts` | sockets and their subscriptions | subscribe, broadcast, heartbeat, builds, timeline | a subscription forgotten with its socket |
| Build console, `festerPanel.tsx` | stream buffer, subscription, polled list, DAG of the selected build | `useFesterStream`, `useFesterPoll`, selection, folding of events over a timeline | three channels whose answers interleave; a buffer whose positions move; drops and failed polls |
| Nodes and scheduler, `fester/nodes.ts`, `scheduler.ts` | node load, instability, `active_jobs` | drift, score | floating-point, random |
| Read cache, `bridge/shared.ts` | settled values with expiry, probes in flight | `cached`, `invalidateCache` | a probe that overlaps an invalidation; expiry; the FIFO bound |
| Session key, `session.ts` and its reader in `fester/index.ts` | one row of `SdKv`, a 60 s cache per process | `sessionSecret`, `readSharedSecret` | concurrent creation over three awaits; restarts |
| Image builder, `bridge/builder.ts` | `SdProfile`, `SdBuild`, `SdArtifact`, live child processes | `build`, `cancel`, `create`, `copy`, `delete`, artifacts | a watchdog, a cancel and an exit that race; a profile deleted under its build; restart |
| Hardware alerts, `bridge/hwalert.ts` | device registry, alerts, policy, whitelist | `reconcile` (on each read), block, unblock, whitelist, unwhitelist, acknowledge, dismiss, `setPolicy` | concurrent reconciles over a stale scan; registration and alert in two statements |
| Firewall console, `bridge/firewall.ts` | `FwRuleset`, `FwRule`, the kernel's ruleset | create, apply, delete, addRule, deleteRule | kernel, other rows and own row written in three awaits; check, then write |
| Network security, `bridge/netsec.ts` | `NetsecBan` rows beside elements of a kernel set | ban, unban | row and kernel changed one after the other; entries that expire |
| Login, dispatcher | failure and rate buckets | login, POST /api/bridge | per-process windows |

### 1.2 Parts without such state

The other bridge modules (packages, services, containers, sensors and so on)
run a command and parse its output; the other panels render it; the Python
bridge and the Cockpit plugins do the same with one process per call;
`firewall/`, `prometheus/` and `packaging/` are declarative; `klanker-gate/` is
vendored third-party code. `PROJECT.json` lists each with the reason it is left
out.

### 1.3 How the parts interact

```
 API / debugger call ──> engine ──emit──> bus ──> broadcast (by subscription) ──> stream buffer ─┐
                           │                └──> journal() ──┐                                   │
                           └──createBuild / updateBuild ─────┴──> Store.write chain ──> SQLite   │
                                                      timeline, builds list, autopsy <──┘        │
                                                             └──fetch, poll──> build list, DAG <─┘
 boot:  markStaleRunningFailed ──> seedHistory ──> serve;   every request ──> ensureLoop
 login ──> sessionSecret() ──> SdKv <── readSharedSecret() (Fester)
 panel read ──> cached() ──> probe of the host <── mutation ──> invalidateCache()
 build panel ──> build ──> SdBuild row, child process, artifacts <── cancel, delete profile
 three polls ──> reconcile ──> HwDevice, HwAlert <── block, whitelist, acknowledge, dismiss
 firewall panel ──> FwRuleset, FwRule ──apply──> nft (one kernel) <──ban, unban── netsec panel
```

Every process is a single JavaScript event loop. A call, a timer or the exit of
a child is a macrotask; promise continuations are microtasks that drain before
the next one. Code between two awaits is atomic, and the hazards are in what
happens *at* the awaits. Every module follows that rule: an action is the code
between two awaits, with every call it makes.

## 2. Modules

| Module | Models | Role |
|---|---|---|
| `BuildLifecycle` | what the engine promises of a build | abstract specification |
| `FesterEngine` | `engine.ts`, action by action, with the action events of journaled builds | implements `BuildLifecycle` |
| `FesterAutopsy` | `failureAutopsy` as operators over the engine's actions and over its events | extends `FesterEngine` |
| `FesterJournal` | `journal()` over the write chain | |
| `FesterStore` | the builds table over crash, boot and hot reload | sees the engine as the state of each run |
| `FesterService` | the supervised loop of `clock.ts` | composes `FesterStore` with the requests |
| `FesterStream` | hub, timeline and builds endpoints with the browser's stream hook, poller, list and DAG tab | composition over three channels |
| `BridgeCache` | `cached()`, `invalidateCache()` | |
| `SessionSecret` | get-or-create of the signing key | |
| `ImageBuilder` | image builds, their processes and rows | |
| `HwAlert` | `reconcile` and the commands of `hwalert.ts` | |
| `HostFirewall` | `firewall.ts` and the bans of `netsec.ts` | composition over one kernel |
| `MC…` | TLC instances | constants and symmetry |
| `…Proofs` | theorems about `FesterEngine` (with the autopsy), `FesterService` (with the store and the journal), `FesterStream`, `BridgeCache`, `SessionSecret`, `ImageBuilder`, `HwAlert`, `HostFirewall` | |

Names follow the source. Operators commented `Mutant` are plausible bugs of the
definition below them; no specification uses them. `PROJECT.json` ("map") gives
the lines each definition stands for. *History* variables (`budget`, `orphaned`,
`mixed`, `raced`, `left`, `lost`, `late`, `outdated`) record what a property has
to know of the past; no guard reads them.

### FesterEngine, BuildLifecycle

The state is `BuildRun` and `ActionNode`, one function per field, with a program
counter per action for the place where its `executeAction` is suspended: at a
gate (`gate1`, `gate2`, runnable), parked in `gateWaiters` (`parked1`,
`parked2`), or in one of four sleeps. `Settled` (nothing is runnable) is the
guard of every macrotask, which is how microtasks drain first; the order among
runnable continuations is left open, which allows more than the runtime does.

| Code | Action |
|---|---|
| `startBuild` | `StartBuild` |
| `cancelBuild`, `releaseGates` | `CancelBuild`, `ReleaseGates` |
| `debuggerCommand` | `Pause`, `Resume`, `Step` (a head waiter or a ticket) |
| `executeRun`'s loop, `readyActions` | `LaunchWave`, `FinishRun` |
| `gate` | `PassGate`, `Park` |
| `executeAction` up to its first sleep | `Schedule`, `LeaveUnscheduled` |
| after the cache sleep | `FinishFromCache`, `AbortAfterSleep` |
| gate 2 and the attempt | `StartAttempt`, `AbortAtGate` |
| after the work sleep | `Succeed`, `Fail`, `RetryLater`, `AbortAfterSleep` |
| after backoff and stamp | `BackoffOver`, `Stamped` |
| `bus.emit` of an action's state | `Emit`, `SetState`, `EmitWalk`, inside the actions above |

The node is any node: the score depends on drifting load. The CAS key hashes
name, command and deps, hence is the action. `budget` counts granted steps, for
`StepExact`. Events are kept for the builds in `Journaled`, as `executeAction`
and the wind-down emit them.

In the lifecycle a build is absent, running or has a verdict; an action waits,
is active, settles. Gates, retries, cache, nodes and sleeps are invisible.
`ImplementsLifecycle` is the refinement, with scheduled, running and retry
mapped to active.

### FesterAutopsy

`EngineGraph` and `EventGraph` are the two graphs `failureAutopsy` starts from;
`Chain` and `BlastRadius` are its walks up and down, as least closed sets.
`AutopsyFaithful` compares them with each other in every state a restart can cut
a build in, and the blast radius with what is downstream.

### FesterJournal, FesterStore, FesterService

`FesterJournal` and `FesterStore` have the write chain of `store.ts` as a
sequence of pending statements. `FesterJournal` keeps `journal()`'s three awaits
apart (append, trim, note) with the counts it carries over them, a write that
throws, and a restart that loses the chain. `FesterStore` keeps the builds
table, the boot sequence and both ways the service starts again: a crash, which
ends the executors, and `bun --hot`, which does not. There one variable stands
for two chains (the reloaded engine's and the old one's): they never hold writes
of the same build.

`FesterService` adds the loop: every request (`Request`, `Read`), the boot
(`BootLoops`) and each reload (`ReloadLoops`, which may kill running loops and
start one that never resumes) runs `EnsureLoop`, with `Alive` its test of
`__loop` and `__last`; `TimePasses` and `Wake` are the sleeps. The globalThis
entries live as long as the process.

### FesterStream

| Code | Action |
|---|---|
| `bus.emit`, `broadcast`, the heartbeat | `Emit`, `NodeUpdate` |
| subscribe and unsubscribe at the hub | `Receive` |
| the stream hook: connect, `onopen`, `onclose`, the flush timer | `Connect`, `Open`, `Drop`, `flush` |
| `setSubscription` and the choice of a build or tab | `setSubscription` in `Select`, `Leave` |
| the timeline request and its answer | `TimelineServe`, `TimelineAnswer` (which may fail) |
| the build list | `Poll`, `PollFails`, `wsState`, `Shown` |

The n-th event of a build carries n as its state, so "newer" is "greater". The
fold over the buffer is part of `flush`, `Select` and `TimelineAnswer`, as the
effect runs after each render; eviction shifts positions (`Shift`). Sockets share
nothing in the hub, so there is one console.

The journal keeps the newest `JournalCap` events of a build (5000) and a timeline
is the oldest `Page` of them (1000, `OnPage`), so `TimelineServe` need not answer
with the newest state; that one then comes by the stream, or is `lost`. A trim
takes only what exceeds the cap (`TrimKeepsCap`); how much of it is gone when the
timeline is read is left open.

### BridgeCache

The host is a version per key that grows at any moment; a probe samples it at
one moment of its run. `Call` covers hit, join and start; `Settle` is everything
after the await with the FIFO sweep and the conditional `finally`; `Invalidate`
follows the host change it reports. `replies` records how stale each answer is.

### SessionSecret

Each call stands before its find, its upsert or its second find; workers may
restart, caches lapse at any time, and a bounded number of upserts fail for
another reason than the race.

### ImageBuilder

A request goes from its profile lookup over the row, the preparation, the child
process, the artifacts and the outcome; database statements fail where the
unique index, the foreign key or a missing row makes them fail. The exit of the
process and its `close` event are two steps, since the watchdog and `cancel` may
run in between, and `exitCode` is null for a running process and for one that a
signal ended. A signal goes to the child alone: `held` has the builds whose ended
child left its pipes to a descendant, as the `sh -c` around live-build does, and
`close` waits for them (`PipesClose`). Two builds of a profile in the same second collide on the unique
index before they change anything; requests here have ids of their own.

### HwAlert

| Code | Action |
|---|---|
| `scanAllBuses`, `getPolicy` and the whitelist read of `reconcile` | `scanAllBuses`, `getPolicy`, `ReadWhitelist` |
| `reconcile` per entry of the scan: find, then update, or create and alert | `FindDevice`, `UpdateDevice`, `CreateDevice`, `CreateThrows` (unique index), `RaiseAlert`, which go on with `NextUnit` |
| `block`, `unblock` | `FindForBlock`, `FindLive`, `writeAuthorized`, `WriteFails`, `RecordBlock` |
| `whitelist`, `unwhitelist` | `FindForList`, `MarkListed`, `ReadList`, `WriteList` |
| `acknowledge`, `dismiss` | `FindAlert`, `CloseAlert` |
| `setPolicy` | `ReadForSetPolicy`, `putPolicy` |
| the host, the process | `Plug`, `Unplug`, `Restart` |

A request is a record of what it has read: the units it scanned with their
flags, the whitelist, the policy. Those are exactly the values that go stale.

A *device* is a `deviceId`, hence a row; a *unit* is an entry of a bus. USB and
PCI make the id of vendor and product, so units of one model share it (`Id`): a
reconcile writes the row once per unit, block and unblock write the first unit
they find, and a second unit finds the row of the first. A scan keeps `MaxPCI`
PCI entries (128 in the code; `Scans`). Any place of `Requests` serves a poll or
a command, so two commands overlap too. `AtStart` is what is plugged in when the
console first starts.

### HostFirewall

| Code | Action |
|---|---|
| `create` with its row and seeded rules | `Create`, `CreateRow`, `SeedRules` |
| `addRule`: lookup, last position, insert | `AddRule`, `ReadLast`, `InsertRule` |
| `deleteRule`; `delete` with its two deletions | `DeleteRule`; `Delete`, `DeleteRules`, `DeleteRow` |
| `apply`: command, other rows, own row | `Apply`, `CommandSucceeds`, `CommandFails`, `DeactivateOthers`, `Activate` |
| `ban`, `unban` | `Ban`, `Enforce`; `Unban`, `Lift` |
| kernel timeout, process restart | `Expire`, `Restart` |

The host is one with nft. The text `apply` synthesizes starts with `flush
ruleset`, so loading it empties the set of banned addresses; a script shipped
for a template prints its usage text and changes nothing (section 4).

## 3. Runs

| Run | Instance | Checks |
|---|---|---|
| `engine_debug` | one build, two targets of two steps (waves of two), two nodes, retry budgets 0 and 2, all debugger commands, two tickets; 97,705 states | types; no lost wakeup; exact steps and retries; only cancels after a cancel; refinement of the lifecycle; builds end; stepping drives a build |
| `engine_builds` | two builds of a four-step diamond sharing cache and node, retry budget 1, with cancel, failure and their events; 668,529 states | skips; verdicts; cache; slots; the autopsy is the same from actions and from events |
| `engine_cancel_pause` | one build, one retry; **violation** | a cancelled build ends |
| `journal` | two builds, cap 2, four events each, one failing write, one restart; 293,515 states | replay order, and only the oldest dropped; trims never below the cap; every event written |
| `store` | `FesterService`: three builds, one of them seeded, one crash, one hot reload, two loops, sleeps of one to three periods; 508,129 states | rows track runs; verdicts kept; rows settle; one loop; it keeps ticking |
| `cache` | two keys over a cache of one, two callers, TTL 2, probes of up to 1, clock to 4; 291,780 states | bound; single flight; probes fresh; bounded staleness |
| `secret` | three calls in two processes, one failing upsert; 11,281 states | one key |
| `builder` | two builds of a profile, one restart; 497,742 states | verdicts describe ended processes; live backends cancellable; rows left running explained; requests answer unless their backend survives |
| `hwalert` | two storage sticks of one model and two PCI cards, of which a scan keeps one; two requests at a time, two commands or host changes, one restart; 716,142 states | one alert per device; none silent but those a restart cut; registry converges |
| `stream` | two builds of four events and one, buffer and page of 2, journal of 3, one message under way each way, one drop; 593,678 states | the hub filters by what is shown; one build per DAG; it catches up; the list recovers |
| `firewall` | three rulesets, one of them scripted, two requests, two bans of one address, three edits, one restart; 1,201,141 states | the active ruleset is loaded; rules consistent; no fabricated lift |
| `firewall_template` | the same with one request; **violation** | an applied ruleset is loaded |

**Bounds.** Each is named in its cfg. One build suffices for gates and steps,
because a build's control state is private to it; two builds are needed for the
cache and node slots, which are shared. Two waiters per wave distinguish head
and tail of `gateWaiters`; budget 2 gives a first, a middle and a last attempt.
The diamond has an action with two upstream paths, so a blast radius and a chain
are more than a list. A cap of 2 with four events makes a build overflow twice,
so a stale count meets a trimmed table. A cache of one over two keys makes every
second insertion sweep. Three builds let a request run beside a seeded row and
one from before the crash; a sleep of three periods is the first that makes a
live loop look dead. Two image builds suffice because a build shares only its
profile with another. Two overlapping requests give every stale read of
`hwalert.ts` a writer to miss, and the two kinds of device are the two cases of
its alert rule; one stick and one card are there at the start, so two operations
are two commands on them, a command beside the arrival of the second stick, or a
second card, which is one more than the scan keeps. In the stream, four events
(two tasks between two pipeline updates) overflow a buffer of two, and the
second build's one event is foreign to every subscription; one drop loses a
socket at every point. A page of two in a journal of three is the whole timeline
up to the first task, ends before the second, and begins past the first event
once the journal is trimmed. Two rulesets nft loads and a scripted one are what
an apply can find active, and two bans of one address meet in one element of the
set. One crash or reload per run reaches every "before the write, after the
write" point; two independent ones meet only the state a first one leaves, which
the boot sequence treats like any other. Where a theorem states the property
(section 5), the bounds do not matter.

`CHECK_DEADLOCK FALSE` appears where clients may simply stop calling or a bound
ends the run.

**Fairness.** Clients are never fair, except where the console itself polls. In
the engine, continuations and waves are weakly fair (microtasks drain); sleeps
are strongly fair, since calls may keep arriving and disable the macrotask for a
moment, but the event loop serves a due child exit before long. The journal and
store assume that their queued continuations run. A build need not end (one that
is left paused does not), so `RowSettles` speaks of rows whose executor has
ended or is gone with its process. The process manager restarts the service,
time passes, a sleep in a live loop ends and the console goes on polling (a loop
that a reload killed is only replaced by the next request). In the builder,
promises settle and timers fire, and nothing more: a backend need not end, not
even after a SIGINT, and a descendant need not let go of its pipes.
`BuildAnswers` names that outcome (`Survives` for ever) as the only one, beside
a restart, in which a request has no answer. In `HwAlert`, the panel polls
(`scanAllBuses`, at whatever place is free) and a request that has started goes
on; commands, host changes and restarts are not obliged. In `FesterStream`, the
heartbeat's interval, the socket's delivery, the reconnect and flush timers and
the poll are weakly fair; emitting, selecting and a timeline's answer are not.

## 4. Disagreements between the code and what it says

Two are checked as violations:

* **A pause after a cancel hangs the build** (`engine_cancel_pause`).
  `cancelBuild` releases the gates "so the wave loop can wind down", but a later
  pause parks an action in its retry backoff at gate 2, ahead of the cancel
  check. `EveryBuildEnds` is therefore conditional on not staying paused.
* **A template ruleset is shown as active and never loaded**
  (`firewall_template`). `apply()` runs the template script itself ("the REAL thing") but without
  a subcommand, for which every script prints its usage text and exits with 0.
  `ActiveIsLoaded` therefore speaks of the rulesets nft loads.

Others were met while modelling; the properties that hold are stated around them:

* *The journal outgrows its cap* (`fester/index.ts:256`): events emitted before
  the first append settles all read the same count. `TrimKeepsCap` is the other
  half, which holds.
* *A hot reload fails live builds* (`fester/store.ts:81`), and their executors
  later overwrite the verdict. `VerdictKept` has that as its only exception.
* *A read after a mutation can be stale for a TTL* (`bridge/shared.ts:112`): a
  probe in flight at the invalidation settles afterwards. `ProbedReadsFresh` and
  `BoundedStaleness` are what does hold.
* *A cancelled image build is not recorded as rc 130* (`bridge/builder.ts:127`):
  a signal death is stored as rc 1, a process that ended first as succeeded.
* *A late loop doubles for ever* (`fester/clock.ts:41`): a sleep that outlasts
  three periods makes `ensureLoop` start a second loop beside it, and each keeps
  `__last` fresh for the other. `LoopAlone` excepts it.
* *A hung live-build is not ended* (`bridge/builder.ts:162`): it is spawned as
  `sh -c 'cd … && lb config && lb build'`, and watchdog and cancel send SIGINT to
  the `sh` alone. `lb` goes on and holds the pipes, no SIGKILL follows, and the
  request waits for its `close`. `BuildAnswers` excepts it.
* *A timeline is the oldest part of a long build* (`fester/api.ts:136`,
  `store.ts:148`): of up to 5000 journaled events it has the oldest 1000, so a
  long build selected late shows an old DAG until a newer event comes.
  `DagCatchesUp` counts the newest as lost then.
* *Identical units share a row* (`bridge/hwalert.ts:133`, `187`): two sticks of
  one model are one device. Block writes the first one found, each reconcile
  writes both flags in turn, and the second one raises no alert. PCI entries past
  the 128th are not looked at (`hwalert.ts:195`). `RegistryConverges` has a row
  show one of its units, and leaves PCI devices out beyond the cap.
* *An absent element is not fine with `-e`* (`bridge/netsec.ts:157`): the flag
  echoes what was done; deleting an element that is not in the set fails, and
  `unban` answers that nothing was lifted. `Lift` has it fail.
* *A restart silences a device* (`bridge/hwalert.ts:268`): registered, but its
  alert never written. `NoSilentDevice` excepts exactly those.
* *Block without a sysfs file* (`bridge/hwalert.ts:429`) answers "registry-only
  block recorded" and records nothing.
* *Applying a ruleset lifts all bans* (`bridge/firewall.ts:239`): the
  synthesized text starts with `flush ruleset`; the ban rows stay. A ban is an
  element of a set that no rule the repository writes refers to.
* *Two bans of one address share an element*: a lift of the older one that runs
  late removes the newer one's.
* *The blast radius lists all skipped actions* (`fester/autopsy.ts:87`), also
  those below another failure. `AutopsyFaithful` is about the failed action of a
  build, of which a request injects one.

## 5. Proofs

The theorems hold for every value of the constants within the named
assumptions: finite sets of builds and actions, an acyclic dependency relation
whose requests are closed under it (`DepsAssumption`, from `stepsFor`), positive
TTL, periods and buffer sizes, a finite set of bans, model values outside their
sets.

| Theorem | Establishes |
|---|---|
| `TypeCorrect` | `TypeOK` of the engine |
| `DependencyOrder` | no action is scheduled before its dependencies are done (`DependenciesDone`) |
| `VerdictCorrect` | `VerdictSound` of the engine |
| `FailurePropagation` | `SkippedBelowFailure` |
| `CancelIsFinal` | `OnlyCancelsAfterCancel` |
| `SettledForGood` | outcomes and verdicts are final (`OutcomesFinal`) |
| `EngineImplementsLifecycle` | `ImplementsLifecycle`: the engine implements `BuildLifecycle` |
| `RetriesAreExact` | `RetriesExact` |
| `CacheIsSound` | `CacheSound` |
| `WakeupsKept` | `NoLostWakeup` |
| `SlotsAccounted` | `NodeAccounting` |
| `StepsAreExact` | `StepExact` |
| `AutopsyIsFaithful` | `AutopsyFaithful`: events and actions give the same graph, and an ended build's blast radius is the downstream of its failure |
| `JournalReplays` | `ReplayInOrder`: rows increase and miss only what is still queued or failed to be written |
| `TrimLeavesCap` | `TrimKeepsCap`: no trim takes a journal below its cap |
| `ServiceTypes`, `OneLoop`, `RowsTrackRuns`, `VerdictsKept` | types, `LoopAlone`, `RowTracksRun`, `VerdictKept` of the service |
| `StreamTypes`, `FilterFollowsFocus`, `MapOfOneBuild`, `MapCatchesUp` | types (and the buffer's cap), `SubscriptionAgrees`, `DagOfOneBuild`, `DagCatchesUp` |
| `OneProbePerKey`, `ProbeAnswersFresh`, `StalenessBound`, `CacheLimit` | `SingleFlight`, `ProbedReadsFresh`, `BoundedStaleness`, `CacheBounded` |
| `SecretTypes`, `KeyOfTheInstall`, `ProcessesAgree` | types, a stored key is never replaced (`SecretKept`), `OneSecret` |
| `BuilderTypes`, `OutcomesDescribeProcesses`, `LiveBackendsCancellable`, `RunningRowsAccounted` | types, `VerdictSound`, `Cancellable`, `RunningRowExplained` of the image builder |
| `HwTypes`, `NoAlertSpam`, `SilenceExplained` | types, `OneAlertPerDevice`, `NoSilentDevice` |
| `FilterTypes`, `ShownIsLoaded`, `RulesStayConsistent`, `LiftIsReal` | types, `ActiveIsLoaded`, `RulesConsistent`, `NoFabricatedLift` |

**Engine.** `VerdictSound` is not inductive: nothing in it says why an action
still pending has no continuation. `Inv` adds, per action, that its program
counter and its state agree (`Coherent`), that a launched action has its
dependencies done (`DepsDone`) and a skipped one a failed cause (`SkipCause`),
and per build that waiters are parked actions (`WaitersParked`) and a verdict is
the one computed from the actions (`VerdictOf`). The step proof separates
actions that move one action only (`FiberStep`) from those that move many
(start, launch, release, finish). `SkippedBelowFailure` then follows from
`DepsDone` and `SkipCause` without induction: among skipped actions with no
failure above, acyclicity gives one whose cause is not such an action; and the
actions that are done are closed under `Deps`, so no failure is upstream of one.

The other engine theorems build on `Inv`. The refinement is a step simulation:
each engine action is one lifecycle step (`FinishRun` needs `FinishOutcome`,
where acyclicity shows that nothing pending is left out of the final walk) or
leaves the mapped state alone. `RetryInv` bounds attempts at every place an
action can stand. `CacheInv` follows a cache entry to the build that produced
it, whose outcome is final (`ProductKept`). `GatesServed` says a parked action
is among the waiters and an open gate has none. `NodeAccounting` is a statement
about cardinalities: each step moves at most one action into or out of `Held(n)`
(`SlotMoves`). `StepsCounted` needs to know how many passes an action can hold
at each place of its run (`PassesAt`), because a step grants two passes at the
first gate and one at the second, and both count as one attempt.

The autopsy needs one more invariant. `RecordInv` relates the events of a build
to its actions: an action that has left `pending` is told of, the last event of
it holds its state, and an event with an outcome holds the outcome for good.
In every state the two graphs therefore agree action by action. The blast radius
is the downstream of the failure because everything skipped lies below a failed
action (`SkippedBelow`), and by `RetryInv` only the action a request injected a
failure into can fail (`SkippedDownstream`).

**Journal.** Two invariants, over the same typing. `JournalOrder` reads the rows
of a build and then its appends still in the chain as one sequence: it increases
(`RowsOrdered`, `QueueOrdered`, `RowsFirst`), and from any event in it on,
nothing emitted is missing but failed writes (`QueueWhole`, `RowsWhole`).
`ReplayInOrder` alone is not inductive: a row appended out of the chain in the
wrong order would break it. A trim takes rows from the front, which both parts
survive, and a restart loses a suffix together with its right to be replayed
(`lost`).

`JournalCounted` is about the counts that `journal()` carries across its three
awaits, and has one part per kind of build. For a build of this process
(`LiveCounts`), `Standing` is the number of rows left once every trim queued or
about to be queued has run, and no count in flight is above it: concurrent
appends can only count too little, which is why the journal can outgrow its cap
but no trim can cut into it. For a build of an earlier process (`StoredCounts`)
the count is read from the table, and at most one counted operation is in flight,
whose count the rows bear out. `Untouched` says that what no event was emitted
for is nowhere.

**Service.** `LoopInv`: a running loop implies `__loop`, and while no sleep was
late there is one, whose age is the length of its current sleep, so it counts as
alive at every request. `StoreInv` describes the write chain: it is empty while
the process is down, carries only ids that were issued, a create before its
updates and a verdict last (`CreateFirst`, `VerdictLast`), and row plus chain
end at the state of the run for every build the engine has (`WritesTrack`); a
build a reload has failed is the exception in `FailedByReload`.

**Stream.** `SubInv`: the last subscribe message sent, or the subscription if
none is under way, is the selection while the socket is online. `DagInv`: the
DAG holds nothing of any build but the one folded last.

`DagCatchesUp` compares the DAG with the newest event on the server, and what
stands between them are the socket, the unflushed and the flushed buffer, the
timeline under way and the fold. `CatchUp` has a part for each: events arrive in
the order they were emitted (`InOrder`); for a build that lost none, what has
been sent and not yet rendered ends with its newest task event, or holds no task
event at all (`OnTheWay`); the same holds of the buffer from where the timeline
will be folded on, the served timeline being the newest otherwise (`Fetched`; a
timeline whose page ends before the newest leaves the first case, or `lost`),
and from where the last fold ended, the DAG being the newest otherwise
(`Folded`). `Places` and `Phases` keep the remembered positions inside the
buffer, whose eviction shifts both, and say that a selected build is always
either fetched or folded.

**Hardware alerts.** Per device: registration happens once, by the request that
then stands before the alert, and no second request can stand there
(`DeviceOK`). **Firewall.** `ApplyInv`: outside overlapping applies, one request
at most changes flags (`OneApply`), what it activates is what it loaded
(`LoadedByIt`), and all others are off by the time it sets its own
(`OthersOff`). `BanInv` counts: each removal from the set took an element that
some add brought, so an element without a row cannot be explained by removals
that all answered. `RulesInv` holds per name until two writers meet on it.

**Cache.** `FreshInv`: a probe in `inflight` was not invalidated, so what it
sampled is at least the host version of the last invalidation; a joiner came
after the probe started. `AgeInv`: entries expire TTL after their probe ended,
which ran for at most `ProbeMax`. `OrderInv`: the Map's keys in insertion order
are a sequence no longer than `CACHE_MAX`. A settle sweeps the oldest key of a
full Map before it adds one (`SweepMakesRoom`), an invalidation filters the
sequence, which never lengthens it (`WithoutIs`), and a Map has no more keys
than places (`KeysCounted`).

**Session key.** `AgreeInv`: a stored key is never replaced, and a call that is
about to re-read after an upsert finds it, as long as no upsert failed.

**Image builder.** `Inv` ties process and row to where the request stands; a
request that threw after its process ran has lost its row.

**Only model-checked:** liveness, which the prover does not cover:
`EveryBuildEnds`, `StepsDriveBuild`, `EveryEventWritten`, `RowSettles`,
`LoopKeepsTicking`, `BuildAnswers`, `RegistryConverges`, `ListRecovers`. Every
invariant and every action property of the passing runs is the conclusion of a
theorem. Two of them needed what a repeated operation computes, for which the
library's induction theorems cannot be cited: the length of a filtered sequence
is proved by taking a least counterexample among the lengths of its prefixes
(`UpTo` in `BridgeCacheProofs`), and the fold of the DAG tab is defined by the
greatest position it applies (`LastTask`, `FoldOnly`), not step by step.

## 6. Not modelled

Wording, logging, audit rows, scores, durations and outputs; parsers and
renderers; node telemetry; the cause graph and the critical path of a build;
the sessions and node tables; package lists of image profiles; contents of
firewall rules, dry runs, backends other than nft and fail2ban; the automatic
choice of a build in the console (a user's picks only) and its replay and
debugger tabs; and the parts `PROJECT.json` lists as `not_modelled`: front ends
that run one command and parse its output hold no state of their own for a model
to get wrong, and make up most of the repository's lines. Statements of SQLite
succeed unless a constraint or an explicit failure action says otherwise.
Millisecond and second collisions of build ids are excluded (noted as a hazard).

## 7. Plan

The order follows the weight of what can go wrong. Done: the engine with its
lifecycle and autopsy, journal, store and loops, stream and build console, read
cache, session key, image builder, hardware alerts, host firewall with bans; the
proofs of section 5.

Next, in this order:

1. The cause graph of `fester/cause.ts` and `computeCriticalPath` as functions
   against reference definitions over small graphs.
2. The disabled set of `bridge/shell.ts` and the keyfile list of
   `bridge/vault.ts`, both read-modify-writes of one `SdKv` row, as one module.
3. The failure buckets of the login route over windows, users and addresses.
4. Several consoles on one hub, and the automatic choice of a build.
