---------------------------- MODULE FesterEngine ----------------------------
(***************************************************************************)
(* The Fester pipeline engine (web/mini-services/fester/engine.ts): builds *)
(* are DAGs of actions executed in topological waves, with retries, a      *)
(* content-addressed cache (CAS), node job counters, cancellation and a    *)
(* pause / resume / step debugger.                                         *)
(*                                                                         *)
(* The service is one JavaScript event loop.  A call of the API or of the  *)
(* debugger, or the end of a sleep, is a macrotask; the continuations it   *)
(* makes runnable (a gate that opens, Promise.all that resolves) are       *)
(* microtasks and drain before the next macrotask: that is the guard       *)
(* Settled.  The order in which runnable continuations drain is left open. *)
(*                                                                         *)
(* Data abstracted: commands, scores, durations, outputs and event texts.  *)
(* chooseBestNode depends on drifting loads, so the chosen node is any     *)
(* node; instability feeds only that score and is left out with it.  The   *)
(* CAS key hashes name, command and deps, so it is the action itself.      *)
(***************************************************************************)
EXTENDS Integers, Sequences, FiniteSets

CONSTANTS Builds,      \* the builds that may be started
          Actions,     \* the action names of the target catalog
          Nodes,       \* the cluster nodes
          Deps,        \* [Actions -> SUBSET Actions], ActionNode.deps
          Requests,    \* the action sets a start request can expand to
          RetryBudgets,\* the retry budgets a start request can carry
          Commands,    \* the debugger commands clients send
          MaxTickets,  \* bound on the step tickets left on one build
          Journaled,   \* the builds whose events are kept
          NoAction, NoBuild, NoNode

ASSUME ConstantsAssumption ==
    /\ IsFiniteSet(Builds) /\ IsFiniteSet(Actions)
    /\ Nodes # {}
    /\ NoAction \notin Actions /\ NoBuild \notin Builds /\ NoNode \notin Nodes
    /\ RetryBudgets \subseteq Nat /\ RetryBudgets # {}
    /\ Commands \subseteq {"pause", "resume", "step"}
    /\ MaxTickets \in Nat
    /\ Journaled \subseteq Builds

\* stepsFor lists an action after its dependencies: the graph has no cycle,
\* and a target brings in the dependencies of each of its actions.
ASSUME DepsAssumption ==
    /\ Deps \in [Actions -> SUBSET Actions]
    /\ Requests \subseteq SUBSET Actions /\ Requests # {} /\ {} \notin Requests
    /\ \A R \in Requests : \A a \in R : Deps[a] \subseteq R
    /\ \A S \in SUBSET Actions : S # {} => \E a \in S : Deps[a] \cap S = {}

VARIABLES
    runState,        \* BuildRun.state; "absent" when runs has no entry
    opts,            \* what the start request asked for
    cancelRequested, paused, stepMode, stepTickets, actionPasses, gateWaiters,
    actState,        \* ActionNode.state; "none" outside the build
    node, attempt, cacheHit,
    pc,              \* where executeAction of the action stands
    activeJobs,      \* NodeState.active_jobs
    cas,             \* CAS: action -> build that produced it
    budget,          \* history: steps granted since the pause, not yet used
    events           \* what each journaled build has emitted about its actions

control == <<cancelRequested, paused, stepMode, stepTickets, actionPasses, gateWaiters>>
action  == <<actState, node, attempt, cacheHit, pc>>
vars == <<runState, opts, control, action, activeJobs, cas, budget, events>>

TOTAL_GATES == 2
Terminal == {"succeeded", "failed", "cancelled"}
Settlements == {"done", "failed", "skipped", "cancelled"}
Sleeps == {"cacheSleep", "work", "backoff", "stamp"}

RunStates == {"absent", "running"} \cup Terminal
ActStates == {"none", "pending", "scheduled", "running", "retry"} \cup Settlements
Pcs == {"idle", "gate1", "parked1", "gate2", "parked2"} \cup Sleeps
StartOptions == [actions: {{}} \cup Requests, failAction: Actions \cup {NoAction},
                 noCache: BOOLEAN, retries: RetryBudgets]
Waiter == [action: Actions, gate: 1..TOTAL_GATES]

RunTypes ==
    /\ runState \in [Builds -> RunStates]
    /\ opts \in [Builds -> StartOptions]

ControlTypes ==
    /\ cancelRequested \in [Builds -> BOOLEAN]
    /\ paused \in [Builds -> BOOLEAN]
    /\ stepMode \in [Builds -> BOOLEAN]
    /\ stepTickets \in [Builds -> Nat]
    /\ actionPasses \in [Builds -> [Actions -> Nat]]
    /\ gateWaiters \in [Builds -> Seq(Waiter)]

ActionTypes ==
    /\ actState \in [Builds -> [Actions -> ActStates]]
    /\ node \in [Builds -> [Actions -> Nodes \cup {NoNode}]]
    /\ attempt \in [Builds -> [Actions -> Nat]]
    /\ cacheHit \in [Builds -> [Actions -> BOOLEAN]]
    /\ pc \in [Builds -> [Actions -> Pcs]]

SharedTypes ==
    /\ activeJobs \in [Nodes -> Nat]
    /\ cas \in [Actions -> Builds \cup {NoBuild}]
    /\ budget \in [Builds -> Int]

\* "failed" stands for the failure event, any other state for a task_update;
\* events that name no action, cache and stamp events are left out.
Event == [action: Actions, state: ActStates]
EventTypes == events \in [Builds -> Seq(Event)]

\* The engine's state keeps its types.
TypeOK == RunTypes /\ ControlTypes /\ ActionTypes /\ SharedTypes /\ EventTypes

-----------------------------------------------------------------------------
Mine(b) == opts[b].actions
Pending(b) == {a \in Mine(b) : actState[b][a] = "pending"}

\* The executor of b runs when its wave's Promise.all has resolved (and at start).
WaveDone(b) == runState[b] = "running" /\ \A a \in Actions : pc[b][a] = "idle"

\* No continuation is runnable: the event loop takes its next macrotask.
Settled == \A b \in Builds : ~WaveDone(b) /\ \A a \in Actions : pc[b][a] \notin {"gate1", "gate2"}

\* The action holds a job slot of its node.
Holding(b, a) == pc[b][a] \in {"gate2", "parked2", "cacheSleep", "work", "backoff"}

NoPasses == [a \in Actions |-> 0]
NoOpts == [actions |-> {}, failAction |-> NoAction, noCache |-> FALSE,
           retries |-> CHOOSE r \in RetryBudgets : TRUE]

Init ==
    /\ runState = [b \in Builds |-> "absent"]
    /\ opts = [b \in Builds |-> NoOpts]
    /\ cancelRequested = [b \in Builds |-> FALSE]
    /\ paused = [b \in Builds |-> FALSE]
    /\ stepMode = [b \in Builds |-> FALSE]
    /\ stepTickets = [b \in Builds |-> 0]
    /\ actionPasses = [b \in Builds |-> NoPasses]
    /\ gateWaiters = [b \in Builds |-> <<>>]
    /\ actState = [b \in Builds |-> [a \in Actions |-> "none"]]
    /\ node = [b \in Builds |-> [a \in Actions |-> NoNode]]
    /\ attempt = [b \in Builds |-> [a \in Actions |-> 0]]
    /\ cacheHit = [b \in Builds |-> [a \in Actions |-> FALSE]]
    /\ pc = [b \in Builds |-> [a \in Actions |-> "idle"]]
    /\ activeJobs = [n \in Nodes |-> 0]
    /\ cas = [a \in Actions |-> NoBuild]
    /\ budget = [b \in Builds |-> 0]
    /\ events = [b \in Builds |-> <<>>]

-----------------------------------------------------------------------------
(* API and debugger calls *)

StartBuild(b) ==
    /\ Settled
    /\ runState[b] = "absent"
    /\ \E R \in Requests, fail \in Actions \cup {NoAction}, nc \in BOOLEAN, r \in RetryBudgets :
        /\ opts' = [opts EXCEPT ![b] = [actions |-> R, failAction |-> fail,
                                        noCache |-> nc, retries |-> r]]
        /\ actState' = [actState EXCEPT ![b] = [a \in Actions |-> IF a \in R THEN "pending" ELSE "none"]]
    /\ runState' = [runState EXCEPT ![b] = "running"]
    /\ UNCHANGED <<control, node, attempt, cacheHit, pc, activeJobs, cas, budget, events>>

WaitingActions(b) == {gateWaiters[b][i].action : i \in 1..Len(gateWaiters[b])}

\* The gate promise of a waiter resolves: its gate loop runs again.
Unpark(p) == IF p = "parked1" THEN "gate1" ELSE "gate2"

\* Mutant: the waiters are neither resolved nor dropped.
ReleaseGatesNoWake(b) ==
    /\ paused' = [paused EXCEPT ![b] = FALSE]
    /\ stepMode' = [stepMode EXCEPT ![b] = FALSE]
    /\ stepTickets' = [stepTickets EXCEPT ![b] = 0]
    /\ actionPasses' = [actionPasses EXCEPT ![b] = NoPasses]
    /\ budget' = [budget EXCEPT ![b] = 0]
    /\ UNCHANGED <<gateWaiters, pc>>

ReleaseGates(b) ==
    /\ paused' = [paused EXCEPT ![b] = FALSE]
    /\ stepMode' = [stepMode EXCEPT ![b] = FALSE]
    /\ stepTickets' = [stepTickets EXCEPT ![b] = 0]
    /\ actionPasses' = [actionPasses EXCEPT ![b] = NoPasses]
    /\ gateWaiters' = [gateWaiters EXCEPT ![b] = <<>>]
    /\ pc' = [pc EXCEPT ![b] = [a \in Actions |-> IF a \in WaitingActions(b)
                                                  THEN Unpark(pc[b][a]) ELSE pc[b][a]]]
    /\ budget' = [budget EXCEPT ![b] = 0]

CancelBuild(b) ==
    /\ Settled
    /\ runState[b] = "running"
    /\ cancelRequested' = [cancelRequested EXCEPT ![b] = TRUE]
    /\ ReleaseGates(b)
    /\ UNCHANGED <<runState, opts, actState, node, attempt, cacheHit, activeJobs, cas, events>>

\* debuggerCommand finds every build ever started: runs keeps finished builds.
Debuggable(b, command) == Settled /\ runState[b] # "absent" /\ command \in Commands

Pause(b) ==
    /\ Debuggable(b, "pause")
    /\ paused' = [paused EXCEPT ![b] = TRUE]
    /\ stepMode' = [stepMode EXCEPT ![b] = FALSE]
    /\ stepTickets' = [stepTickets EXCEPT ![b] = 0]
    /\ actionPasses' = [actionPasses EXCEPT ![b] = NoPasses]
    /\ budget' = [budget EXCEPT ![b] = 0]
    /\ UNCHANGED <<runState, opts, cancelRequested, gateWaiters, action, activeJobs, cas, events>>

Resume(b) ==
    /\ Debuggable(b, "resume")
    /\ ReleaseGates(b)
    /\ UNCHANGED <<runState, opts, cancelRequested, actState, node, attempt, cacheHit,
                   activeJobs, cas, events>>

\* Mutant: a step always grants the passes of both gates.
StepHeadBothGates(b) ==
    /\ gateWaiters[b] # <<>>
    /\ LET head == Head(gateWaiters[b]) IN
        /\ actionPasses' = [actionPasses EXCEPT ![b][head.action] = @ + TOTAL_GATES]
        /\ pc' = [pc EXCEPT ![b][head.action] = Unpark(@)]
    /\ gateWaiters' = [gateWaiters EXCEPT ![b] = Tail(@)]
    /\ UNCHANGED stepTickets

\* Mutant: the head waiter gets its passes but its promise is not resolved.
StepHeadNoResolve(b) ==
    /\ gateWaiters[b] # <<>>
    /\ LET head == Head(gateWaiters[b]) IN
        actionPasses' = [actionPasses EXCEPT ![b][head.action] = @ + TOTAL_GATES - head.gate + 1]
    /\ gateWaiters' = [gateWaiters EXCEPT ![b] = Tail(@)]
    /\ UNCHANGED <<stepTickets, pc>>

StepHead(b) ==
    /\ gateWaiters[b] # <<>>
    /\ LET head == Head(gateWaiters[b]) IN
        /\ actionPasses' = [actionPasses EXCEPT ![b][head.action] = @ + TOTAL_GATES - head.gate + 1]
        /\ pc' = [pc EXCEPT ![b][head.action] = Unpark(@)]
    /\ gateWaiters' = [gateWaiters EXCEPT ![b] = Tail(@)]
    /\ UNCHANGED stepTickets

StepTicket(b) ==
    /\ gateWaiters[b] = <<>>
    /\ stepTickets[b] < MaxTickets
    /\ stepTickets' = [stepTickets EXCEPT ![b] = @ + 1]
    /\ UNCHANGED <<actionPasses, gateWaiters, pc>>

Step(b) ==
    /\ Debuggable(b, "step")
    /\ stepMode' = [stepMode EXCEPT ![b] = TRUE]
    /\ StepHead(b) \/ StepTicket(b)
    /\ budget' = [budget EXCEPT ![b] = @ + 1]
    /\ UNCHANGED <<runState, opts, cancelRequested, paused, actState, node, attempt, cacheHit,
                   activeJobs, cas, events>>

-----------------------------------------------------------------------------
(* gate(): block while paused, unless a step lets the action through *)

GatePc(g) == IF g = 1 THEN "gate1" ELSE "gate2"

\* A ticket carries passes for the action's remaining gates.
PassGate(b, a, g) ==
    /\ pc[b][a] = GatePc(g)
    /\ UNCHANGED <<cancelRequested, paused, stepMode, gateWaiters>>
    /\ \/ /\ ~paused[b]
          /\ UNCHANGED <<stepTickets, actionPasses>>
       \/ /\ paused[b] /\ actionPasses[b][a] > 0
          /\ actionPasses' = [actionPasses EXCEPT ![b][a] = @ - 1]
          /\ UNCHANGED stepTickets
       \/ /\ paused[b] /\ actionPasses[b][a] = 0 /\ stepTickets[b] > 0
          /\ stepTickets' = [stepTickets EXCEPT ![b] = @ - 1]
          /\ actionPasses' = [actionPasses EXCEPT ![b][a] = TOTAL_GATES - g]

Park(b, a) ==
    \E g \in 1..TOTAL_GATES :
        /\ pc[b][a] = GatePc(g)
        /\ paused[b] /\ actionPasses[b][a] = 0 /\ stepTickets[b] = 0
        /\ gateWaiters' = [gateWaiters EXCEPT ![b] = Append(@, [action |-> a, gate |-> g])]
        /\ pc' = [pc EXCEPT ![b][a] = IF g = 1 THEN "parked1" ELSE "parked2"]
        /\ UNCHANGED <<runState, opts, cancelRequested, paused, stepMode, stepTickets, actionPasses,
                       actState, node, attempt, cacheHit, activeJobs, cas, budget, events>>
-----------------------------------------------------------------------------
(* executeAction, one action of the model per await of the code *)

Emit(b, q) == events' = IF b \in Journaled THEN [events EXCEPT ![b] = @ \o q] ELSE events

\* Every state executeAction sets, it emits at once.
SetState(b, a, s) ==
    /\ actState' = [actState EXCEPT ![b][a] = s]
    /\ Emit(b, <<[action |-> a, state |-> s]>>)
Goto(b, a, l) == pc' = [pc EXCEPT ![b][a] = l]
TakeSlotDown(n) == activeJobs' = [activeJobs EXCEPT ![n] = @ - 1]  \* mutant: sign slip
TakeSlot(n) == activeJobs' = [activeJobs EXCEPT ![n] = @ + 1]
ReleaseSlot(b, a) ==
    activeJobs' = [activeJobs EXCEPT ![node[b][a]] = IF @ > 0 THEN @ - 1 ELSE 0]

\* A step is spent by the attempt it lets start, or by the cache hit instead.
SpendStep(b) == budget' = [budget EXCEPT ![b] = IF paused[b] THEN @ - 1 ELSE @]

CacheUsable(b, a) == ~opts[b].noCache /\ cas[a] # NoBuild

\* Cancelled at the first gate: the action stays pending for the wind-down.
LeaveUnscheduled(b, a) ==
    /\ PassGate(b, a, 1)
    /\ cancelRequested[b]
    /\ Goto(b, a, "idle")
    /\ UNCHANGED <<runState, opts, actState, node, attempt, cacheHit, activeJobs, cas, budget, events>>

Schedule(b, a) ==
    /\ PassGate(b, a, 1)
    /\ ~cancelRequested[b]
    /\ SetState(b, a, "scheduled")
    /\ \E n \in Nodes : node' = [node EXCEPT ![b][a] = n] /\ TakeSlot(n)
    /\ IF CacheUsable(b, a)
       THEN Goto(b, a, "cacheSleep") /\ SpendStep(b) /\ UNCHANGED attempt
       ELSE Goto(b, a, "gate2") /\ attempt' = [attempt EXCEPT ![b][a] = 1] /\ UNCHANGED budget
    /\ UNCHANGED <<runState, opts, cacheHit, cas>>

\* The cancelled returns after a sleep (cache lookup or work).
AbortAfterSleep(b, a) ==
    /\ Settled
    /\ pc[b][a] \in {"cacheSleep", "work"}
    /\ cancelRequested[b]
    /\ SetState(b, a, "cancelled")
    /\ ReleaseSlot(b, a)
    /\ Goto(b, a, "idle")
    /\ UNCHANGED <<runState, opts, control, node, attempt, cacheHit, cas, budget>>

AbortAtGate(b, a) ==
    /\ PassGate(b, a, 2)
    /\ cancelRequested[b]
    /\ SetState(b, a, "cancelled")
    /\ ReleaseSlot(b, a)
    /\ Goto(b, a, "idle")
    /\ UNCHANGED <<runState, opts, node, attempt, cacheHit, cas, budget>>

\* Mutant: the cache-hit return forgets the job slot.
FinishFromCacheLeak(b, a) ==
    /\ Settled
    /\ pc[b][a] = "cacheSleep"
    /\ ~cancelRequested[b]
    /\ SetState(b, a, "done")
    /\ cacheHit' = [cacheHit EXCEPT ![b][a] = TRUE]
    /\ attempt' = [attempt EXCEPT ![b][a] = 1]
    /\ Goto(b, a, "idle")
    /\ UNCHANGED <<runState, opts, control, node, activeJobs, cas, budget>>

\* Mutant: the cache hit emits its cache_update only.
FinishFromCacheQuiet(b, a) ==
    /\ Settled
    /\ pc[b][a] = "cacheSleep"
    /\ ~cancelRequested[b]
    /\ actState' = [actState EXCEPT ![b][a] = "done"]
    /\ cacheHit' = [cacheHit EXCEPT ![b][a] = TRUE]
    /\ attempt' = [attempt EXCEPT ![b][a] = 1]
    /\ ReleaseSlot(b, a)
    /\ Goto(b, a, "idle")
    /\ UNCHANGED <<runState, opts, control, node, cas, budget, events>>

FinishFromCache(b, a) ==
    /\ Settled
    /\ pc[b][a] = "cacheSleep"
    /\ ~cancelRequested[b]
    /\ SetState(b, a, "done")
    /\ cacheHit' = [cacheHit EXCEPT ![b][a] = TRUE]
    /\ attempt' = [attempt EXCEPT ![b][a] = 1]
    /\ ReleaseSlot(b, a)
    /\ Goto(b, a, "idle")
    /\ UNCHANGED <<runState, opts, control, node, cas, budget>>

\* Mutant: cancelRequested is not read again after gate 2.
StartAttemptUnchecked(b, a) ==
    /\ PassGate(b, a, 2)
    /\ SetState(b, a, "running")
    /\ Goto(b, a, "work")
    /\ SpendStep(b)
    /\ UNCHANGED <<runState, opts, node, attempt, cacheHit, activeJobs, cas>>

StartAttempt(b, a) ==
    /\ PassGate(b, a, 2)
    /\ ~cancelRequested[b]
    /\ SetState(b, a, "running")
    /\ Goto(b, a, "work")
    /\ SpendStep(b)
    /\ UNCHANGED <<runState, opts, node, attempt, cacheHit, activeJobs, cas>>

FailScheduled(b, a) == a = opts[b].failAction
MaxAttempts(b) == 1 + opts[b].retries

WorkDone(b, a) == Settled /\ pc[b][a] = "work" /\ ~cancelRequested[b]

\* Mutant: one retry too many.
RetryLaterOnceMore(b, a) ==
    /\ WorkDone(b, a)
    /\ FailScheduled(b, a) /\ attempt[b][a] <= MaxAttempts(b)
    /\ SetState(b, a, "retry")
    /\ Goto(b, a, "backoff")
    /\ UNCHANGED <<runState, opts, control, node, attempt, cacheHit, activeJobs, cas, budget>>

RetryLater(b, a) ==
    /\ WorkDone(b, a)
    /\ FailScheduled(b, a) /\ attempt[b][a] < MaxAttempts(b)
    /\ SetState(b, a, "retry")
    /\ Goto(b, a, "backoff")
    /\ UNCHANGED <<runState, opts, control, node, attempt, cacheHit, activeJobs, cas, budget>>

BackoffOver(b, a) ==
    /\ Settled
    /\ pc[b][a] = "backoff"
    /\ attempt' = [attempt EXCEPT ![b][a] = @ + 1]
    /\ Goto(b, a, "gate2")
    /\ UNCHANGED <<runState, opts, control, actState, node, cacheHit, activeJobs, cas, budget, events>>

\* Mutant: the product enters the cache before the exit code is looked at.
FailCached(b, a) ==
    /\ WorkDone(b, a)
    /\ FailScheduled(b, a) /\ attempt[b][a] >= MaxAttempts(b)
    /\ SetState(b, a, "failed")
    /\ cas' = [cas EXCEPT ![a] = b]
    /\ ReleaseSlot(b, a)
    /\ Goto(b, a, "idle")
    /\ UNCHANGED <<runState, opts, control, node, attempt, cacheHit, budget>>

Fail(b, a) ==
    /\ WorkDone(b, a)
    /\ FailScheduled(b, a) /\ attempt[b][a] >= MaxAttempts(b)
    /\ SetState(b, a, "failed")
    /\ ReleaseSlot(b, a)
    /\ Goto(b, a, "idle")
    /\ UNCHANGED <<runState, opts, control, node, attempt, cacheHit, cas, budget>>

Succeed(b, a) ==
    /\ WorkDone(b, a)
    /\ ~FailScheduled(b, a)
    /\ SetState(b, a, "done")
    /\ cas' = [cas EXCEPT ![a] = b]
    /\ ReleaseSlot(b, a)
    /\ Goto(b, a, "stamp")
    /\ UNCHANGED <<runState, opts, control, node, attempt, cacheHit, budget>>

Stamped(b, a) ==
    /\ Settled
    /\ pc[b][a] = "stamp"
    /\ Goto(b, a, "idle")
    /\ UNCHANGED <<runState, opts, control, actState, node, attempt, cacheHit, activeJobs, cas, budget, events>>

Continue(b, a) ==
    \/ Park(b, a) \/ LeaveUnscheduled(b, a) \/ Schedule(b, a)
    \/ AbortAtGate(b, a) \/ StartAttempt(b, a)

Wake(b, a) ==
    \/ AbortAfterSleep(b, a) \/ FinishFromCache(b, a) \/ RetryLater(b, a) \/ BackoffOver(b, a)
    \/ Fail(b, a) \/ Succeed(b, a) \/ Stamped(b, a)

-----------------------------------------------------------------------------
(* executeRun: one wave after the other, then the verdict *)

\* Mutant: a skipped dependency does not skip what depends on it.
SkipsDirect(b, S) ==
    S = {a \in Pending(b) : \E d \in Deps[a] : actState[b][d] \in {"failed", "cancelled"}}

\* readyActions walks the actions dependencies first, so one walk skips every
\* pending action that has a failed, cancelled or skipped action upstream.
Skips(b, S) ==
    S = {a \in Pending(b) : \E d \in Deps[a] :
            actState[b][d] \in {"failed", "cancelled", "skipped"} \/ d \in S}

\* Mutant: ready as soon as no dependency failed.
ReadyEarly(b) == {a \in Pending(b) : \A d \in Deps[a] : actState[b][d] # "failed"}

Ready(b) == {a \in Pending(b) : \A d \in Deps[a] : actState[b][d] = "done"}

\* readyActions and the wind-down walk the actions dependencies first, and emit
\* for what they take out of "pending"; in-flight actions are wound down silently.
EmitWalk(b) ==
    LET T == {a \in Pending(b) : actState'[b][a] # "pending"} IN
        \E q \in [1..Cardinality(T) -> T] :
            /\ \A i, j \in DOMAIN q : q[j] = q[i] \/ q[j] \in Deps[q[i]] => j <= i
            /\ Emit(b, [i \in DOMAIN q |-> [action |-> q[i], state |-> actState'[b][q[i]]]])

LaunchWave(b) ==
    /\ WaveDone(b)
    /\ ~cancelRequested[b]
    /\ Ready(b) # {}
    /\ \E S \in SUBSET Pending(b) :
        /\ Skips(b, S)
        /\ actState' = [actState EXCEPT ![b] = [a \in Actions |-> IF a \in S THEN "skipped" ELSE @[a]]]
    /\ EmitWalk(b)
    /\ pc' = [pc EXCEPT ![b] = [a \in Actions |-> IF a \in Ready(b) THEN "gate1" ELSE @[a]]]
    /\ UNCHANGED <<runState, opts, control, node, attempt, cacheHit, activeJobs, cas, budget>>

Verdict(s) ==
    IF \E a \in DOMAIN s : s[a] = "cancelled" THEN "cancelled"
    ELSE IF \E a \in DOMAIN s : s[a] = "failed" THEN "failed" ELSE "succeeded"

\* Mutant: the wind-down forgets pending actions.
InFlightOnly == {"scheduled", "running"}

\* The states the wind-down of a cancelled build turns into "cancelled".
WoundDown == {"pending", "scheduled", "running"}

\* The loop breaks before readyActions when cancelled, after it when the wave
\* is empty; the wind-down cancels what a cancelled build leaves unsettled.
FinishRun(b) ==
    /\ WaveDone(b)
    /\ cancelRequested[b] \/ Ready(b) = {}
    /\ \E S \in SUBSET Pending(b) :
        LET final == [a \in Actions |->
                        IF cancelRequested[b] /\ actState[b][a] \in WoundDown
                        THEN "cancelled"
                        ELSE IF a \in S THEN "skipped" ELSE actState[b][a]]
        IN /\ IF cancelRequested[b] THEN S = {} ELSE Skips(b, S)
           /\ actState' = [actState EXCEPT ![b] = final]
           /\ runState' = [runState EXCEPT ![b] = Verdict(final)]
           /\ EmitWalk(b)
    /\ UNCHANGED <<opts, control, node, attempt, cacheHit, pc, activeJobs, cas, budget>>

-----------------------------------------------------------------------------
Call(b) == StartBuild(b) \/ CancelBuild(b) \/ Pause(b) \/ Resume(b) \/ Step(b)
Execute(b) == LaunchWave(b) \/ FinishRun(b)

Next == \E b \in Builds :
            \/ Call(b) \/ Execute(b)
            \/ \E a \in Actions : Continue(b, a) \/ Wake(b, a)

Spec == Init /\ [][Next]_vars

\* Runnable continuations drain, and the exit of a sleep process is served in
\* the end even when calls keep arriving.  No client is obliged to call.
Fairness ==
    \A b \in Builds :
        /\ WF_vars(Execute(b))
        /\ \A a \in Actions : WF_vars(Continue(b, a)) /\ SF_vars(Wake(b, a))

FairSpec == Spec /\ Fairness
-----------------------------------------------------------------------------
(* Safety *)

\* active_jobs of a node is the number of actions, over all builds, that were
\* scheduled on it and have not yet returned their slot on one of the six
\* return paths of executeAction: no slot leaks and none is returned twice.
NodeAccounting ==
    \A n \in Nodes :
        activeJobs[n] = Cardinality({p \in Builds \X Actions :
                                        Holding(p[1], p[2]) /\ node[p[1]][p[2]] = n})

\* An action is handed to a node only when every action it depends on is done:
\* the waves respect the DAG, whatever is retried, cached or cancelled.
DependenciesDone ==
    \A b \in Builds : \A a \in Mine(b) :
        actState[b][a] \in {"scheduled", "running", "retry", "done", "failed"}
            => \A d \in Deps[a] : actState[b][d] = "done"

Upstream(a) == {x \in Actions : \A S \in SUBSET Actions :
                    Deps[a] \subseteq S /\ (\A y \in S : Deps[y] \subseteq S) => x \in S}

\* A failure stops exactly its downstream: an action is skipped only below a
\* failed one, and a build that ran to its end skipped everything below it.
SkippedBelowFailure ==
    \A b \in Builds : \A a \in Mine(b) :
        LET failedAbove == \E u \in Upstream(a) : actState[b][u] = "failed"
        IN /\ actState[b][a] = "skipped" => failedAbove
           /\ runState[b] \in {"succeeded", "failed"} /\ failedAbove => actState[b][a] = "skipped"

\* A build with a verdict has no action left in flight or pending, it is
\* "succeeded" only when everything is done, and "cancelled" only on request.
VerdictSound ==
    \A b \in Builds : runState[b] \in Terminal =>
        /\ \A a \in Mine(b) : actState[b][a] \in Settlements
        /\ \A a \in Actions : pc[b][a] = "idle"
        /\ runState[b] = "succeeded" => \A a \in Mine(b) : actState[b][a] = "done"
        /\ runState[b] = "cancelled" => cancelRequested[b]

\* The cache never serves what no build produced: an entry names a build that
\* executed the action to success, and a cache hit copies another build's work.
CacheSound ==
    \A a \in Actions :
        LET Produced(b) == actState[b][a] = "done" /\ ~cacheHit[b][a] /\ opts[b].failAction # a
        IN /\ cas[a] # NoBuild => Produced(cas[a])
           /\ \A b \in Builds : cacheHit[b][a] => \E c \in Builds \ {b} : Produced(c)

\* No wakeup is lost: the gate waiters are the parked actions, each once and at
\* its own gate, and a build that is not paused has none.
NoLostWakeup ==
    \A b \in Builds :
        /\ ~paused[b] => gateWaiters[b] = <<>>
        /\ \A a \in Actions : \A g \in 1..TOTAL_GATES :
            Cardinality({i \in DOMAIN gateWaiters[b] : gateWaiters[b][i] = [action |-> a, gate |-> g]})
              = IF pc[b][a] = (IF g = 1 THEN "parked1" ELSE "parked2") THEN 1 ELSE 0

\* "A step releases exactly one action attempt": while a build is paused, the
\* steps granted since the pause are those already spent on one attempt (or
\* one cache hit) each, plus the tickets, plus the actions let through a gate.
StepExact ==
    \A b \in Builds : paused[b] /\ ~cancelRequested[b] =>
        budget[b] = stepTickets[b]
                    + Cardinality({a \in Actions : /\ pc[b][a] \in {"gate1", "gate2"}
                                                   /\ actionPasses[b][a] > 0})

\* The retry budget is exact: an action fails only after its last allowed
\* attempt, and only the action the request makes fail does.
RetriesExact ==
    \A b \in Builds : \A a \in Mine(b) :
        /\ attempt[b][a] <= MaxAttempts(b)
        /\ actState[b][a] = "failed" => FailScheduled(b, a) /\ attempt[b][a] = MaxAttempts(b)
        /\ actState[b][a] = "done" /\ FailScheduled(b, a) => cacheHit[b][a]

\* Once a cancel is accepted nothing is scheduled, started, retried or
\* completed any more: the only state an action can still take is cancelled.
OnlyCancelsAfterCancel ==
    [][\A b \in Builds, a \in Actions :
        cancelRequested[b] /\ actState'[b][a] # actState[b][a] => actState'[b][a] = "cancelled"]_vars

\* What is settled stays settled: no late continuation, cancel or debugger
\* call changes the outcome of an action or the verdict of a build.
OutcomesFinal ==
    [][\A b \in Builds :
        /\ runState[b] \in Terminal => runState'[b] = runState[b]
        /\ \A a \in Actions : actState[b][a] \in Settlements => actState'[b][a] = actState[b][a]]_vars

-----------------------------------------------------------------------------
(* Refinement *)

Outcome(s) == CASE s = "pending" -> "waiting"
                [] s \in {"scheduled", "running", "retry"} -> "active"
                [] OTHER -> s

Lifecycle == INSTANCE BuildLifecycle
    WITH phase <- runState,
         stop <- cancelRequested,
         outcome <- [b \in Builds |-> [a \in Actions |-> Outcome(actState[b][a])]]

\* The engine, with its gates, retries, cache, waves and sleeps, implements the
\* build lifecycle: every step of it is a step of the lifecycle or none.
ImplementsLifecycle == Lifecycle!Spec

-----------------------------------------------------------------------------
(* Liveness, under FairSpec *)

Ended(b) == runState[b] \in Terminal

\* A started build reaches a verdict provided it is never paused for ever.
EveryBuildEnds ==
    \A b \in Builds : ([]<>~paused[b]) => (runState[b] = "running" ~> Ended(b))

\* A client that keeps stepping drives a paused build to its verdict: no step
\* is lost between the head waiter, the ticket and the passes.
StepsDriveBuild ==
    \A b \in Builds : ([]<><<Step(b)>>_vars) => (runState[b] = "running" ~> Ended(b))

-----------------------------------------------------------------------------
(* What comments and messages of the code say, and the code does not do *)

\* cancelBuild: "release every gated action so the wave loop can wind down".
CancelWindsDown == \A b \in Builds : cancelRequested[b] ~> Ended(b)
=============================================================================
