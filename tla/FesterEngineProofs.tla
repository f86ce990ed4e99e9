------------------------- MODULE FesterEngineProofs -------------------------
(* Theorems about FesterEngine, and the autopsy of FesterAutopsy, for every  *)
(* set of builds, actions and nodes, every acyclic dependency relation and   *)
(* every retry budget.                                                       *)
EXTENDS FesterAutopsy, SequenceTheorems, FiniteSetTheorems, TLAPS

\* The values the engine assigns are of the declared types.
LEMMA Values ==
    /\ {"absent", "running", "succeeded", "failed", "cancelled"} \subseteq RunStates
    /\ {"none", "pending", "scheduled", "running", "retry", "done", "failed", "skipped", "cancelled"}
          \subseteq ActStates
    /\ {"idle", "gate1", "parked1", "gate2", "parked2", "cacheSleep", "work", "backoff", "stamp"}
          \subseteq Pcs
    /\ \A p : Unpark(p) \in Pcs
    /\ NoOpts \in StartOptions
    /\ NoPasses \in [Actions -> Nat]
BY ConstantsAssumption
   DEF RunStates, Terminal, ActStates, Settlements, Pcs, Sleeps, Unpark, NoOpts, StartOptions, NoPasses

LEMMA VerdictType == ASSUME NEW s PROVE Verdict(s) \in RunStates
BY DEF Verdict, RunStates, Terminal

\* A gate only touches the step budget of its build.
LEMMA PassGateTypes ==
    ASSUME ControlTypes, NEW b \in Builds, NEW a \in Actions, NEW g \in 1..TOTAL_GATES,
           PassGate(b, a, g)
    PROVE  ControlTypes'
<1> USE DEF ControlTypes, TOTAL_GATES
<1>1. UNCHANGED <<cancelRequested, paused, stepMode, gateWaiters>>
  BY DEF PassGate
<1>2. stepTickets' \in [Builds -> Nat]
  BY DEF PassGate
<1>3. actionPasses' \in [Builds -> [Actions -> Nat]]
  <2>1. CASE UNCHANGED actionPasses
    BY <2>1
  <2>2. CASE actionPasses' = [actionPasses EXCEPT ![b][a] = @ - 1] /\ actionPasses[b][a] > 0
    BY <2>2
  <2>3. CASE actionPasses' = [actionPasses EXCEPT ![b][a] = TOTAL_GATES - g]
    BY <2>3
  <2> QED BY <2>1, <2>2, <2>3 DEF PassGate
<1> QED BY <1>1, <1>2, <1>3

LEMMA ReleaseGatesTypes ==
    ASSUME TypeOK, NEW b \in Builds, ReleaseGates(b)
    PROVE  /\ paused' \in [Builds -> BOOLEAN] /\ stepMode' \in [Builds -> BOOLEAN]
           /\ stepTickets' \in [Builds -> Nat] /\ actionPasses' \in [Builds -> [Actions -> Nat]]
           /\ gateWaiters' \in [Builds -> Seq(Waiter)]
           /\ pc' \in [Builds -> [Actions -> Pcs]] /\ budget' \in [Builds -> Int]
BY Values DEF TypeOK, ControlTypes, ActionTypes, SharedTypes, ReleaseGates

LEMMA SlotTypes ==
    ASSUME TypeOK
    PROVE  /\ \A n \in Nodes : TakeSlot(n) => activeJobs' \in [Nodes -> Nat]
           /\ \A b \in Builds, a \in Actions : ReleaseSlot(b, a) => activeJobs' \in [Nodes -> Nat]
BY DEF TypeOK, SharedTypes, TakeSlot, ReleaseSlot

\* Any single state or program counter an action is given has its type.
LEMMA ActionUpdateTypes ==
    ASSUME TypeOK, NEW b \in Builds, NEW a \in Actions
    PROVE  /\ \A s \in ActStates : SetState(b, a, s) => actState' \in [Builds -> [Actions -> ActStates]]
           /\ \A l \in Pcs : Goto(b, a, l) => pc' \in [Builds -> [Actions -> Pcs]]
           /\ SpendStep(b) => budget' \in [Builds -> Int]
           /\ attempt' = [attempt EXCEPT ![b][a] = 1] => attempt' \in [Builds -> [Actions -> Nat]]
<1>1. ASSUME NEW s \in ActStates, SetState(b, a, s)
      PROVE  actState' \in [Builds -> [Actions -> ActStates]]
  BY <1>1 DEF TypeOK, ActionTypes, SetState
<1>2. ASSUME NEW l \in Pcs, Goto(b, a, l)
      PROVE  pc' \in [Builds -> [Actions -> Pcs]]
  BY <1>2 DEF TypeOK, ActionTypes, Goto
<1>3. SpendStep(b) => budget' \in [Builds -> Int]
  BY DEF TypeOK, SharedTypes, SpendStep
<1>4. attempt' = [attempt EXCEPT ![b][a] = 1] => attempt' \in [Builds -> [Actions -> Nat]]
  BY DEF TypeOK, ActionTypes
<1> QED BY <1>1, <1>2, <1>3, <1>4

\* Whatever a build emits about its actions, its events stay events.
LEMMA EmitTypes ==
    ASSUME TypeOK, NEW b \in Builds, NEW q \in Seq(Event), Emit(b, q)
    PROVE  EventTypes'
<1>1. events \in [Builds -> Seq(Event)] /\ events[b] \o q \in Seq(Event)
  BY DEF TypeOK, EventTypes
<1> QED BY <1>1 DEF Emit, EventTypes

LEMMA WalkTypes ==
    ASSUME TypeOK, NEW b \in Builds, EmitWalk(b), actState' \in [Builds -> [Actions -> ActStates]]
    PROVE  EventTypes'
<1> DEFINE T == {a \in Pending(b) : actState'[b][a] # "pending"}
<1>1. T \subseteq Actions
  <2>1. opts[b] \in StartOptions
    BY DEF TypeOK, RunTypes
  <2>2. opts[b].actions \subseteq Actions
    BY <2>1, DepsAssumption DEF StartOptions
  <2> QED BY <2>2 DEF Pending, Mine
<1>2. IsFiniteSet(T)
  BY <1>1, ConstantsAssumption, FS_Subset
<1>3. PICK q \in [1..Cardinality(T) -> T] :
        Emit(b, [i \in DOMAIN q |-> [action |-> q[i], state |-> actState'[b][q[i]]]])
  BY DEF EmitWalk
<1>4. Cardinality(T) \in Nat
  BY <1>2, FS_CardinalityType
<1> DEFINE e == [i \in DOMAIN q |-> [action |-> q[i], state |-> actState'[b][q[i]]]]
           k == Cardinality(T)
<1>5. /\ DOMAIN q = 1..k /\ k \in Nat
      /\ \A i \in 1..k : q[i] \in Actions
  BY <1>1, <1>4
<1>6. e \in [1..k -> Event]
  <2> HIDE DEF k, T
  <2> QED BY <1>5 DEF Event
<1>7. e \in Seq(Event)
  <2> HIDE DEF k, e
  <2> QED BY <1>5, <1>6
<1> HIDE DEF e
<1> QED BY <1>3, <1>7, EmitTypes DEF e

LEMMA TypeOKInit == Init => TypeOK
<1> SUFFICES ASSUME Init PROVE TypeOK
  OBVIOUS
<1>1. RunTypes
  BY Values DEF Init, RunTypes
<1>2. ControlTypes
  BY Values DEF Init, ControlTypes
<1>3. ActionTypes
  BY Values DEF Init, ActionTypes
<1>4. SharedTypes
  BY DEF Init, SharedTypes
<1>5. EventTypes
  BY DEF Init, EventTypes
<1> QED BY <1>1, <1>2, <1>3, <1>4, <1>5 DEF TypeOK

LEMMA TypeOKStep == TypeOK /\ [Next]_vars => TypeOK'
<1> SUFFICES ASSUME TypeOK, [Next]_vars PROVE TypeOK'
  OBVIOUS
<1> DEFINE Types == RunTypes /\ ControlTypes /\ ActionTypes /\ SharedTypes
<1>1. ASSUME NEW b \in Builds, StartBuild(b) PROVE Types'
  <2>1. RunTypes'
    BY <1>1 DEF StartBuild, TypeOK, RunTypes, StartOptions, RunStates
  <2>2. actState' \in [Builds -> [Actions -> ActStates]]
    BY <1>1 DEF StartBuild, TypeOK, ActionTypes, ActStates
  <2> QED BY <1>1, <2>1, <2>2 DEF StartBuild, TypeOK, ControlTypes, ActionTypes, SharedTypes, control
<1>2. ASSUME NEW b \in Builds, CancelBuild(b) PROVE Types'
  BY <1>2, ReleaseGatesTypes DEF CancelBuild, TypeOK, RunTypes, ControlTypes, ActionTypes, SharedTypes
<1>3. ASSUME NEW b \in Builds, Pause(b) PROVE Types'
  BY <1>3, Values DEF Pause, TypeOK, RunTypes, ControlTypes, ActionTypes, SharedTypes, action
<1>4. ASSUME NEW b \in Builds, Resume(b) PROVE Types'
  BY <1>4, ReleaseGatesTypes DEF Resume, TypeOK, RunTypes, ControlTypes, ActionTypes, SharedTypes
<1>5. ASSUME NEW b \in Builds, Step(b) PROVE Types'
  <2>1. budget' \in [Builds -> Int] /\ stepMode' \in [Builds -> BOOLEAN]
    BY <1>5 DEF Step, TypeOK, ControlTypes, SharedTypes
  <2>2. CASE StepHead(b)
    <3> DEFINE head == Head(gateWaiters[b])
    <3>1. gateWaiters[b] # <<>> /\ gateWaiters[b] \in Seq(Waiter)
      BY <2>2 DEF StepHead, TypeOK, ControlTypes
    <3>2. head \in Waiter /\ Tail(gateWaiters[b]) \in Seq(Waiter)
      BY <3>1
    <3>3. gateWaiters' \in [Builds -> Seq(Waiter)]
      BY <2>2, <3>2 DEF StepHead, TypeOK, ControlTypes
    <3>4. head.action \in Actions /\ TOTAL_GATES - head.gate + 1 \in Nat
      <4> HIDE DEF head
      <4> QED BY <3>2 DEF Waiter, TOTAL_GATES
    <3>5. actionPasses' \in [Builds -> [Actions -> Nat]]
      <4>1. actionPasses' = [actionPasses EXCEPT ![b][head.action] = @ + TOTAL_GATES - head.gate + 1]
        BY <2>2 DEF StepHead
      <4> HIDE DEF head
      <4> QED BY <4>1, <3>2, <3>4 DEF TypeOK, ControlTypes, Waiter, TOTAL_GATES
    <3>6. pc' \in [Builds -> [Actions -> Pcs]]
      <4>1. pc' = [pc EXCEPT ![b][head.action] = Unpark(@)]
        BY <2>2 DEF StepHead
      <4>2. \A x \in Actions : [pc EXCEPT ![b][x] = Unpark(@)] \in [Builds -> [Actions -> Pcs]]
        BY Values DEF TypeOK, ActionTypes
      <4> QED BY <3>4, <4>1, <4>2
    <3> QED BY <1>5, <2>1, <2>2, <3>3, <3>5, <3>6
            DEF Step, StepHead, TypeOK, RunTypes, ControlTypes, ActionTypes, SharedTypes
  <2>3. CASE StepTicket(b)
    BY <1>5, <2>1, <2>3 DEF Step, StepTicket, TypeOK, RunTypes, ControlTypes, ActionTypes, SharedTypes
  <2> QED BY <1>5, <2>2, <2>3 DEF Step
<1>6. ASSUME NEW b \in Builds, LaunchWave(b) PROVE Types'
  <2>1. actState' \in [Builds -> [Actions -> ActStates]]
    BY <1>6, Values DEF LaunchWave, TypeOK, ActionTypes
  <2>2. pc' \in [Builds -> [Actions -> Pcs]]
    BY <1>6, Values DEF LaunchWave, TypeOK, ActionTypes
  <2> QED BY <1>6, <2>1, <2>2
          DEF LaunchWave, TypeOK, RunTypes, ControlTypes, ActionTypes, SharedTypes, control
<1>7. ASSUME NEW b \in Builds, FinishRun(b) PROVE Types'
  <2>1. runState' \in [Builds -> RunStates]
    BY <1>7, VerdictType DEF FinishRun, TypeOK, RunTypes
  <2>2. actState' \in [Builds -> [Actions -> ActStates]]
    BY <1>7, Values DEF FinishRun, TypeOK, ActionTypes
  <2> QED BY <1>7, <2>1, <2>2
          DEF FinishRun, TypeOK, RunTypes, ControlTypes, ActionTypes, SharedTypes, control
<1>8. ASSUME NEW b \in Builds, NEW a \in Actions, Continue(b, a) PROVE Types'
  <2> USE DEF TypeOK, RunTypes, ActionTypes, SharedTypes
  <2>1. CASE Park(b, a)
    <3>1. PICK g \in 1..TOTAL_GATES :
            gateWaiters' = [gateWaiters EXCEPT ![b] = Append(@, [action |-> a, gate |-> g])]
      BY <2>1 DEF Park
    <3>2. [action |-> a, gate |-> g] \in Waiter
      BY DEF Waiter
    <3>3. gateWaiters' \in [Builds -> Seq(Waiter)]
      BY <3>1, <3>2 DEF ControlTypes
    <3>4. pc' \in [Builds -> [Actions -> Pcs]]
      BY <2>1, Values DEF Park
    <3> QED BY <2>1, <3>3, <3>4 DEF Park, ControlTypes
  <2>2. CASE LeaveUnscheduled(b, a)
    BY <2>2, PassGateTypes, ActionUpdateTypes, Values DEF LeaveUnscheduled, TOTAL_GATES
  <2>3. CASE Schedule(b, a)
    <3>1. ControlTypes'
      BY <2>3, PassGateTypes DEF Schedule, TOTAL_GATES
    <3>2. node' \in [Builds -> [Actions -> Nodes \cup {NoNode}]] /\ activeJobs' \in [Nodes -> Nat]
      BY <2>3, SlotTypes DEF Schedule
    <3>3. actState' \in [Builds -> [Actions -> ActStates]]
      BY <2>3, ActionUpdateTypes, Values DEF Schedule
    <3>4. pc' \in [Builds -> [Actions -> Pcs]] /\ budget' \in [Builds -> Int]
      BY <2>3, ActionUpdateTypes, Values DEF Schedule
    <3>5. attempt' \in [Builds -> [Actions -> Nat]]
      <4>1. attempt' = attempt \/ attempt' = [attempt EXCEPT ![b][a] = 1]
        BY <2>3 DEF Schedule
      <4> QED BY <4>1, ActionUpdateTypes
    <3> QED BY <2>3, <3>1, <3>2, <3>3, <3>4, <3>5 DEF Schedule
  <2>4. CASE AbortAtGate(b, a)
    BY <2>4, PassGateTypes, ActionUpdateTypes, SlotTypes, Values DEF AbortAtGate, TOTAL_GATES
  <2>5. CASE StartAttempt(b, a)
    BY <2>5, PassGateTypes, ActionUpdateTypes, Values DEF StartAttempt, TOTAL_GATES
  <2> QED BY <1>8, <2>1, <2>2, <2>3, <2>4, <2>5 DEF Continue
<1>9. ASSUME NEW b \in Builds, NEW a \in Actions, Wake(b, a) PROVE Types'
  <2> USE ActionUpdateTypes, SlotTypes, Values
      DEF control, TypeOK, RunTypes, ControlTypes, ActionTypes, SharedTypes
  <2>1. CASE AbortAfterSleep(b, a)
    BY <2>1 DEF AbortAfterSleep
  <2>2. CASE FinishFromCache(b, a)
    BY <2>2 DEF FinishFromCache
  <2>3. CASE RetryLater(b, a)
    BY <2>3 DEF RetryLater
  <2>4. CASE BackoffOver(b, a)
    <3>1. attempt' \in [Builds -> [Actions -> Nat]]
      BY <2>4, \A k \in Nat : k + 1 \in Nat DEF BackoffOver
    <3> QED BY <2>4, <3>1 DEF BackoffOver
  <2>5. CASE Fail(b, a)
    BY <2>5 DEF Fail
  <2>6. CASE Succeed(b, a)
    BY <2>6 DEF Succeed
  <2>7. CASE Stamped(b, a)
    BY <2>7 DEF Stamped
  <2> QED BY <1>9, <2>1, <2>2, <2>3, <2>4, <2>5, <2>6, <2>7 DEF Wake
<1>10. ASSUME UNCHANGED vars PROVE Types'
  BY <1>10 DEF vars, control, action, TypeOK, RunTypes, ControlTypes, ActionTypes, SharedTypes
<1>11. Types'
  BY <1>1, <1>2, <1>3, <1>4, <1>5, <1>6, <1>7, <1>8, <1>9, <1>10 DEF Next, Call, Execute
<1>12. EventTypes'
  <2>1. actState' \in [Builds -> [Actions -> ActStates]]
    BY <1>11 DEF ActionTypes
  <2>2. ASSUME NEW b \in Builds, Call(b) PROVE EventTypes'
    BY <2>2 DEF Call, StartBuild, CancelBuild, Pause, Resume, Step, TypeOK, EventTypes
  <2>3. ASSUME NEW b \in Builds, Execute(b) PROVE EventTypes'
    BY <2>1, <2>3, WalkTypes DEF Execute, LaunchWave, FinishRun
  <2>4. ASSUME NEW b \in Builds, NEW a \in Actions, NEW s \in ActStates, SetState(b, a, s)
        PROVE  EventTypes'
    <3>1. <<[action |-> a, state |-> s]>> \in Seq(Event)
      BY DEF Event
    <3> QED BY <2>4, <3>1, EmitTypes DEF SetState
  <2>5. ASSUME NEW b \in Builds, NEW a \in Actions, Continue(b, a) \/ Wake(b, a)
        PROVE  EventTypes'
    <3>1. UNCHANGED events \/ \E s \in ActStates : SetState(b, a, s)
      BY <2>5, Values
         DEF Continue, Wake, Park, LeaveUnscheduled, Schedule, AbortAtGate, StartAttempt,
             AbortAfterSleep, FinishFromCache, RetryLater, BackoffOver, Fail, Succeed, Stamped
    <3> QED BY <2>4, <3>1 DEF TypeOK, EventTypes
  <2>6. CASE UNCHANGED vars
    BY <2>6 DEF vars, TypeOK, EventTypes
  <2> QED BY <2>2, <2>3, <2>5, <2>6 DEF Next
<1> QED BY <1>11, <1>12 DEF TypeOK

\* The types of the engine's state hold in every reachable state.
THEOREM TypeCorrect == Spec => []TypeOK
BY TypeOKInit, TypeOKStep, PTL DEF Spec

-----------------------------------------------------------------------------
(* The inductive invariant behind the safety theorems *)

\* The state an action can be in at each place of executeAction.
StatesAt(l) ==
    IF l \in {"gate1", "parked1"} THEN {"pending"}
    ELSE IF l \in {"gate2", "parked2"} THEN {"scheduled", "retry"}
    ELSE IF l = "cacheSleep" THEN {"scheduled"}
    ELSE IF l = "work" THEN {"running"}
    ELSE IF l = "backoff" THEN {"retry"}
    ELSE IF l = "stamp" THEN {"done"}
    ELSE {"none", "pending"} \cup Settlements

Coherent(b, a) ==
    /\ actState[b][a] = "none" <=> a \notin Mine(b)
    /\ pc[b][a] # "idle" => runState[b] = "running"
    /\ runState[b] = "absent" => actState[b][a] = "none" /\ ~cancelRequested[b]
    /\ actState[b][a] \in StatesAt(pc[b][a])
    /\ actState[b][a] = "cancelled" => cancelRequested[b]

\* In the current wave or past it.
Launched(b, a) ==
    \/ pc[b][a] \in {"gate1", "parked1"}
    \/ actState[b][a] \in {"scheduled", "running", "retry", "done", "failed"}

DepsDone(b, a) == Launched(b, a) => \A d \in Deps[a] : actState[b][d] = "done"

SkipCause(b, a) ==
    actState[b][a] = "skipped" => \E d \in Deps[a] : actState[b][d] \in {"failed", "skipped"}

ParkedAt(g) == IF g = 1 THEN "parked1" ELSE "parked2"

WaitersParked(b) ==
    \A i \in 1..Len(gateWaiters[b]) :
        /\ pc[b][gateWaiters[b][i].action] = ParkedAt(gateWaiters[b][i].gate)
        /\ \A j \in 1..Len(gateWaiters[b]) :
              gateWaiters[b][i].action = gateWaiters[b][j].action => i = j

VerdictOf(b) ==
    runState[b] \in Terminal =>
        /\ \A a \in Mine(b) : actState[b][a] \in Settlements
        /\ runState[b] = "succeeded" => \A a \in Mine(b) : actState[b][a] = "done"
        /\ runState[b] = "cancelled" => cancelRequested[b]
        /\ runState[b] # "cancelled" => \A a \in Mine(b) : actState[b][a] # "cancelled"

Inv ==
    /\ TypeOK
    /\ \A b \in Builds : WaitersParked(b) /\ VerdictOf(b)
    /\ \A b \in Builds : \A a \in Actions : Coherent(b, a) /\ DepsDone(b, a) /\ SkipCause(b, a)

\* What one step of executeAction does to its own action, and to nothing else.
Moves(b, a) ==
    \/ pc[b][a] = "gate1" /\ pc'[b][a] = "parked1" /\ actState'[b][a] = actState[b][a]
    \/ pc[b][a] = "gate1" /\ pc'[b][a] = "idle" /\ actState'[b][a] = actState[b][a]
    \/ /\ pc[b][a] = "gate1" /\ pc'[b][a] \in {"cacheSleep", "gate2"}
       /\ ~cancelRequested[b] /\ actState'[b][a] = "scheduled"
    \/ pc[b][a] = "gate2" /\ pc'[b][a] = "parked2" /\ actState'[b][a] = actState[b][a]
    \/ /\ pc[b][a] = "gate2" /\ pc'[b][a] = "work"
       /\ ~cancelRequested[b] /\ actState'[b][a] = "running"
    \/ /\ pc[b][a] \in {"gate2", "cacheSleep", "work"} /\ pc'[b][a] = "idle"
       /\ cancelRequested[b] /\ actState'[b][a] = "cancelled"
    \/ /\ pc[b][a] = "cacheSleep" /\ pc'[b][a] = "idle"
       /\ ~cancelRequested[b] /\ actState'[b][a] = "done"
    \/ /\ pc[b][a] = "work" /\ ~cancelRequested[b]
       /\ \/ pc'[b][a] = "backoff" /\ actState'[b][a] = "retry"
          \/ pc'[b][a] = "idle" /\ actState'[b][a] = "failed"
          \/ pc'[b][a] = "stamp" /\ actState'[b][a] = "done"
    \/ pc[b][a] = "backoff" /\ pc'[b][a] = "gate2" /\ actState'[b][a] = actState[b][a]
    \/ pc[b][a] = "stamp" /\ pc'[b][a] = "idle" /\ actState'[b][a] = actState[b][a]

OnlyTouches(b, a) ==
    \A c \in Builds, x \in Actions : (c # b \/ x # a) =>
        pc'[c][x] = pc[c][x] /\ actState'[c][x] = actState[c][x]

LEMMA FiberStep ==
    ASSUME TypeOK, NEW b \in Builds, NEW a \in Actions, Continue(b, a) \/ Wake(b, a)
    PROVE  Moves(b, a) /\ OnlyTouches(b, a) /\ UNCHANGED <<runState, opts, cancelRequested>>
<1>1. /\ pc \in [Builds -> [Actions -> Pcs]]
      /\ actState \in [Builds -> [Actions -> ActStates]]
  BY DEF TypeOK, ActionTypes
<1>2. ASSUME NEW l, NEW s, Goto(b, a, l), SetState(b, a, s) \/ UNCHANGED actState
      PROVE  /\ OnlyTouches(b, a)
             /\ pc'[b][a] = l
             /\ SetState(b, a, s) => actState'[b][a] = s
  BY <1>1, <1>2 DEF Goto, SetState, OnlyTouches
<1> USE DEF Moves
<1>3. CASE Park(b, a)
  <2>1. PICK g \in 1..2 : pc[b][a] = GatePc(g) /\ Goto(b, a, IF g = 1 THEN "parked1" ELSE "parked2")
    BY <1>3 DEF Park, Goto, TOTAL_GATES
  <2> QED BY <1>2, <1>3, <2>1 DEF Park, GatePc
<1>4. CASE LeaveUnscheduled(b, a)
  BY <1>2, <1>4 DEF LeaveUnscheduled, PassGate, GatePc
<1>5. CASE Schedule(b, a)
  <2>1. Goto(b, a, "cacheSleep") \/ Goto(b, a, "gate2")
    BY <1>5 DEF Schedule
  <2> QED BY <1>2, <1>5, <2>1 DEF Schedule, PassGate, GatePc
<1>6. CASE AbortAtGate(b, a)
  BY <1>2, <1>6 DEF AbortAtGate, PassGate, GatePc
<1>7. CASE StartAttempt(b, a)
  BY <1>2, <1>7 DEF StartAttempt, PassGate, GatePc
<1>8. CASE AbortAfterSleep(b, a)
  BY <1>2, <1>8 DEF AbortAfterSleep, control
<1>9. CASE FinishFromCache(b, a)
  BY <1>2, <1>9 DEF FinishFromCache, control
<1>10. CASE RetryLater(b, a)
  BY <1>2, <1>10 DEF RetryLater, WorkDone, control
<1>11. CASE BackoffOver(b, a)
  BY <1>2, <1>11 DEF BackoffOver, control
<1>12. CASE Fail(b, a)
  BY <1>2, <1>12 DEF Fail, WorkDone, control
<1>13. CASE Succeed(b, a)
  BY <1>2, <1>13 DEF Succeed, WorkDone, control
<1>14. CASE Stamped(b, a)
  BY <1>2, <1>14 DEF Stamped, control
<1> QED
  BY <1>3, <1>4, <1>5, <1>6, <1>7, <1>8, <1>9, <1>10, <1>11, <1>12, <1>13, <1>14 DEF Continue, Wake

\* A step of executeAction keeps the state of every action coherent.
LEMMA FiberCoherent ==
    ASSUME Inv, NEW b \in Builds, NEW a \in Actions, Continue(b, a) \/ Wake(b, a),
           NEW c \in Builds, NEW x \in Actions
    PROVE  Coherent(c, x)' /\ DepsDone(c, x)' /\ SkipCause(c, x)'
<1>1. Moves(b, a) /\ OnlyTouches(b, a) /\ UNCHANGED <<runState, opts, cancelRequested>>
  BY FiberStep DEF Inv
<1>2. /\ Coherent(b, a) /\ DepsDone(b, a) /\ Coherent(c, x) /\ DepsDone(c, x)
      /\ SkipCause(c, x)
      /\ \A d \in Actions : Coherent(c, d)
  BY DEF Inv
<1>3. Deps[x] \subseteq Actions
  BY DepsAssumption
<1>4. \A d \in Actions : actState[c][d] \in {"done", "failed", "skipped"}
         => actState'[c][d] = actState[c][d]
  <2> TAKE d \in Actions
  <2>1. CASE c = b /\ d = a
    BY <1>1, <1>2, <2>1 DEF Moves, Coherent, StatesAt, Settlements
  <2>2. CASE c # b \/ d # a
    BY <1>1, <2>2 DEF OnlyTouches
  <2> QED BY <2>1, <2>2
<1>5. CASE c = b /\ x = a
  <2>1. Coherent(b, a)'
    BY <1>1, <1>2 DEF Moves, Coherent, StatesAt, Settlements, Mine
  <2>2. DepsDone(b, a)'
    <3>1. Launched(b, a)' => Launched(b, a)
      BY <1>1, <1>2 DEF Moves, Coherent, StatesAt, Settlements, Launched
    <3> QED BY <1>2, <1>3, <1>4, <1>5, <3>1 DEF DepsDone
  <2>3. SkipCause(b, a)'
    BY <1>1, <1>2, <1>3, <1>4, <1>5 DEF Moves, Coherent, StatesAt, SkipCause
  <2> QED BY <1>5, <2>1, <2>2, <2>3
<1>6. CASE c # b \/ x # a
  <2>1. pc'[c][x] = pc[c][x] /\ actState'[c][x] = actState[c][x]
    BY <1>1, <1>6 DEF OnlyTouches
  <2>2. Coherent(c, x)'
    BY <1>1, <1>2, <2>1 DEF Coherent, Mine
  <2>3. DepsDone(c, x)'
    BY <1>2, <1>3, <1>4, <2>1 DEF DepsDone, Launched
  <2>4. SkipCause(c, x)'
    BY <1>2, <1>3, <1>4, <2>1 DEF SkipCause
  <2> QED BY <2>2, <2>3, <2>4
<1> QED BY <1>5, <1>6

\* A step of executeAction keeps the waiters parked, each once.
LEMMA FiberWaiters ==
    ASSUME Inv, NEW b \in Builds, NEW a \in Actions, Continue(b, a) \/ Wake(b, a),
           NEW c \in Builds
    PROVE  WaitersParked(c)'
<1>1. Moves(b, a) /\ OnlyTouches(b, a) /\ WaitersParked(c) /\ WaitersParked(b)
  BY FiberStep DEF Inv
<1>2. gateWaiters \in [Builds -> Seq(Waiter)]
  BY DEF Inv, TypeOK, ControlTypes
<1>3. pc[b][a] \notin {"parked1", "parked2"}
  BY <1>1 DEF Moves
<1>4. \A i \in 1..Len(gateWaiters[c]) : gateWaiters[c][i] \in Waiter
  BY <1>2
<1>5. \A i \in 1..Len(gateWaiters[c]) :
        pc'[c][gateWaiters[c][i].action] = pc[c][gateWaiters[c][i].action]
  BY <1>1, <1>3, <1>4 DEF OnlyTouches, WaitersParked, ParkedAt, Waiter
<1>6. CASE UNCHANGED gateWaiters
  BY <1>1, <1>5, <1>6 DEF WaitersParked
<1>7. CASE Park(b, a) /\ c = b
  <2>1. PICK g \in 1..2 :
          /\ gateWaiters' = [gateWaiters EXCEPT ![b] = Append(@, [action |-> a, gate |-> g])]
          /\ pc' = [pc EXCEPT ![b][a] = ParkedAt(g)]
    BY <1>7 DEF Park, ParkedAt, TOTAL_GATES
  <2> DEFINE w == gateWaiters[b]
             n == [action |-> a, gate |-> g]
  <2>2. w \in Seq(Waiter) /\ n \in Waiter /\ gateWaiters'[b] = Append(w, n)
    BY <1>2, <2>1 DEF Waiter, TOTAL_GATES
  <2>3. \A i \in 1..Len(w) : w[i].action # a
    BY <1>1, <1>3 DEF WaitersParked, ParkedAt
  <2>4. pc'[b][a] = ParkedAt(g)
    BY <2>1 DEF Inv, TypeOK, ActionTypes
  <2> HIDE DEF w, n
  <2>5. /\ Len(Append(w, n)) = Len(w) + 1
        /\ \A i \in 1..Len(w) : Append(w, n)[i] = w[i]
        /\ Append(w, n)[Len(w) + 1] = n
    BY <2>2
  <2>6. n.action = a /\ n.gate = g
    BY DEF n
  <2>7. \A i \in 1..Len(w) :
          /\ pc'[b][w[i].action] = ParkedAt(w[i].gate)
          /\ \A j \in 1..Len(w) : w[i].action = w[j].action => i = j
    BY <1>1, <1>5, <1>7 DEF WaitersParked, w
  <2>8. Len(w) \in Nat
    BY <2>2
  <2>9. WaitersParked(b)'
    BY <2>2, <2>3, <2>4, <2>5, <2>6, <2>7, <2>8 DEF WaitersParked
  <2> QED BY <1>7, <2>9
<1>8. CASE Park(b, a) /\ c # b
  <2>1. gateWaiters'[c] = gateWaiters[c]
    BY <1>2, <1>8 DEF Park
  <2> QED BY <1>1, <1>5, <2>1 DEF WaitersParked
<1>9. Park(b, a) \/ UNCHANGED gateWaiters
  BY DEF Continue, Wake, LeaveUnscheduled, Schedule, AbortAtGate, StartAttempt, PassGate,
         AbortAfterSleep, FinishFromCache, RetryLater, BackoffOver, Fail, Succeed, Stamped, control
<1> QED BY <1>6, <1>7, <1>8, <1>9

\* Calls that move no action: they can only send parked actions back to their gate.
OnlyUnparks ==
    \A c \in Builds, x \in Actions :
        \/ pc'[c][x] = pc[c][x]
        \/ pc[c][x] = "parked1" /\ pc'[c][x] = "gate1"
        \/ pc[c][x] = "parked2" /\ pc'[c][x] = "gate2"

\* Nothing or one running build is marked cancelled.
CancelOnlyRunning ==
    \/ UNCHANGED cancelRequested
    \/ \E b \in Builds : /\ runState[b] = "running"
                        /\ cancelRequested' = [cancelRequested EXCEPT ![b] = TRUE]

LEMMA WaiterPcs ==
    ASSUME Inv, NEW b \in Builds
    PROVE  /\ WaitingActions(b) \subseteq Actions
           /\ \A x \in WaitingActions(b) : pc[b][x] \in {"parked1", "parked2"}
<1>1. \A i \in 1..Len(gateWaiters[b]) : gateWaiters[b][i] \in Waiter
  BY DEF Inv, TypeOK, ControlTypes
<1> QED BY <1>1 DEF Inv, WaitingActions, WaitersParked, ParkedAt, Waiter

LEMMA ReleaseUnparks ==
    ASSUME Inv, NEW b \in Builds, ReleaseGates(b)
    PROVE  OnlyUnparks /\ \A c \in Builds : WaitersParked(c)'
<1>1. pc \in [Builds -> [Actions -> Pcs]] /\ gateWaiters \in [Builds -> Seq(Waiter)]
  BY DEF Inv, TypeOK, ActionTypes, ControlTypes
<1>2. OnlyUnparks
  BY <1>1, WaiterPcs DEF OnlyUnparks, ReleaseGates, Unpark
<1>3. ASSUME NEW c \in Builds PROVE WaitersParked(c)'
  <2>1. CASE c = b
    BY <1>1, <2>1 DEF ReleaseGates, WaitersParked
  <2>2. CASE c # b
    <3>1. pc'[c] = pc[c] /\ gateWaiters'[c] = gateWaiters[c]
      BY <1>1, <2>2 DEF ReleaseGates
    <3> QED BY <3>1 DEF Inv, WaitersParked
  <2> QED BY <2>1, <2>2
<1> QED BY <1>2, <1>3

LEMMA StepUnparks ==
    ASSUME Inv, NEW b \in Builds, Step(b)
    PROVE  OnlyUnparks /\ \A c \in Builds : WaitersParked(c)'
<1>1. pc \in [Builds -> [Actions -> Pcs]] /\ gateWaiters \in [Builds -> Seq(Waiter)]
  BY DEF Inv, TypeOK, ActionTypes, ControlTypes
<1>2. CASE StepTicket(b)
  BY <1>2 DEF StepTicket, OnlyUnparks, Inv, WaitersParked
<1>3. CASE StepHead(b)
  <2> DEFINE w == gateWaiters[b]
             h == w[1].action
  <2>1. /\ w # <<>> /\ w \in Seq(Waiter) /\ 1 \in 1..Len(w) /\ Head(w) = w[1]
        /\ w[1] \in Waiter /\ Len(w) \in Nat
    BY <1>1, <1>3 DEF StepHead
  <2>2. h \in Actions /\ pc[b][h] \in {"parked1", "parked2"}
    BY <2>1 DEF Inv, WaitersParked, ParkedAt, Waiter
  <2>3. pc' = [pc EXCEPT ![b][h] = Unpark(@)] /\ gateWaiters' = [gateWaiters EXCEPT ![b] = Tail(w)]
    BY <1>3, <2>1 DEF StepHead
  <2>4. OnlyUnparks
    BY <1>1, <2>2, <2>3 DEF OnlyUnparks, Unpark
  <2>5. ASSUME NEW c \in Builds, c # b PROVE WaitersParked(c)'
    <3>1. pc'[c] = pc[c] /\ gateWaiters'[c] = gateWaiters[c]
      BY <1>1, <2>3, <2>5
    <3> QED BY <3>1 DEF Inv, WaitersParked
  <2>6. WaitersParked(b)'
    <3>1. gateWaiters'[b] = Tail(w)
      BY <1>1, <2>3
    <3>2. \A x \in Actions : x # h => pc'[b][x] = pc[b][x]
      BY <1>1, <2>3
    <3>3. \A i \in 1..Len(w) :
            /\ w[i].action \in Actions
            /\ pc[b][w[i].action] = ParkedAt(w[i].gate)
            /\ \A j \in 1..Len(w) : w[i].action = w[j].action => i = j
      <4>1. \A i \in 1..Len(w) : w[i] \in Waiter
        BY <2>1
      <4>2. WaitersParked(b)
        BY DEF Inv
      <4> QED BY <4>1, <4>2 DEF WaitersParked, Waiter
    <3> HIDE DEF w
    <3>4. Len(Tail(w)) = Len(w) - 1 /\ \A i \in 1..Len(Tail(w)) : Tail(w)[i] = w[i + 1]
      <4>1. w # <<>> /\ w \in Seq(Waiter)
        BY <2>1
      <4> QED BY <4>1, HeadTailProperties
    <3>5. \A i \in 1..Len(Tail(w)) : i + 1 \in 1..Len(w) /\ i + 1 # 1
      BY <2>1, <3>4
    <3>6. \A i \in 1..Len(Tail(w)) :
            /\ pc'[b][Tail(w)[i].action] = ParkedAt(Tail(w)[i].gate)
            /\ \A j \in 1..Len(Tail(w)) : Tail(w)[i].action = Tail(w)[j].action => i = j
      BY <2>1, <3>2, <3>3, <3>4, <3>5
    <3> QED BY <3>1, <3>6 DEF WaitersParked
  <2> QED BY <2>4, <2>5, <2>6
<1> QED BY <1>2, <1>3 DEF Step

\* Such a call keeps every action coherent.
LEMMA UnparkCoherent ==
    ASSUME Inv, OnlyUnparks, UNCHANGED <<actState, opts, runState>>,
           CancelOnlyRunning,
           NEW c \in Builds, NEW x \in Actions
    PROVE  Coherent(c, x)' /\ DepsDone(c, x)' /\ SkipCause(c, x)'
<1>1. Coherent(c, x) /\ DepsDone(c, x) /\ SkipCause(c, x)
  BY DEF Inv
<1>2. Coherent(c, x)'
  <2>1. /\ actState'[c][x] = actState[c][x] /\ runState'[c] = runState[c] /\ Mine(c)' = Mine(c)
    BY DEF Mine
  <2>2. StatesAt(pc'[c][x]) = StatesAt(pc[c][x]) /\ (pc'[c][x] # "idle" => pc[c][x] # "idle")
    BY DEF OnlyUnparks, StatesAt
  <2>3. cancelRequested'[c] = cancelRequested[c] \/ (runState[c] = "running" /\ cancelRequested'[c] = TRUE)
    BY DEF CancelOnlyRunning, Inv, TypeOK, ControlTypes
  <2> HIDE DEF StatesAt
  <2> QED BY <1>1, <2>1, <2>2, <2>3 DEF Coherent
<1>3. DepsDone(c, x)'
  BY <1>1 DEF OnlyUnparks, DepsDone, Launched
<1>4. SkipCause(c, x)'
  BY <1>1 DEF SkipCause
<1> QED BY <1>2, <1>3, <1>4

\* A new build has only pending actions; the other builds are untouched.
LEMMA StartStep ==
    ASSUME Inv, NEW b \in Builds, StartBuild(b)
    PROVE  /\ \A c \in Builds : WaitersParked(c)' /\ VerdictOf(c)'
           /\ \A c \in Builds : \A x \in Actions :
                 Coherent(c, x)' /\ DepsDone(c, x)' /\ SkipCause(c, x)'
<1>1. PICK R \in Requests :
        /\ opts' = [opts EXCEPT ![b] = opts'[b]] /\ opts'[b].actions = R
        /\ actState' = [actState EXCEPT ![b] = [a \in Actions |-> IF a \in R THEN "pending" ELSE "none"]]
  BY DEF StartBuild, Inv, TypeOK, RunTypes
<1>2. /\ runState' = [runState EXCEPT ![b] = "running"] /\ runState[b] = "absent"
      /\ UNCHANGED <<pc, gateWaiters, cancelRequested>>
  BY DEF StartBuild, control
<1>3. /\ actState \in [Builds -> [Actions -> ActStates]] /\ opts \in [Builds -> StartOptions]
      /\ runState \in [Builds -> RunStates]
  BY DEF Inv, TypeOK, RunTypes, ActionTypes
<1>4. ASSUME NEW c \in Builds PROVE WaitersParked(c)'
  BY <1>2 DEF Inv, WaitersParked
<1>5. ASSUME NEW c \in Builds, c # b
      PROVE  /\ actState'[c] = actState[c] /\ opts'[c] = opts[c] /\ runState'[c] = runState[c]
             /\ VerdictOf(c)'
             /\ \A x \in Actions : Coherent(c, x)' /\ DepsDone(c, x)' /\ SkipCause(c, x)'
  <2>1. actState'[c] = actState[c] /\ opts'[c] = opts[c] /\ runState'[c] = runState[c]
    BY <1>1, <1>2, <1>3, <1>5
  <2>2. VerdictOf(c)'
    BY <1>2, <2>1 DEF Inv, VerdictOf, Mine
  <2>3. \A x \in Actions : Coherent(c, x)' /\ DepsDone(c, x)' /\ SkipCause(c, x)'
    BY <1>2, <2>1 DEF Inv, Coherent, Mine, DepsDone, Launched, SkipCause
  <2> QED BY <2>1, <2>2, <2>3
<1>6. VerdictOf(b)'
  BY <1>2, <1>3 DEF VerdictOf, Terminal
<1>7. ASSUME NEW x \in Actions PROVE Coherent(b, x)' /\ DepsDone(b, x)' /\ SkipCause(b, x)'
  <2>1. /\ actState'[b][x] = IF x \in R THEN "pending" ELSE "none"
        /\ runState'[b] = "running" /\ Mine(b)' = R
    BY <1>1, <1>2, <1>3 DEF Mine
  <2>2. pc[b][x] = "idle"
    BY <1>2, DepsAssumption DEF Inv, Coherent
  <2> QED BY <1>2, <2>1, <2>2 DEF Coherent, StatesAt, DepsDone, Launched, SkipCause, Settlements
<1> QED BY <1>4, <1>5, <1>6, <1>7

\* When a wave starts its actions are ready; what is skipped has a cause.
LEMMA LaunchStep ==
    ASSUME Inv, NEW b \in Builds, LaunchWave(b)
    PROVE  /\ \A c \in Builds : WaitersParked(c)' /\ VerdictOf(c)'
           /\ \A c \in Builds : \A x \in Actions :
                 Coherent(c, x)' /\ DepsDone(c, x)' /\ SkipCause(c, x)'
<1>1. PICK S \in SUBSET Pending(b) :
        /\ Skips(b, S)
        /\ actState' = [actState EXCEPT ![b] = [a \in Actions |-> IF a \in S THEN "skipped" ELSE @[a]]]
  BY DEF LaunchWave
<1>2. /\ UNCHANGED <<runState, opts, cancelRequested, gateWaiters>>
      /\ pc' = [pc EXCEPT ![b] = [a \in Actions |-> IF a \in Ready(b) THEN "gate1" ELSE @[a]]]
      /\ runState[b] = "running" /\ ~cancelRequested[b] /\ \A a \in Actions : pc[b][a] = "idle"
  BY DEF LaunchWave, control, WaveDone
<1>3. /\ actState \in [Builds -> [Actions -> ActStates]] /\ pc \in [Builds -> [Actions -> Pcs]]
      /\ gateWaiters \in [Builds -> Seq(Waiter)]
  BY DEF Inv, TypeOK, ControlTypes, ActionTypes
<1>4. ASSUME NEW c \in Builds, c # b
      PROVE  /\ WaitersParked(c)' /\ VerdictOf(c)'
             /\ \A x \in Actions : Coherent(c, x)' /\ DepsDone(c, x)' /\ SkipCause(c, x)'
  <2>1. actState'[c] = actState[c] /\ pc'[c] = pc[c]
    BY <1>1, <1>2, <1>3, <1>4
  <2>2. WaitersParked(c)'
    BY <1>2, <2>1 DEF Inv, WaitersParked
  <2>3. VerdictOf(c)'
    BY <1>2, <2>1 DEF Inv, VerdictOf, Mine
  <2>4. \A x \in Actions : Coherent(c, x)' /\ DepsDone(c, x)' /\ SkipCause(c, x)'
    BY <1>2, <2>1 DEF Inv, Coherent, Mine, DepsDone, Launched, SkipCause
  <2> QED BY <2>2, <2>3, <2>4
<1>5. WaitersParked(b)'
  <2>1. WaitersParked(b)
    BY DEF Inv
  <2>2. \A i \in 1..Len(gateWaiters[b]) : gateWaiters[b][i].action \in Actions
    <3>1. \A i \in 1..Len(gateWaiters[b]) : gateWaiters[b][i] \in Waiter
      BY <1>3
    <3> QED BY <3>1 DEF Waiter
  <2> QED BY <1>2, <2>1, <2>2 DEF WaitersParked, ParkedAt
<1>6. VerdictOf(b)'
  BY <1>2 DEF VerdictOf, Terminal
<1>7. ASSUME NEW x \in Actions PROVE Coherent(b, x)' /\ DepsDone(b, x)' /\ SkipCause(b, x)'
  <2>1. Coherent(b, x) /\ DepsDone(b, x) /\ SkipCause(b, x) /\ Deps[x] \subseteq Actions
    BY DepsAssumption DEF Inv
  <2>2. \A d \in Actions : /\ actState'[b][d] = IF d \in S THEN "skipped" ELSE actState[b][d]
                          /\ pc'[b][d] = IF d \in Ready(b) THEN "gate1" ELSE "idle"
    BY <1>1, <1>2, <1>3
  <2>3. \A d \in S : actState[b][d] = "pending" /\ d \in Mine(b)
    BY DEF Pending
  <2>4. \A d \in Actions : Coherent(b, d)
    BY DEF Inv
  <2>5. x \in Ready(b) => x \notin S /\ actState[b][x] = "pending" /\ \A d \in Deps[x] : actState[b][d] = "done"
    BY <1>1, <2>3 DEF Ready, Pending, Skips
  <2>6. Coherent(b, x)'
    BY <1>2, <2>1, <2>2, <2>3, <2>5 DEF Coherent, StatesAt, Mine, Settlements
  <2>7. DepsDone(b, x)'
    BY <1>2, <2>1, <2>2, <2>3, <2>5 DEF DepsDone, Launched
  <2>8. SkipCause(b, x)'
    <3>1. CASE x \in S
      <4>1. PICK d \in Deps[x] : actState[b][d] \in {"failed", "cancelled", "skipped"} \/ d \in S
        BY <1>1, <3>1 DEF Skips
      <4>2. actState[b][d] # "cancelled"
        BY <1>2, <2>1, <2>4 DEF Coherent
      <4> QED BY <2>1, <2>2, <2>3, <4>1, <4>2 DEF SkipCause
    <3>2. CASE x \notin S
      BY <2>1, <2>2, <2>3, <3>2 DEF SkipCause
    <3> QED BY <3>1, <3>2
  <2> QED BY <2>6, <2>7, <2>8
<1> QED BY <1>4, <1>5, <1>6, <1>7

\* The actions of a build are actions of the catalog.
LEMMA MineActions == ASSUME TypeOK, NEW b \in Builds PROVE Mine(b) \subseteq Actions /\ Pending(b) \subseteq Actions
<1>1. opts[b] \in StartOptions
  BY DEF TypeOK, RunTypes
<1>2. opts[b].actions \subseteq Actions
  BY <1>1, DepsAssumption DEF StartOptions
<1> QED BY <1>2 DEF Mine, Pending


\* What the end of a run does: what is pending is cancelled or, below a failure
\* or another skipped action, skipped; nothing pending is left out of the walk,
\* because the dependency graph is acyclic.
LEMMA FinishOutcome ==
    ASSUME Inv, NEW b \in Builds, FinishRun(b)
    PROVE  /\ runState' = [runState EXCEPT ![b] = Verdict(actState'[b])]
           /\ actState' = [actState EXCEPT ![b] = actState'[b]] /\ DOMAIN actState'[b] = Actions
           /\ \A x \in Actions :
                /\ actState[b][x] \in {"none", "pending"} \cup Settlements
                /\ actState'[b][x] = IF x \notin Pending(b) THEN actState[b][x]
                                     ELSE IF cancelRequested[b] THEN "cancelled" ELSE "skipped"
           /\ cancelRequested[b] \/ Skips(b, Pending(b))
<1>1. PICK S \in SUBSET Pending(b) :
        /\ IF cancelRequested[b] THEN S = {} ELSE Skips(b, S)
        /\ actState' = [actState EXCEPT ![b] = [a \in Actions |->
                          IF cancelRequested[b] /\ actState[b][a] \in WoundDown THEN "cancelled"
                          ELSE IF a \in S THEN "skipped" ELSE actState[b][a]]]
        /\ runState' = [runState EXCEPT ![b] = Verdict([a \in Actions |->
                          IF cancelRequested[b] /\ actState[b][a] \in WoundDown THEN "cancelled"
                          ELSE IF a \in S THEN "skipped" ELSE actState[b][a]])]
  BY DEF FinishRun
<1>2. (\A a \in Actions : pc[b][a] = "idle") /\ (cancelRequested[b] \/ Ready(b) = {})
  BY DEF FinishRun, WaveDone
<1>3. /\ actState \in [Builds -> [Actions -> ActStates]] /\ runState \in [Builds -> RunStates]
  BY DEF Inv, TypeOK, RunTypes, ActionTypes
<1>4. \A x \in Actions : Coherent(b, x) /\ Deps[x] \subseteq Actions
  BY DepsAssumption DEF Inv
<1>5. \A x \in Actions :
        /\ actState[b][x] \in {"none", "pending"} \cup Settlements
        /\ x \in Pending(b) <=> actState[b][x] = "pending"
  BY <1>2, <1>4 DEF Coherent, StatesAt, Pending
<1>6. \A x \in Mine(b) : x \in Actions /\ Deps[x] \subseteq Mine(b)
  BY DepsAssumption DEF Inv, TypeOK, RunTypes, StartOptions, Mine
<1>7. ASSUME ~cancelRequested[b] PROVE S = Pending(b)
  <2> DEFINE T == Pending(b) \ S
  <2>1. SUFFICES ASSUME T # {} PROVE FALSE
    BY DEF T
  <2>2. T \subseteq Mine(b) /\ T \in SUBSET Actions
    BY <1>6 DEF T, Pending
  <2>3. PICK x \in T : Deps[x] \cap T = {}
    BY <2>1, <2>2, DepsAssumption
  <2>4. \A d \in Deps[x] : d \notin S /\ actState[b][d] \notin {"failed", "cancelled", "skipped"}
    BY <1>1, <1>7, <2>3 DEF Skips, T
  <2>5. \A d \in Deps[x] : actState[b][d] = "done"
    <3> TAKE d \in Deps[x]
    <3>1. d \in Mine(b) /\ d \in Actions
      BY <1>6, <2>2, <2>3
    <3>2. actState[b][d] # "pending"
      BY <2>3, <2>4, <3>1 DEF T, Pending
    <3>3. actState[b][d] # "none"
      BY <1>4, <3>1 DEF Coherent
    <3> QED BY <1>5, <2>4, <3>1, <3>2, <3>3 DEF Settlements
  <2>6. x \in Ready(b)
    BY <2>5 DEF Ready, T
  <2> QED BY <1>2, <1>7, <2>6
<1>8. \A x \in Actions :
        actState'[b][x] = IF x \notin Pending(b) THEN actState[b][x]
                          ELSE IF cancelRequested[b] THEN "cancelled" ELSE "skipped"
  BY <1>1, <1>3, <1>5, <1>7 DEF WoundDown, Settlements
<1>9. /\ runState' = [runState EXCEPT ![b] = Verdict(actState'[b])]
      /\ actState' = [actState EXCEPT ![b] = actState'[b]] /\ DOMAIN actState'[b] = Actions
  BY <1>1, <1>3
<1>10. cancelRequested[b] \/ Skips(b, Pending(b))
  BY <1>1, <1>7
<1> QED BY <1>5, <1>8, <1>9, <1>10

\* The end of a run: nothing is left unsettled and the verdict says so.
LEMMA FinishStep ==
    ASSUME Inv, NEW b \in Builds, FinishRun(b)
    PROVE  /\ \A c \in Builds : WaitersParked(c)' /\ VerdictOf(c)'
           /\ \A c \in Builds : \A x \in Actions :
                 Coherent(c, x)' /\ DepsDone(c, x)' /\ SkipCause(c, x)'
<1>1. /\ actState' = [actState EXCEPT ![b] = actState'[b]] /\ DOMAIN actState'[b] = Actions
      /\ runState' = [runState EXCEPT ![b] = Verdict(actState'[b])]
      /\ cancelRequested[b] \/ Skips(b, Pending(b))
  BY FinishOutcome
<1>2. /\ UNCHANGED <<opts, cancelRequested, gateWaiters, pc>>
      /\ runState[b] = "running" /\ \A a \in Actions : pc[b][a] = "idle"
  BY DEF FinishRun, control, WaveDone
<1>3. /\ actState \in [Builds -> [Actions -> ActStates]] /\ runState \in [Builds -> RunStates]
  BY DEF Inv, TypeOK, RunTypes, ActionTypes
<1>4. ASSUME NEW c \in Builds PROVE WaitersParked(c)'
  BY <1>2 DEF Inv, WaitersParked
<1>5. ASSUME NEW c \in Builds, c # b
      PROVE  /\ VerdictOf(c)'
             /\ \A x \in Actions : Coherent(c, x)' /\ DepsDone(c, x)' /\ SkipCause(c, x)'
  <2>1. actState'[c] = actState[c] /\ runState'[c] = runState[c]
    BY <1>1, <1>3, <1>5
  <2>2. VerdictOf(c)'
    BY <1>2, <2>1 DEF Inv, VerdictOf, Mine
  <2>3. \A x \in Actions : Coherent(c, x)' /\ DepsDone(c, x)' /\ SkipCause(c, x)'
    BY <1>2, <2>1 DEF Inv, Coherent, Mine, DepsDone, Launched, SkipCause
  <2> QED BY <2>2, <2>3
<1>6. \A x \in Actions : Coherent(b, x) /\ DepsDone(b, x) /\ SkipCause(b, x) /\ Deps[x] \subseteq Actions
  BY DepsAssumption DEF Inv
<1> DEFINE S == IF cancelRequested[b] THEN {} ELSE Pending(b)
<1>7. \A x \in Actions :
        /\ actState[b][x] \in {"none", "pending"} \cup Settlements
        /\ actState[b][x] = "none" <=> x \notin Mine(b)
        /\ x \in S => actState[b][x] = "pending" /\ x \in Mine(b) /\ ~cancelRequested[b]
  BY <1>6, FinishOutcome DEF Coherent, Pending
<1>8. \A x \in Actions : actState'[b][x] =
        IF cancelRequested[b] /\ actState[b][x] = "pending" THEN "cancelled"
        ELSE IF x \in S THEN "skipped" ELSE actState[b][x]
  BY <1>7, FinishOutcome DEF Pending
<1>9. \A x \in Mine(b) : x \in Actions /\ Deps[x] \subseteq Mine(b)
  BY DepsAssumption DEF Inv, TypeOK, RunTypes, StartOptions, Mine
<1>10. ~cancelRequested[b] => \A x \in Pending(b) : x \in S
  OBVIOUS
<1>14. ~cancelRequested[b] => Skips(b, S)
  BY <1>1
<1> HIDE DEF S
<1>11. \A x \in Mine(b) : actState'[b][x] \in Settlements
  BY <1>7, <1>8, <1>9, <1>10 DEF Settlements, Pending
<1>12. ASSUME NEW x \in Actions PROVE Coherent(b, x)' /\ DepsDone(b, x)' /\ SkipCause(b, x)'
  <2>1. Coherent(b, x)'
    <3>1. runState'[b] # "absent"
      BY <1>1, <1>3 DEF Verdict
    <3> QED BY <1>2, <1>6, <1>7, <1>8, <3>1 DEF Coherent, StatesAt, Mine, Settlements
  <2>2. DepsDone(b, x)'
    BY <1>2, <1>6, <1>7, <1>8 DEF DepsDone, Launched, Settlements
  <2>3. SkipCause(b, x)'
    <3>1. CASE x \in S
      <4>1. PICK d \in Deps[x] : actState[b][d] \in {"failed", "cancelled", "skipped"} \/ d \in S
        BY <1>7, <1>14, <3>1 DEF Skips
      <4>2. actState[b][d] # "cancelled"
        BY <1>6, <1>7, <3>1 DEF Coherent
      <4> QED BY <1>6, <1>7, <1>8, <3>1, <4>1, <4>2 DEF SkipCause
    <3>2. CASE x \notin S
      BY <1>6, <1>7, <1>8, <3>2 DEF SkipCause
    <3> QED BY <3>1, <3>2
  <2> QED BY <2>1, <2>2, <2>3
<1>13. VerdictOf(b)'
  <2> DEFINE final == actState'[b]
  <2>1. runState'[b] = Verdict(final) /\ DOMAIN final = Actions
    BY <1>1, <1>3
  <2>2. ASSUME runState'[b] = "succeeded" PROVE \A a \in Mine(b) : final[a] = "done"
    <3>1. \A a \in Actions : final[a] # "failed" /\ final[a] # "cancelled"
      BY <2>1, <2>2 DEF Verdict
    <3> DEFINE T == {a \in Actions : final[a] = "skipped"}
    <3>2. T = {}
      <4>1. SUFFICES ASSUME T # {} PROVE FALSE
        OBVIOUS
      <4>2. PICK x \in T : Deps[x] \cap T = {}
        BY <4>1, DepsAssumption DEF T
      <4>3. PICK d \in Deps[x] : final[d] \in {"failed", "skipped"}
        BY <1>12, <4>2 DEF SkipCause, T
      <4> QED BY <1>6, <3>1, <4>2, <4>3 DEF T
    <3> QED BY <1>9, <1>11, <3>1, <3>2 DEF Settlements
  <2>3. ASSUME runState'[b] = "cancelled" PROVE cancelRequested'[b]
    <3>1. PICK a \in Actions : final[a] = "cancelled"
      BY <2>1, <2>3 DEF Verdict
    <3> QED BY <1>2, <1>12, <3>1 DEF Coherent
  <2>4. ASSUME runState'[b] # "cancelled" PROVE \A a \in Actions : final[a] # "cancelled"
    BY <2>1, <2>4 DEF Verdict
  <2> QED BY <1>2, <1>9, <1>11, <2>2, <2>3, <2>4 DEF VerdictOf, Mine
<1> QED BY <1>4, <1>5, <1>12, <1>13

-----------------------------------------------------------------------------
(* The theorems *)

LEMMA InvInit == Init => Inv
<1> SUFFICES ASSUME Init PROVE Inv
  OBVIOUS
<1>1. TypeOK
  BY TypeOKInit
<1>2. \A b \in Builds : WaitersParked(b) /\ VerdictOf(b)
  BY DEF Init, WaitersParked, VerdictOf, Terminal
<1>3. \A b \in Builds : \A a \in Actions : Coherent(b, a) /\ DepsDone(b, a) /\ SkipCause(b, a)
  BY DEF Init, Coherent, StatesAt, Mine, NoOpts, DepsDone, Launched, SkipCause
<1> QED BY <1>1, <1>2, <1>3 DEF Inv

LEMMA InvStep == Inv /\ [Next]_vars => Inv'
<1> SUFFICES ASSUME Inv, [Next]_vars PROVE Inv'
  OBVIOUS
<1>1. TypeOK'
  BY TypeOKStep DEF Inv
<1> DEFINE Goal == /\ \A c \in Builds : WaitersParked(c)' /\ VerdictOf(c)'
                   /\ \A c \in Builds : \A x \in Actions :
                         Coherent(c, x)' /\ DepsDone(c, x)' /\ SkipCause(c, x)'
<1>2. ASSUME NEW b \in Builds, StartBuild(b) PROVE Goal
  BY <1>2, StartStep
<1>3. ASSUME NEW b \in Builds, LaunchWave(b) PROVE Goal
  BY <1>3, LaunchStep
<1>4. ASSUME NEW b \in Builds, FinishRun(b) PROVE Goal
  BY <1>4, FinishStep
<1>5. ASSUME OnlyUnparks, UNCHANGED <<actState, opts, runState>>,
             \A c \in Builds : WaitersParked(c)', CancelOnlyRunning
      PROVE  Goal
  <2>1. ASSUME NEW c \in Builds PROVE VerdictOf(c)'
    <3>1. cancelRequested'[c] = cancelRequested[c] \/ runState[c] = "running"
      BY <1>5 DEF CancelOnlyRunning, Inv, TypeOK, ControlTypes
    <3> QED BY <1>5, <3>1 DEF Inv, VerdictOf, Mine, Terminal
  <2> QED BY <1>5, <2>1, UnparkCoherent
<1>6. ASSUME NEW b \in Builds, CancelBuild(b) PROVE Goal
  <2>1. CancelOnlyRunning
    BY <1>6 DEF CancelBuild, CancelOnlyRunning
  <2> QED BY <1>5, <1>6, <2>1, ReleaseUnparks DEF CancelBuild
<1>7. ASSUME NEW b \in Builds, Pause(b) PROVE Goal
  <2>1. OnlyUnparks /\ \A c \in Builds : WaitersParked(c)'
    BY <1>7 DEF Pause, action, OnlyUnparks, Inv, WaitersParked
  <2> QED BY <1>5, <1>7, <2>1 DEF Pause, action, CancelOnlyRunning
<1>8. ASSUME NEW b \in Builds, Resume(b) PROVE Goal
  BY <1>5, <1>8, ReleaseUnparks DEF Resume, CancelOnlyRunning
<1>9. ASSUME NEW b \in Builds, Step(b) PROVE Goal
  BY <1>5, <1>9, StepUnparks DEF Step, CancelOnlyRunning
<1>10. ASSUME NEW b \in Builds, NEW a \in Actions, Continue(b, a) \/ Wake(b, a) PROVE Goal
  <2>1. UNCHANGED <<runState, opts, cancelRequested>> /\ Moves(b, a) /\ OnlyTouches(b, a) /\ Coherent(b, a)
    BY <1>10, FiberStep DEF Inv
  <2>2. ASSUME NEW c \in Builds PROVE VerdictOf(c)'
    <3>1. CASE c = b
      BY <2>1, <3>1 DEF Moves, Coherent, VerdictOf, Terminal
    <3>2. CASE c # b
      <4>1. Mine(c) \subseteq Actions
        BY DepsAssumption DEF Inv, TypeOK, RunTypes, StartOptions, Mine
      <4> QED BY <2>1, <3>2, <4>1 DEF OnlyTouches, Inv, VerdictOf, Mine
    <3> QED BY <3>1, <3>2
  <2> QED BY <1>10, <2>2, FiberCoherent, FiberWaiters
<1>11. ASSUME UNCHANGED vars PROVE Goal
  <2>1. OnlyUnparks /\ (\A c \in Builds : WaitersParked(c)')
    BY <1>11 DEF vars, control, action, OnlyUnparks, Inv, WaitersParked
  <2> QED BY <1>5, <1>11, <2>1 DEF vars, control, action, CancelOnlyRunning
<1> HIDE DEF Goal
<1>12. Goal
  <2>1. CASE \E b \in Builds : Call(b)
    BY <1>2, <1>6, <1>7, <1>8, <1>9, <2>1 DEF Call
  <2>2. CASE \E b \in Builds : Execute(b)
    BY <1>3, <1>4, <2>2 DEF Execute
  <2>3. CASE \E b \in Builds : \E a \in Actions : Continue(b, a) \/ Wake(b, a)
    BY <1>10, <2>3
  <2>4. Next \/ UNCHANGED vars
    OBVIOUS
  <2> QED BY <1>11, <2>1, <2>2, <2>3, <2>4 DEF Next
<1> QED BY <1>1, <1>12 DEF Goal, Inv

THEOREM Invariance == Spec => []Inv
BY InvInit, InvStep, PTL DEF Spec

\* An action is handed to a node only when every action it depends on is done.
THEOREM DependencyOrder == Spec => []DependenciesDone
<1>1. Inv => DependenciesDone
  <2> SUFFICES ASSUME Inv, NEW b \in Builds, NEW a \in Mine(b),
                      actState[b][a] \in {"scheduled", "running", "retry", "done", "failed"}
               PROVE  \A d \in Deps[a] : actState[b][d] = "done"
    BY DEF DependenciesDone
  <2>1. a \in Actions
    BY DepsAssumption DEF Inv, TypeOK, RunTypes, StartOptions, Mine
  <2> QED BY <2>1 DEF Inv, DepsDone, Launched
<1> QED BY <1>1, Invariance, PTL

\* A verdict is given only when nothing is in flight or pending, it is
\* "succeeded" only when everything is done and "cancelled" only on request.
THEOREM VerdictCorrect == Spec => []VerdictSound
<1>1. Inv => VerdictSound
  <2> SUFFICES ASSUME Inv, NEW b \in Builds, runState[b] \in Terminal
               PROVE  /\ \A a \in Mine(b) : actState[b][a] \in Settlements
                      /\ \A a \in Actions : pc[b][a] = "idle"
                      /\ runState[b] = "succeeded" => \A a \in Mine(b) : actState[b][a] = "done"
                      /\ runState[b] = "cancelled" => cancelRequested[b]
    BY DEF VerdictSound
  <2>1. VerdictOf(b)
    BY DEF Inv
  <2>2. \A a \in Actions : pc[b][a] = "idle"
    BY DEF Inv, Coherent, Terminal
  <2> QED BY <2>1, <2>2 DEF VerdictOf
<1> QED BY <1>1, Invariance, PTL

\* Upstream is closed under dependencies.
LEMMA UpstreamClosed ==
    ASSUME NEW a \in Actions
    PROVE  /\ Deps[a] \subseteq Upstream(a)
           /\ \A d \in Deps[a] : Upstream(d) \subseteq Upstream(a)
<1>1. Deps[a] \subseteq Actions
  BY DepsAssumption
<1>2. Deps[a] \subseteq Upstream(a)
  BY <1>1 DEF Upstream
<1>3. ASSUME NEW d \in Deps[a], NEW u \in Upstream(d) PROVE u \in Upstream(a)
  <2>1. ASSUME NEW S \in SUBSET Actions, Deps[a] \subseteq S, \A y \in S : Deps[y] \subseteq S
        PROVE  u \in S
    <3>1. Deps[d] \subseteq S
      BY <1>3, <2>1
    <3> QED BY <1>3, <2>1, <3>1 DEF Upstream
  <2> QED BY <1>3, <2>1 DEF Upstream
<1> QED BY <1>2, <1>3

\* What is skipped is below a failure, and in a build that ran to its end
\* everything below a failure is.
LEMMA SkippedBelow == Inv => SkippedBelowFailure
<1>1. ASSUME Inv, NEW b \in Builds, NEW a \in Mine(b), actState[b][a] = "skipped"
      PROVE  \E u \in Upstream(a) : actState[b][u] = "failed"
  <2> DEFINE T == {x \in Actions : /\ actState[b][x] = "skipped"
                                  /\ ~ \E u \in Upstream(x) : actState[b][u] = "failed"}
  <2>1. a \in Actions
    BY <1>1, DepsAssumption DEF Inv, TypeOK, RunTypes, StartOptions, Mine
  <2>2. T = {}
    <3>1. SUFFICES ASSUME T # {} PROVE FALSE
      OBVIOUS
    <3>2. PICK x \in T : Deps[x] \cap T = {}
      BY <3>1, DepsAssumption DEF T
    <3>3. PICK d \in Deps[x] : actState[b][d] \in {"failed", "skipped"}
      BY <1>1, <3>2 DEF Inv, SkipCause, T
    <3>4. d \in Actions /\ d \in Upstream(x) /\ Upstream(d) \subseteq Upstream(x)
      BY <3>2, <3>3, UpstreamClosed, DepsAssumption DEF T
    <3> QED BY <3>2, <3>3, <3>4 DEF T
  <2> QED BY <1>1, <2>1, <2>2 DEF T
<1>2. ASSUME Inv, NEW b \in Builds, NEW a \in Mine(b), runState[b] \in {"succeeded", "failed"},
             NEW u \in Upstream(a), actState[b][u] = "failed"
      PROVE  actState[b][a] = "skipped"
  <2>1. a \in Actions /\ VerdictOf(b)
    BY <1>2, DepsAssumption DEF Inv, TypeOK, RunTypes, StartOptions, Mine
  <2>2. actState[b][a] \in {"done", "failed", "skipped"}
    BY <1>2, <2>1 DEF VerdictOf, Terminal, Settlements
  <2>3. ASSUME actState[b][a] \in {"done", "failed"} PROVE FALSE
    <3> DEFINE D == {x \in Actions : actState[b][x] = "done"}
    <3>1. \A x \in Actions : actState[b][x] \in {"done", "failed"} => Deps[x] \subseteq D
      BY <1>2, DepsAssumption DEF Inv, DepsDone, Launched, D
    <3>2. D \in SUBSET Actions /\ Deps[a] \subseteq D /\ \A y \in D : Deps[y] \subseteq D
      BY <2>1, <2>3, <3>1 DEF D
    <3> HIDE DEF D
    <3>3. u \in D
      BY <1>2, <3>2 DEF Upstream
    <3> QED BY <1>2, <3>3 DEF D
  <2> QED BY <2>2, <2>3
<1> QED BY <1>1, <1>2 DEF SkippedBelowFailure

\* A failure skips exactly what is downstream of it.
THEOREM FailurePropagation == Spec => []SkippedBelowFailure
BY SkippedBelow, Invariance, PTL

\* After an accepted cancel the only change of an action's state is to cancelled.
THEOREM CancelIsFinal == Spec => OnlyCancelsAfterCancel
<1> DEFINE Frozen == \A b \in Builds, a \in Actions :
        cancelRequested[b] /\ actState'[b][a] # actState[b][a] => actState'[b][a] = "cancelled"
<1>1. ASSUME Inv, [Next]_vars PROVE Frozen
  <2> SUFFICES ASSUME NEW c \in Builds, NEW x \in Actions, cancelRequested[c],
                      actState'[c][x] # actState[c][x]
               PROVE  actState'[c][x] = "cancelled"
    BY DEF Frozen
  <2>1. actState \in [Builds -> [Actions -> ActStates]]
    BY <1>1 DEF Inv, TypeOK, ActionTypes
  <2>2. ASSUME NEW b \in Builds, StartBuild(b) PROVE FALSE
    <3>1. c = b
      BY <2>1, <2>2 DEF StartBuild
    <3> QED BY <1>1, <2>2, <3>1 DEF StartBuild, Inv, Coherent
  <2>3. ASSUME NEW b \in Builds, LaunchWave(b) PROVE FALSE
    <3>1. c = b
      BY <2>1, <2>3 DEF LaunchWave
    <3> QED BY <2>3, <3>1 DEF LaunchWave
  <2>4. ASSUME NEW b \in Builds, FinishRun(b) PROVE actState'[c][x] = "cancelled"
    <3>1. c = b
      BY <2>1, <2>4 DEF FinishRun
    <3> QED BY <2>1, <2>4, <3>1 DEF FinishRun
  <2>5. ASSUME NEW b \in Builds, NEW a \in Actions, Continue(b, a) \/ Wake(b, a)
        PROVE  actState'[c][x] = "cancelled"
    <3>1. Moves(b, a) /\ OnlyTouches(b, a)
      BY <1>1, <2>5, FiberStep DEF Inv
    <3>2. c = b /\ x = a
      BY <3>1 DEF OnlyTouches
    <3> QED BY <3>1, <3>2 DEF Moves
  <2>6. ASSUME NEW b \in Builds, CancelBuild(b) \/ Pause(b) \/ Resume(b) \/ Step(b) PROVE FALSE
    BY <2>6 DEF CancelBuild, Pause, Resume, Step, action
  <2>7. ASSUME UNCHANGED vars PROVE FALSE
    BY <2>7 DEF vars, action
  <2>8. Next \/ UNCHANGED vars
    BY <1>1
  <2> QED BY <2>2, <2>3, <2>4, <2>5, <2>6, <2>7, <2>8 DEF Next, Call, Execute
<1>2. Inv /\ [Next]_vars => [Frozen]_vars
  BY <1>1
<1> QED BY <1>2, Invariance, PTL DEF Spec, OnlyCancelsAfterCancel

\* What is settled stays settled, action by action and build by build.
THEOREM SettledForGood == Spec => OutcomesFinal
<1> DEFINE Kept == \A b \in Builds :
        /\ runState[b] \in Terminal => runState'[b] = runState[b]
        /\ \A a \in Actions : actState[b][a] \in Settlements => actState'[b][a] = actState[b][a]
<1>1. ASSUME Inv, [Next]_vars PROVE Kept
  <2> SUFFICES ASSUME NEW c \in Builds
               PROVE  /\ runState[c] \in Terminal => runState'[c] = runState[c]
                      /\ \A x \in Actions : actState[c][x] \in Settlements => actState'[c][x] = actState[c][x]
    BY DEF Kept
  <2>1. /\ actState \in [Builds -> [Actions -> ActStates]] /\ runState \in [Builds -> RunStates]
    BY <1>1 DEF Inv, TypeOK, RunTypes, ActionTypes
  <2>2. CASE \E b \in Builds : StartBuild(b)
    <3>1. PICK b \in Builds : StartBuild(b)
      BY <2>2
    <3>2. CASE c = b
      BY <1>1, <3>1, <3>2 DEF StartBuild, Inv, Coherent, Settlements, Terminal
    <3>3. CASE c # b
      BY <2>1, <3>1, <3>3 DEF StartBuild
    <3> QED BY <3>2, <3>3
  <2>3. CASE \E b \in Builds : LaunchWave(b)
    <3>1. PICK b \in Builds : LaunchWave(b)
      BY <2>3
    <3>2. \A x \in Actions : actState'[b][x] # actState[b][x] => actState[b][x] = "pending"
      BY <2>1, <3>1 DEF LaunchWave, Pending
    <3>3. c # b => actState'[c] = actState[c]
      BY <2>1, <3>1 DEF LaunchWave
    <3> QED BY <3>1, <3>2, <3>3 DEF LaunchWave, Settlements
  <2>4. CASE \E b \in Builds : FinishRun(b)
    <3>1. PICK b \in Builds : FinishRun(b)
      BY <2>4
    <3>2. \A x \in Actions : actState'[b][x] # actState[b][x] => actState[b][x] \in WoundDown
      BY <2>1, <3>1 DEF FinishRun, Pending, WoundDown
    <3>3. c # b => actState'[c] = actState[c] /\ runState'[c] = runState[c]
      BY <2>1, <3>1 DEF FinishRun
    <3>4. runState[b] \notin Terminal
      BY <3>1 DEF FinishRun, WaveDone, Terminal
    <3> QED BY <3>2, <3>3, <3>4 DEF Settlements, WoundDown
  <2>5. ASSUME NEW b \in Builds, NEW a \in Actions, Continue(b, a) \/ Wake(b, a)
        PROVE  /\ runState[c] \in Terminal => runState'[c] = runState[c]
               /\ \A x \in Actions : actState[c][x] \in Settlements => actState'[c][x] = actState[c][x]
    <3>1. Moves(b, a) /\ OnlyTouches(b, a) /\ UNCHANGED runState /\ Coherent(b, a)
      BY <1>1, <2>5, FiberStep DEF Inv
    <3>2. actState[b][a] \in Settlements => actState'[b][a] = actState[b][a]
      BY <3>1 DEF Moves, Coherent, StatesAt, Settlements
    <3> QED BY <3>1, <3>2 DEF OnlyTouches
  <2>6. CASE \E b \in Builds : CancelBuild(b) \/ Pause(b) \/ Resume(b) \/ Step(b)
    BY <2>6 DEF CancelBuild, Pause, Resume, Step, action
  <2>7. CASE UNCHANGED vars
    BY <2>7 DEF vars, action
  <2>8. Next \/ UNCHANGED vars
    BY <1>1
  <2> QED BY <2>2, <2>3, <2>4, <2>5, <2>6, <2>7, <2>8 DEF Next, Call, Execute
<1>2. Inv /\ [Next]_vars => [Kept]_vars
  BY <1>1
<1> QED BY <1>2, Invariance, PTL DEF Spec, OutcomesFinal

-----------------------------------------------------------------------------
(* The engine implements the build lifecycle *)

Abstract == [b \in Builds |-> [a \in Actions |-> Outcome(actState[b][a])]]

LEMMA OutcomeValues ==
    /\ Outcome("none") = "none" /\ Outcome("pending") = "waiting"
    /\ Outcome("scheduled") = "active" /\ Outcome("running") = "active" /\ Outcome("retry") = "active"
    /\ \A s \in Settlements : Outcome(s) = s
    /\ \A s \in ActStates : /\ Outcome(s) = "waiting" => s = "pending"
                            /\ Outcome(s) = "active" => s \in {"scheduled", "running", "retry"}
                            /\ Outcome(s) \in Settlements => Outcome(s) = s
BY DEF Outcome, Settlements, ActStates

LEMMA LifecycleInit == Init => Lifecycle!Init
BY OutcomeValues DEF Init, Lifecycle!Init

\* A step that leaves states, verdicts and cancels alone is invisible.
LEMMA Invisible ==
    ASSUME UNCHANGED <<runState, cancelRequested, actState>>
    PROVE  UNCHANGED Lifecycle!vars
BY DEF Lifecycle!vars

\* The lifecycle sees one action change where the engine changes one.
LEMMA OneOutcome ==
    ASSUME TypeOK, NEW b \in Builds, NEW a \in Actions, OnlyTouches(b, a), TypeOK'
    PROVE  Abstract' = [Abstract EXCEPT ![b][a] = Outcome(actState'[b][a])]
<1>1. \A c \in Builds, x \in Actions :
        Abstract'[c][x] = IF c = b /\ x = a THEN Outcome(actState'[b][a]) ELSE Abstract[c][x]
  BY DEF OnlyTouches, Abstract
<1>2. \A c \in Builds : Abstract'[c] = IF c = b THEN [Abstract[b] EXCEPT ![a] = Outcome(actState'[b][a])]
                                       ELSE Abstract[c]
  BY <1>1 DEF Abstract
<1> QED BY <1>2 DEF Abstract

LEMMA LifecycleStart ==
    ASSUME Inv, NEW b \in Builds, StartBuild(b)
    PROVE  Lifecycle!Begin(b)
<1>1. PICK R \in Requests :
        actState' = [actState EXCEPT ![b] = [a \in Actions |-> IF a \in R THEN "pending" ELSE "none"]]
  BY DEF StartBuild
<1>2. actState \in [Builds -> [Actions -> ActStates]]
  BY DEF Inv, TypeOK, ActionTypes
<1>3. Abstract' = [Abstract EXCEPT ![b] = [a \in Actions |-> IF a \in R THEN "waiting" ELSE "none"]]
  BY <1>1, <1>2, OutcomeValues DEF Abstract
<1> QED BY <1>3 DEF StartBuild, control, Lifecycle!Begin, Abstract

LEMMA LifecycleFiber ==
    ASSUME Inv, Inv', NEW b \in Builds, NEW a \in Actions, Continue(b, a) \/ Wake(b, a)
    PROVE  Lifecycle!Activate(b, a) \/ Lifecycle!Settle(b, a) \/ UNCHANGED Lifecycle!vars
<1>1. Moves(b, a) /\ OnlyTouches(b, a) /\ UNCHANGED <<runState, opts, cancelRequested>>
  BY FiberStep DEF Inv
<1>2. /\ Coherent(b, a) /\ DepsDone(b, a) /\ Deps[a] \subseteq Actions
      /\ actState[b][a] \in ActStates /\ actState'[b][a] \in ActStates
  BY DepsAssumption DEF Inv, TypeOK, ActionTypes
<1>3. /\ Abstract' = [Abstract EXCEPT ![b][a] = Outcome(actState'[b][a])]
      /\ \A x \in Actions : Abstract[b][x] = Outcome(actState[b][x])
  BY <1>1, OneOutcome DEF Inv, Abstract
<1>4. CASE Outcome(actState'[b][a]) = Outcome(actState[b][a])
  <2>1. \A c \in Builds, x \in Actions : Outcome(actState'[c][x]) = Outcome(actState[c][x])
    BY <1>1, <1>4 DEF OnlyTouches
  <2>2. Abstract' = Abstract
    BY <2>1 DEF Abstract
  <2> QED BY <1>1, <2>2 DEF Lifecycle!vars, Abstract
<1>5. CASE pc[b][a] = "gate1" /\ ~cancelRequested[b] /\ actState'[b][a] = "scheduled"
  <2>1. runState[b] = "running" /\ actState[b][a] = "pending"
    BY <1>2, <1>5 DEF Coherent, StatesAt
  <2>2. \A d \in Deps[a] : Abstract[b][d] = "done"
    BY <1>2, <1>3, <1>5, OutcomeValues DEF DepsDone, Launched, Settlements
  <2>3. Abstract' = [Abstract EXCEPT ![b][a] = "active"] /\ Abstract[b][a] = "waiting"
    BY <1>3, <1>5, <2>1, OutcomeValues
  <2> QED BY <1>1, <1>5, <2>1, <2>2, <2>3 DEF Lifecycle!Activate, Abstract
<1>6. CASE /\ pc[b][a] \in {"gate2", "cacheSleep", "work"}
           /\ actState'[b][a] \in IF cancelRequested[b] THEN {"cancelled"} ELSE {"done", "failed"}
  <2>1. runState[b] = "running" /\ actState[b][a] \in {"scheduled", "retry", "running"}
    BY <1>2, <1>6 DEF Coherent, StatesAt
  <2>2. Abstract' = [Abstract EXCEPT ![b][a] = actState'[b][a]] /\ Abstract[b][a] = "active"
    BY <1>3, <1>6, <2>1, OutcomeValues DEF Settlements
  <2> QED BY <1>1, <1>6, <2>1, <2>2 DEF Lifecycle!Settle, Abstract
<1>7. \/ Outcome(actState'[b][a]) = Outcome(actState[b][a])
      \/ pc[b][a] = "gate1" /\ ~cancelRequested[b] /\ actState'[b][a] = "scheduled"
      \/ /\ pc[b][a] \in {"gate2", "cacheSleep", "work"}
         /\ actState'[b][a] \in IF cancelRequested[b] THEN {"cancelled"} ELSE {"done", "failed"}
  BY <1>1, <1>2, OutcomeValues DEF Moves, Coherent, StatesAt
<1> QED BY <1>4, <1>5, <1>6, <1>7

LEMMA LifecycleLaunch ==
    ASSUME Inv, NEW b \in Builds, LaunchWave(b)
    PROVE  Lifecycle!Skip(b)
<1>1. PICK S \in SUBSET Pending(b) :
        /\ Skips(b, S)
        /\ actState' = [actState EXCEPT ![b] = [a \in Actions |-> IF a \in S THEN "skipped" ELSE @[a]]]
  BY DEF LaunchWave
<1>2. /\ UNCHANGED <<runState, cancelRequested>> /\ runState[b] = "running" /\ ~cancelRequested[b]
      /\ actState \in [Builds -> [Actions -> ActStates]]
      /\ \A x \in Actions : Coherent(b, x) /\ Deps[x] \subseteq Actions
      /\ S \subseteq Actions
  BY <1>1, MineActions, DepsAssumption DEF LaunchWave, control, WaveDone, Inv, TypeOK, ActionTypes
<1>3. Abstract' = [Abstract EXCEPT ![b] = [a \in Actions |-> IF a \in S THEN "skipped" ELSE @[a]]]
  BY <1>1, <1>2, OutcomeValues DEF Abstract, Settlements
<1>4. \A a \in S : Abstract[b][a] = "waiting"
  BY <1>2, OutcomeValues DEF Abstract, Pending
<1>5. ASSUME NEW a \in S
      PROVE  \E d \in Deps[a] : Abstract[b][d] \in {"failed", "skipped"} \/ d \in S
  <2>1. PICK d \in Deps[a] : actState[b][d] \in {"failed", "cancelled", "skipped"} \/ d \in S
    BY <1>1 DEF Skips
  <2>2. d \in Actions /\ actState[b][d] # "cancelled"
    BY <1>2 DEF Coherent
  <2> QED BY <2>1, <2>2, OutcomeValues DEF Abstract, Settlements
<1> QED BY <1>2, <1>3, <1>4, <1>5 DEF Lifecycle!Skip, Lifecycle!Waiting, Lifecycle!Doomed, Abstract

LEMMA LifecycleFinish ==
    ASSUME Inv, Inv', NEW b \in Builds, FinishRun(b)
    PROVE  Lifecycle!Conclude(b)
<1>1. /\ UNCHANGED cancelRequested /\ runState[b] = "running"
      /\ actState \in [Builds -> [Actions -> ActStates]]
      /\ runState \in [Builds -> RunStates]
      /\ \A x \in Actions : Coherent(b, x) /\ Deps[x] \subseteq Actions
      /\ Pending(b) \subseteq Actions
      /\ actState' \in [Builds -> [Actions -> ActStates]]
  BY MineActions, DepsAssumption DEF FinishRun, control, WaveDone, Inv, TypeOK, ActionTypes, RunTypes
<1> DEFINE W == {a \in Actions : Abstract[b][a] = "waiting"}
<1>2. \A x \in Actions : Abstract[b][x] # "active"
  BY <1>1, FinishOutcome, OutcomeValues DEF Abstract, Settlements
<1>3. W = Pending(b)
  BY <1>1, FinishOutcome, OutcomeValues DEF Abstract, Settlements, Pending, Coherent
<1>4. ASSUME ~cancelRequested[b], NEW a \in W
      PROVE  \E d \in Deps[a] : Abstract[b][d] \in {"failed", "skipped"} \/ d \in W
  <2>1. PICK d \in Deps[a] : actState[b][d] \in {"failed", "cancelled", "skipped"} \/ d \in Pending(b)
    BY <1>3, <1>4, FinishOutcome DEF Skips
  <2>2. d \in Actions /\ actState[b][d] # "cancelled"
    BY <1>1, <1>4 DEF Coherent
  <2> QED BY <1>3, <2>1, <2>2, OutcomeValues DEF Abstract, Settlements
<1>5. Abstract' = [Abstract EXCEPT ![b] =
            [a \in Actions |-> IF a \in W THEN (IF cancelRequested[b] THEN "cancelled" ELSE "skipped")
                               ELSE @[a]]]
  <2>1. \A x \in Actions : Abstract'[b][x] =
            IF x \in W THEN (IF cancelRequested[b] THEN "cancelled" ELSE "skipped") ELSE Abstract[b][x]
    BY <1>3, FinishOutcome, OutcomeValues DEF Abstract, Settlements
  <2>2. \A c \in Builds : c # b => Abstract'[c] = Abstract[c]
    BY <1>1, FinishOutcome DEF Abstract
  <2> HIDE DEF W
  <2>3. Abstract'[b] = [a \in Actions |-> IF a \in W THEN (IF cancelRequested[b] THEN "cancelled" ELSE "skipped")
                                         ELSE Abstract[b][a]]
    BY <2>1 DEF Abstract
  <2> QED BY <2>2, <2>3 DEF Abstract
<1>6. runState' = [runState EXCEPT ![b] =
            IF \E a \in Actions : Abstract'[b][a] = "cancelled" THEN "cancelled"
            ELSE IF \E a \in Actions : Abstract'[b][a] = "failed" THEN "failed" ELSE "succeeded"]
  <2>1. \A a \in Actions : /\ Abstract'[b][a] = "cancelled" <=> actState'[b][a] = "cancelled"
                           /\ Abstract'[b][a] = "failed" <=> actState'[b][a] = "failed"
    BY <1>1, OutcomeValues DEF Abstract, Settlements
  <2> HIDE DEF Abstract
  <2> QED BY <2>1, FinishOutcome DEF Verdict
<1> QED
  BY <1>1, <1>2, <1>4, <1>5, <1>6
     DEF Lifecycle!Conclude, Lifecycle!Waiting, Lifecycle!Doomed, Abstract

\* Every step of the engine is a step of the lifecycle or invisible in it.
LEMMA LifecycleStep == Inv /\ Inv' /\ [Next]_vars => [Lifecycle!Next]_(Lifecycle!vars)
<1> SUFFICES ASSUME Inv, Inv', [Next]_vars PROVE Lifecycle!Next \/ UNCHANGED Lifecycle!vars
  OBVIOUS
<1>1. ASSUME NEW b \in Builds, StartBuild(b) PROVE Lifecycle!Next
  BY <1>1, LifecycleStart DEF Lifecycle!Next
<1>2. ASSUME NEW b \in Builds, CancelBuild(b) PROVE Lifecycle!Next
  BY <1>2 DEF CancelBuild, Lifecycle!Next, Lifecycle!Stop
<1>3. ASSUME NEW b \in Builds, Pause(b) \/ Resume(b) \/ Step(b) PROVE UNCHANGED Lifecycle!vars
  BY <1>3, Invisible DEF Pause, Resume, Step, action
<1>4. ASSUME NEW b \in Builds, LaunchWave(b) PROVE Lifecycle!Next
  BY <1>4, LifecycleLaunch DEF Lifecycle!Next
<1>5. ASSUME NEW b \in Builds, FinishRun(b) PROVE Lifecycle!Next
  BY <1>5, LifecycleFinish DEF Lifecycle!Next
<1>6. ASSUME NEW b \in Builds, NEW a \in Actions, Continue(b, a) \/ Wake(b, a)
      PROVE  Lifecycle!Next \/ UNCHANGED Lifecycle!vars
  BY <1>6, LifecycleFiber DEF Lifecycle!Next
<1>7. CASE UNCHANGED vars
  BY <1>7, Invisible DEF vars, control, action
<1> QED BY <1>1, <1>2, <1>3, <1>4, <1>5, <1>6, <1>7 DEF Next, Call, Execute

\* The engine, with its gates, retries, cache, waves and sleeps, implements the
\* build lifecycle for every DAG and any number of builds.
THEOREM EngineImplementsLifecycle == Spec => ImplementsLifecycle
BY LifecycleInit, LifecycleStep, Invariance, PTL DEF Spec, ImplementsLifecycle, Lifecycle!Spec

-----------------------------------------------------------------------------
(* Retries, cache and node slots *)

\* Calls and waves touch no attempt, hit, node, slot or cache entry, and what
\* they change of an action is neither in flight nor an outcome of its work.
Quiet ==
    /\ UNCHANGED <<opts, node, attempt, cacheHit, activeJobs, cas>>
    /\ \A c \in Builds : runState'[c] = "absent" <=> runState[c] = "absent"
    /\ \A c \in Builds, x \in Actions :
        /\ \/ pc'[c][x] = pc[c][x]
           \/ pc[c][x] \in {"idle", "parked1"} /\ pc'[c][x] = "gate1"
           \/ pc[c][x] = "parked2" /\ pc'[c][x] = "gate2"
        /\ \/ actState'[c][x] = actState[c][x]
           \/ actState[c][x] = "pending" /\ actState'[c][x] \in {"skipped", "cancelled"}

LEMMA QuietSteps ==
    ASSUME Inv, NEW b \in Builds,
           CancelBuild(b) \/ Pause(b) \/ Resume(b) \/ Step(b) \/ LaunchWave(b) \/ FinishRun(b)
    PROVE  Quiet
<1>1. /\ pc \in [Builds -> [Actions -> Pcs]] /\ actState \in [Builds -> [Actions -> ActStates]]
      /\ runState \in [Builds -> RunStates]
  BY DEF Inv, TypeOK, RunTypes, ActionTypes
<1>2. CASE CancelBuild(b) \/ Pause(b) \/ Resume(b) \/ Step(b)
  <2>1. OnlyUnparks
    <3>1. CASE Pause(b)
      BY <3>1 DEF Pause, action, OnlyUnparks
    <3> QED BY <1>2, <3>1, ReleaseUnparks, StepUnparks DEF CancelBuild, Resume
  <2> QED BY <1>2, <2>1 DEF CancelBuild, Pause, Resume, Step, action, OnlyUnparks, Quiet
<1>3. CASE LaunchWave(b)
  <2>1. \A c \in Builds, x \in Actions :
          /\ pc'[c][x] = pc[c][x] \/ (pc[c][x] = "idle" /\ pc'[c][x] = "gate1")
          /\ \/ actState'[c][x] = actState[c][x]
             \/ actState[c][x] = "pending" /\ actState'[c][x] = "skipped"
    BY <1>1, <1>3 DEF LaunchWave, WaveDone, Pending
  <2> QED BY <1>3, <2>1 DEF LaunchWave, control, Quiet
<1>4. CASE FinishRun(b)
  <2>1. \A c \in Builds, x \in Actions :
          \/ actState'[c][x] = actState[c][x]
          \/ actState[c][x] = "pending" /\ actState'[c][x] \in {"skipped", "cancelled"}
    <3>1. actState' = [actState EXCEPT ![b] = actState'[b]]
      BY <1>4, FinishOutcome
    <3>2. \A x \in Actions :
            actState'[b][x] = IF x \notin Pending(b) THEN actState[b][x]
                              ELSE IF cancelRequested[b] THEN "cancelled" ELSE "skipped"
      BY <1>4, FinishOutcome
    <3>3. \A c \in Builds : c # b => actState'[c] = actState[c]
      BY <1>1, <3>1
    <3> QED BY <3>2, <3>3 DEF Pending
  <2>2. \A c \in Builds : runState'[c] = "absent" <=> runState[c] = "absent"
    BY <1>1, <1>4, FinishOutcome DEF Verdict, FinishRun, WaveDone
  <2> QED BY <1>4, <2>1, <2>2 DEF FinishRun, control, Quiet
<1> QED BY <1>2, <1>3, <1>4

LEMMA FiberFrame ==
    ASSUME TypeOK, NEW b \in Builds, NEW a \in Actions, Continue(b, a) \/ Wake(b, a),
           NEW c \in Builds, NEW x \in Actions, c # b \/ x # a
    PROVE  /\ attempt'[c][x] = attempt[c][x] /\ cacheHit'[c][x] = cacheHit[c][x]
           /\ node'[c][x] = node[c][x]
<1> USE DEF Continue, Wake, Park, LeaveUnscheduled, Schedule, AbortAtGate, StartAttempt,
            AbortAfterSleep, FinishFromCache, RetryLater, BackoffOver, Fail, Succeed, Stamped, control
<1>1. UNCHANGED attempt \/ \E v : attempt' = [attempt EXCEPT ![b][a] = v]
  <2>1. CASE BackoffOver(b, a)
    <3>1. attempt' = [attempt EXCEPT ![b][a] = attempt[b][a] + 1]
      BY <2>1 DEF TypeOK, ActionTypes
    <3> QED BY <3>1
  <2>2. CASE ~BackoffOver(b, a)
    BY <2>2
  <2> QED BY <2>1, <2>2
<1>2. UNCHANGED cacheHit \/ cacheHit' = [cacheHit EXCEPT ![b][a] = TRUE]
  OBVIOUS
<1>3. UNCHANGED node \/ \E n \in Nodes : node' = [node EXCEPT ![b][a] = n]
  OBVIOUS
<1> QED BY <1>1, <1>2, <1>3 DEF TypeOK, ActionTypes

\* Attempts stay within the budget; what fails has used it up, and an action the
\* request makes fail is done only from the cache.
RetryOK(b, a) ==
    /\ runState[b] = "absent" => attempt[b][a] = 0
    /\ attempt[b][a] <= MaxAttempts(b)
    /\ pc[b][a] = "backoff" => attempt[b][a] < MaxAttempts(b)
    /\ actState[b][a] = "failed" => FailScheduled(b, a) /\ attempt[b][a] = MaxAttempts(b)
    /\ actState[b][a] = "done" /\ FailScheduled(b, a) => cacheHit[b][a]

RetryInv == \A b \in Builds : \A a \in Actions : RetryOK(b, a)

LEMMA BudgetNat == ASSUME TypeOK, NEW b \in Builds PROVE opts[b].retries \in Nat
<1>1. opts[b] \in StartOptions
  BY DEF TypeOK, RunTypes
<1> QED BY <1>1, ConstantsAssumption DEF StartOptions

LEMMA RetryInit == Init => RetryInv
<1> SUFFICES ASSUME Init PROVE RetryInv
  OBVIOUS
<1>1. NoOpts.retries \in Nat
  BY ConstantsAssumption DEF NoOpts
<1>2. \A b \in Builds : opts[b] = NoOpts
  BY DEF Init
<1> QED BY <1>1, <1>2 DEF Init, RetryInv, RetryOK, MaxAttempts

\* The fields of an action that its own step changes.
LEMMA RetryFiber ==
    ASSUME Inv, NEW b \in Builds, NEW a \in Actions, RetryOK(b, a), Continue(b, a) \/ Wake(b, a)
    PROVE  RetryOK(b, a)'
<1>1. /\ attempt \in [Builds -> [Actions -> Nat]] /\ cacheHit \in [Builds -> [Actions -> BOOLEAN]]
      /\ actState \in [Builds -> [Actions -> ActStates]] /\ pc \in [Builds -> [Actions -> Pcs]]
      /\ opts[b].retries \in Nat /\ Coherent(b, a)
  BY BudgetNat DEF Inv, TypeOK, ActionTypes
<1>2. UNCHANGED <<runState, opts>> /\ runState[b] = "running"
  <2>1. pc[b][a] # "idle"
    BY FiberStep DEF Inv, Moves
  <2> QED BY <1>1, <2>1, FiberStep DEF Inv, Coherent
<1>3. MaxAttempts(b)' = MaxAttempts(b) /\ MaxAttempts(b) \in Nat /\ 1 <= MaxAttempts(b)
  BY <1>1, <1>2 DEF MaxAttempts
<1> USE DEF RetryOK, FailScheduled
<1>4. CASE Park(b, a)
  BY <1>1, <1>2, <1>3, <1>4 DEF Park
<1>5. CASE LeaveUnscheduled(b, a)
  BY <1>1, <1>2, <1>3, <1>5 DEF LeaveUnscheduled, Goto
<1>6. CASE Schedule(b, a)
  <2>1. actState'[b][a] = "scheduled" /\ pc'[b][a] \in {"cacheSleep", "gate2"}
    BY <1>1, <1>6 DEF Schedule, SetState, Goto
  <2>2. attempt'[b][a] = attempt[b][a] \/ attempt'[b][a] = 1
    BY <1>1, <1>6 DEF Schedule
  <2> QED BY <1>2, <1>3, <2>1, <2>2
<1>7. CASE AbortAtGate(b, a)
  BY <1>1, <1>2, <1>3, <1>7 DEF AbortAtGate, SetState, Goto
<1>8. CASE StartAttempt(b, a)
  BY <1>1, <1>2, <1>3, <1>8 DEF StartAttempt, SetState, Goto
<1>9. CASE AbortAfterSleep(b, a)
  BY <1>1, <1>2, <1>3, <1>9 DEF AbortAfterSleep, SetState, Goto
<1>10. CASE FinishFromCache(b, a)
  BY <1>1, <1>2, <1>3, <1>10 DEF FinishFromCache, SetState, Goto
<1>11. CASE RetryLater(b, a)
  BY <1>1, <1>2, <1>3, <1>11 DEF RetryLater, SetState, Goto
<1>12. CASE BackoffOver(b, a)
  <2>1. attempt'[b][a] = attempt[b][a] + 1 /\ pc'[b][a] = "gate2" /\ actState'[b][a] = "retry"
    BY <1>1, <1>12 DEF BackoffOver, Goto, Coherent, StatesAt
  <2>2. attempt[b][a] \in Nat /\ attempt[b][a] < MaxAttempts(b)
    BY <1>1, <1>12 DEF BackoffOver
  <2> QED BY <1>2, <1>3, <2>1, <2>2
<1>13. CASE Fail(b, a)
  <2>1. attempt[b][a] \in Nat /\ attempt[b][a] >= MaxAttempts(b) /\ a = opts[b].failAction
    BY <1>1, <1>13 DEF Fail
  <2>2. actState'[b][a] = "failed" /\ pc'[b][a] = "idle" /\ UNCHANGED attempt
    BY <1>1, <1>13 DEF Fail, SetState, Goto
  <2> QED BY <1>2, <1>3, <2>1, <2>2
<1>14. CASE Succeed(b, a)
  BY <1>1, <1>2, <1>3, <1>14 DEF Succeed, SetState, Goto
<1>15. CASE Stamped(b, a)
  BY <1>1, <1>2, <1>3, <1>15 DEF Stamped, Goto
<1> QED
  BY <1>4, <1>5, <1>6, <1>7, <1>8, <1>9, <1>10, <1>11, <1>12, <1>13, <1>14, <1>15 DEF Continue, Wake

\* A new build touches nothing of the others and starts from cleared fields.
LEMMA StartFrame ==
    ASSUME Inv, NEW b \in Builds, StartBuild(b)
    PROVE  /\ runState[b] = "absent" /\ runState'[b] = "running" /\ opts'[b] \in StartOptions
           /\ \A x \in Actions : actState[b][x] = "none" /\ actState'[b][x] \in {"none", "pending"}
                                 /\ pc[b][x] = "idle"
           /\ \A c \in Builds : c # b => /\ runState'[c] = runState[c] /\ opts'[c] = opts[c]
                                         /\ actState'[c] = actState[c]
           /\ UNCHANGED <<node, attempt, cacheHit, pc, activeJobs, cas>>
<1>1. /\ actState \in [Builds -> [Actions -> ActStates]] /\ runState \in [Builds -> RunStates]
      /\ opts \in [Builds -> StartOptions]
  BY DEF Inv, TypeOK, RunTypes, ActionTypes
<1>2. \A x \in Actions : actState[b][x] = "none" /\ pc[b][x] = "idle"
  BY DEF StartBuild, Inv, Coherent
<1>3. opts'[b] \in StartOptions
  BY <1>1 DEF StartBuild, StartOptions
<1>4. /\ \A x \in Actions : actState'[b][x] \in {"none", "pending"}
      /\ \A c \in Builds : c # b => actState'[c] = actState[c] /\ opts'[c] = opts[c]
  BY <1>1 DEF StartBuild
<1> QED BY <1>1, <1>2, <1>3, <1>4 DEF StartBuild

LEMMA RetryStep == Inv /\ RetryInv /\ [Next]_vars => RetryInv'
<1> SUFFICES ASSUME Inv, RetryInv, [Next]_vars, NEW c \in Builds, NEW x \in Actions
             PROVE  RetryOK(c, x)'
  BY DEF RetryInv
<1> USE DEF RetryInv
<1>1. ASSUME Quiet PROVE RetryOK(c, x)'
  BY <1>1 DEF Quiet, RetryOK, MaxAttempts, FailScheduled
<1>2. ASSUME NEW b \in Builds, StartBuild(b) PROVE RetryOK(c, x)'
  <2>1. CASE c = b
    <3>1. attempt'[c][x] = 0 /\ runState'[c] = "running" /\ pc'[c][x] = "idle"
          /\ actState'[c][x] \in {"none", "pending"}
      BY <1>2, <2>1, StartFrame DEF RetryOK
    <3>2. opts'[c].retries \in Nat
      BY <1>2, <2>1, StartFrame, ConstantsAssumption DEF StartOptions
    <3> QED BY <3>1, <3>2 DEF RetryOK, MaxAttempts
  <2>2. CASE c # b
    BY <1>2, <2>2, StartFrame DEF RetryOK, MaxAttempts, FailScheduled
  <2> QED BY <2>1, <2>2
<1>3. ASSUME NEW b \in Builds, NEW a \in Actions, Continue(b, a) \/ Wake(b, a) PROVE RetryOK(c, x)'
  <2>1. CASE c = b /\ x = a
    BY <1>3, <2>1, RetryFiber
  <2>2. CASE c # b \/ x # a
    <3>1. /\ attempt'[c][x] = attempt[c][x] /\ cacheHit'[c][x] = cacheHit[c][x]
          /\ pc'[c][x] = pc[c][x] /\ actState'[c][x] = actState[c][x]
          /\ UNCHANGED <<runState, opts>>
      BY <1>3, <2>2, FiberFrame, FiberStep DEF Inv, OnlyTouches
    <3> QED BY <3>1 DEF RetryOK, MaxAttempts, FailScheduled
  <2> QED BY <2>1, <2>2
<1>4. CASE UNCHANGED vars
  BY <1>4 DEF vars, control, action, RetryOK, MaxAttempts, FailScheduled
<1> QED BY <1>1, <1>2, <1>3, <1>4, QuietSteps DEF Next, Call, Execute

\* An action fails only after its last allowed attempt, only the action the
\* request makes fail does, and no attempt exceeds the budget.
THEOREM RetriesAreExact == Spec => []RetriesExact
<1>1. Inv /\ RetryInv => RetriesExact
  BY MineActions DEF Inv, RetryInv, RetryOK, RetriesExact
<1> QED BY <1>1, Invariance, RetryInit, RetryStep, PTL DEF Spec

-----------------------------------------------------------------------------
\* Build b executed a to success.
Product(b, a) == actState[b][a] = "done" /\ ~cacheHit[b][a] /\ opts[b].failAction # a

\* What the cache holds was produced by some build, a hit is another build's
\* product, and who sleeps for a cache hit will find the entry.
CacheInv ==
    /\ \A a \in Actions : cas[a] # NoBuild => Product(cas[a], a)
    /\ \A b \in Builds, a \in Actions :
        /\ cacheHit[b][a] => actState[b][a] = "done" /\ \E c \in Builds \ {b} : Product(c, a)
        /\ pc[b][a] = "cacheSleep" => cas[a] # NoBuild

\* What a build produced stays its product.
LEMMA ProductKept ==
    ASSUME Inv, Inv', [Next]_vars, NEW c \in Builds, NEW x \in Actions, Product(c, x)
    PROVE  Product(c, x)'
<1> USE DEF Product
<1>1. ASSUME Quiet PROVE Product(c, x)'
  BY <1>1 DEF Quiet
<1>2. ASSUME NEW b \in Builds, StartBuild(b) PROVE Product(c, x)'
  BY <1>2, StartFrame
<1>3. ASSUME NEW b \in Builds, NEW a \in Actions, Continue(b, a) \/ Wake(b, a) PROVE Product(c, x)'
  <2>1. Moves(b, a) /\ OnlyTouches(b, a) /\ UNCHANGED opts /\ Coherent(b, a)
    BY <1>3, FiberStep DEF Inv
  <2>2. CASE c = b /\ x = a
    <3>1. pc[b][a] = "stamp"
      BY <2>1, <2>2 DEF Moves, Coherent, StatesAt
    <3>2. Stamped(b, a)
      BY <1>3, <3>1 DEF Continue, Wake, Park, LeaveUnscheduled, Schedule, AbortAtGate, StartAttempt, PassGate,
             GatePc, AbortAfterSleep, FinishFromCache, RetryLater, BackoffOver, Fail, Succeed, WorkDone
    <3> QED BY <2>2, <3>2 DEF Stamped
  <2>3. CASE c # b \/ x # a
    BY <1>3, <2>1, <2>3, FiberFrame DEF OnlyTouches, Inv
  <2> QED BY <2>2, <2>3
<1>4. CASE UNCHANGED vars
  BY <1>4 DEF vars, action
<1> QED BY <1>1, <1>2, <1>3, <1>4, QuietSteps DEF Next, Call, Execute

LEMMA CacheStep == Inv /\ Inv' /\ CacheInv /\ [Next]_vars => CacheInv'
<1> SUFFICES ASSUME Inv, Inv', CacheInv, [Next]_vars PROVE CacheInv'
  OBVIOUS
<1>1. /\ cas \in [Actions -> Builds \cup {NoBuild}] /\ NoBuild \notin Builds
      /\ cacheHit \in [Builds -> [Actions -> BOOLEAN]]
      /\ actState \in [Builds -> [Actions -> ActStates]] /\ pc \in [Builds -> [Actions -> Pcs]]
  BY ConstantsAssumption DEF Inv, TypeOK, ActionTypes, SharedTypes
<1> DEFINE Hit(b, a) == cacheHit[b][a] => actState[b][a] = "done" /\ \E c \in Builds \ {b} : Product(c, a)
           Sleep(b, a) == pc[b][a] = "cacheSleep" => cas[a] # NoBuild
<1>2. ASSUME UNCHANGED cas,
             \A b \in Builds, a \in Actions :
                /\ cacheHit'[b][a] = cacheHit[b][a]
                /\ pc'[b][a] = "cacheSleep" => pc[b][a] = "cacheSleep"
                /\ cacheHit[b][a] => actState'[b][a] = actState[b][a]
      PROVE  CacheInv'
  <2>1. ASSUME NEW a \in Actions, NEW c \in Builds, cas[a] = c PROVE Product(c, a)'
    <3>1. Product(c, a)
      BY <1>1, <2>1 DEF CacheInv
    <3> QED BY <3>1, ProductKept
  <2>2. ASSUME NEW b \in Builds, NEW a \in Actions PROVE Hit(b, a)' /\ Sleep(b, a)'
    BY <1>2, ProductKept DEF CacheInv
  <2>3. \A a \in Actions : cas[a] = NoBuild \/ cas[a] \in Builds
    BY <1>1
  <2> QED BY <1>2, <2>1, <2>2, <2>3 DEF CacheInv, Product
<1>3. ASSUME NEW b \in Builds, NEW a \in Actions, Continue(b, a) \/ Wake(b, a) PROVE CacheInv'
  <2>1. Moves(b, a) /\ OnlyTouches(b, a) /\ Coherent(b, a)
    BY <1>3, FiberStep DEF Inv
  <2>2. ASSUME NEW c \in Builds, NEW x \in Actions, c # b \/ x # a
        PROVE  Hit(c, x)' /\ (pc'[c][x] = "cacheSleep" => cas[x] # NoBuild)
    <3>1. /\ cacheHit'[c][x] = cacheHit[c][x] /\ actState'[c][x] = actState[c][x]
          /\ pc'[c][x] = pc[c][x]
      BY <1>3, <2>1, <2>2, FiberFrame DEF OnlyTouches, Inv
    <3> QED BY <3>1, ProductKept DEF CacheInv
  <2>3. actState[b][a] # "done" => ~cacheHit[b][a]
    BY DEF CacheInv
  <2>4. Hit(b, a)'
    <3>1. CASE FinishFromCache(b, a)
      <4>1. cas[a] \in Builds /\ Product(cas[a], a) /\ actState[b][a] = "scheduled"
        BY <1>1, <2>1, <3>1 DEF FinishFromCache, CacheInv, Coherent, StatesAt
      <4>2. PICK c \in Builds : c = cas[a]
        BY <4>1
      <4>3. c # b /\ Product(c, a)'
        BY <4>1, <4>2, ProductKept DEF Product
      <4> QED BY <1>1, <3>1, <4>3 DEF FinishFromCache, SetState
    <3>2. CASE ~FinishFromCache(b, a)
      <4>1. UNCHANGED cacheHit
        BY <1>3, <3>2
           DEF Continue, Wake, Park, LeaveUnscheduled, Schedule, AbortAtGate, StartAttempt,
               AbortAfterSleep, RetryLater, BackoffOver, Fail, Succeed, Stamped
      <4>2. actState[b][a] = "done" => actState'[b][a] = "done"
        BY <2>1 DEF Moves, Coherent, StatesAt
      <4> QED BY <4>1, <4>2, ProductKept DEF CacheInv
    <3> QED BY <3>1, <3>2
  <2>5. pc'[b][a] = "cacheSleep" => cas[a] # NoBuild
    <3> SUFFICES ASSUME pc'[b][a] = "cacheSleep" PROVE cas[a] # NoBuild
      OBVIOUS
    <3>1. ~Wake(b, a)
      BY <1>1
         DEF Wake, Goto, AbortAfterSleep, FinishFromCache, RetryLater, BackoffOver, Fail, Succeed, Stamped
    <3>2. ~Park(b, a) /\ ~LeaveUnscheduled(b, a) /\ ~AbortAtGate(b, a) /\ ~StartAttempt(b, a)
      <4>1. \A l : Goto(b, a, l) => l = "cacheSleep"
        BY <1>1 DEF Goto
      <4>2. ~Park(b, a)
        <5>1. ASSUME NEW l, pc' = [pc EXCEPT ![b][a] = l] PROVE l = "cacheSleep"
          BY <1>1, <5>1
        <5>2. Park(b, a) => \E l \in {"parked1", "parked2"} : pc' = [pc EXCEPT ![b][a] = l]
          BY DEF Park
        <5> QED BY <5>1, <5>2
      <4> QED BY <4>1, <4>2 DEF LeaveUnscheduled, AbortAtGate, StartAttempt
    <3>3. Schedule(b, a)
      BY <1>3, <3>1, <3>2 DEF Continue
    <3> QED BY <1>1, <3>3 DEF Schedule, CacheUsable, Goto
  <2>6. ASSUME NEW x \in Actions PROVE cas'[x] = cas[x] \/ (x = a /\ cas'[x] = b /\ Product(b, a)')
    <3>1. CASE Succeed(b, a)
      <4>1. actState[b][a] = "running"
        BY <2>1, <3>1 DEF Succeed, WorkDone, Coherent, StatesAt
      <4>2. Product(b, a)'
        BY <1>1, <2>3, <3>1, <4>1 DEF Succeed, SetState, FailScheduled, Product
      <4> QED BY <1>1, <3>1, <4>2 DEF Succeed
    <3>2. CASE ~Succeed(b, a)
      BY <1>3, <3>2
         DEF Continue, Wake, Park, LeaveUnscheduled, Schedule, AbortAtGate, StartAttempt,
             AbortAfterSleep, FinishFromCache, RetryLater, BackoffOver, Fail, Stamped
    <3> QED BY <3>1, <3>2
  <2>7. ASSUME NEW x \in Actions, NEW c \in Builds, cas'[x] = c PROVE Product(c, x)'
    <3>1. CASE cas'[x] = cas[x]
      <4>1. Product(c, x)
        BY <1>1, <2>7, <3>1 DEF CacheInv
      <4> QED BY <4>1, ProductKept
    <3>2. CASE cas'[x] # cas[x]
      BY <2>6, <2>7, <3>2
    <3> QED BY <3>1, <3>2
  <2>8. \A x \in Actions : cas'[x] = NoBuild \/ cas'[x] \in Builds
    BY DEF Inv, TypeOK, SharedTypes
  <2>9. ASSUME NEW c \in Builds, NEW x \in Actions PROVE Hit(c, x)' /\ Sleep(c, x)'
    <3>1. cas[x] # NoBuild => cas'[x] # NoBuild
      BY <1>1, <2>6
    <3> QED BY <2>2, <2>4, <2>5, <3>1
  <2> QED BY <2>7, <2>8, <2>9 DEF CacheInv, Product
<1>4. ASSUME Quiet PROVE CacheInv'
  BY <1>1, <1>2, <1>4 DEF Quiet, CacheInv
<1>5. ASSUME NEW b \in Builds, StartBuild(b) PROVE CacheInv'
  <2>1. \A x \in Actions : ~cacheHit[b][x]
    BY <1>5, StartFrame DEF CacheInv
  <2>2. \A c \in Builds, x \in Actions : cacheHit[c][x] => actState'[c][x] = actState[c][x]
    BY <1>5, <2>1, StartFrame
  <2>3. UNCHANGED <<cas, cacheHit, pc>>
    BY <1>5, StartFrame
  <2> QED BY <1>2, <2>2, <2>3
<1>6. CASE UNCHANGED vars
  BY <1>1, <1>2, <1>6 DEF vars, action
<1> QED BY <1>3, <1>4, <1>5, <1>6, QuietSteps DEF Next, Call, Execute

\* The cache serves only what some build executed to success, and a hit copies
\* another build's work.
THEOREM CacheIsSound == Spec => []CacheSound
<1>1. Init => CacheInv
  BY DEF Init, CacheInv
<1>2. Inv /\ CacheInv => CacheSound
  BY DEF CacheInv, Product, CacheSound
<1> QED BY <1>1, <1>2, Invariance, CacheStep, PTL DEF Spec

-----------------------------------------------------------------------------
(* Gates *)

\* Nobody waits at an open gate, and every parked action can be found.
Served(b) ==
    /\ ~paused[b] => gateWaiters[b] = <<>>
    /\ \A a \in Actions : pc[b][a] \in {"parked1", "parked2"} => a \in WaitingActions(b)

GatesServed == \A b \in Builds : Served(b)

LEMMA ServedStep == Inv /\ GatesServed /\ [Next]_vars => GatesServed'
<1> SUFFICES ASSUME Inv, \A b \in Builds : Served(b), [Next]_vars, NEW c \in Builds
             PROVE  Served(c)'
  BY DEF GatesServed
<1>1. /\ gateWaiters \in [Builds -> Seq(Waiter)] /\ paused \in [Builds -> BOOLEAN]
      /\ pc \in [Builds -> [Actions -> Pcs]] /\ Served(c) /\ WaitersParked(c)
      /\ gateWaiters[c] \in Seq(Waiter)
  BY DEF Inv, TypeOK, ControlTypes, ActionTypes
<1>2. ASSUME gateWaiters'[c] = gateWaiters[c], paused[c] => paused'[c],
             \A x \in Actions : pc'[c][x] \in {"parked1", "parked2"} => pc'[c][x] = pc[c][x]
      PROVE  Served(c)'
  BY <1>1, <1>2 DEF Served, WaitingActions
<1>3. ASSUME NEW b \in Builds, ReleaseGates(b) PROVE Served(c)'
  <2>1. CASE c = b
    <3>1. gateWaiters'[b] = <<>>
      BY <1>1, <1>3 DEF ReleaseGates
    <3>2. ASSUME NEW x \in Actions PROVE pc'[b][x] \notin {"parked1", "parked2"}
      <4>1. pc'[b][x] = IF x \in WaitingActions(b) THEN Unpark(pc[b][x]) ELSE pc[b][x]
        BY <1>1, <1>3 DEF ReleaseGates
      <4> QED BY <1>1, <2>1, <4>1 DEF Unpark, Served
    <3> QED BY <2>1, <3>1, <3>2 DEF Served
  <2>2. CASE c # b
    BY <1>1, <1>2, <1>3, <2>2 DEF ReleaseGates
  <2> QED BY <2>1, <2>2
<1>4. ASSUME NEW b \in Builds, StepHead(b), UNCHANGED paused PROVE Served(c)'
  <2>1. CASE c = b
    <3> DEFINE w == gateWaiters[b]
               h == Head(w).action
    <3>1. w # <<>> /\ w \in Seq(Waiter) /\ Head(w) = w[1] /\ Head(w) \in Waiter
      BY <1>1, <1>4 DEF StepHead
    <3>2. gateWaiters'[b] = Tail(w) /\ pc' = [pc EXCEPT ![b][h] = Unpark(@)] /\ h \in Actions
      BY <1>1, <1>4, <3>1 DEF StepHead, Waiter
    <3>3. \A x \in Actions : /\ x # h => pc'[b][x] = pc[b][x]
                             /\ pc'[b][h] \in {"gate1", "gate2"}
      BY <1>1, <3>2 DEF Unpark
    <3>4. paused'[b]
      BY <1>1, <1>4, <2>1, <3>1 DEF Served
    <3> HIDE DEF w
    <3>5. Len(Tail(w)) = Len(w) - 1 /\ \A i \in 1..Len(Tail(w)) : Tail(w)[i] = w[i + 1]
      BY <3>1, HeadTailProperties
    <3>6. ASSUME NEW x \in Actions, x # h, NEW i \in 1..Len(w), w[i].action = x
          PROVE  \E j \in 1..Len(Tail(w)) : Tail(w)[j].action = x
      <4>1. i # 1 /\ Len(w) \in Nat
        BY <3>1, <3>6
      <4>2. i - 1 \in 1..Len(Tail(w)) /\ Tail(w)[i - 1] = w[i]
        BY <3>5, <4>1
      <4> QED BY <3>6, <4>2
    <3>7. ASSUME NEW x \in Actions, pc'[b][x] \in {"parked1", "parked2"}
          PROVE  x \in WaitingActions(b)'
      <4>1. x # h /\ pc[b][x] \in {"parked1", "parked2"}
        BY <3>2, <3>3, <3>7
      <4>2. x \in WaitingActions(b)
        BY <1>1, <2>1, <4>1 DEF Served
      <4>3. PICK i \in 1..Len(w) : w[i].action = x
        BY <4>2 DEF WaitingActions, w
      <4> QED BY <3>2, <3>6, <4>1, <4>3 DEF WaitingActions
    <3> QED BY <2>1, <3>4, <3>7 DEF Served
  <2>2. CASE c # b
    BY <1>1, <1>2, <1>4, <2>2 DEF StepHead
  <2> QED BY <2>1, <2>2
<1>5. ASSUME NEW b \in Builds, Step(b) PROVE Served(c)'
  <2>1. CASE StepTicket(b)
    BY <1>2, <1>5, <2>1 DEF Step, StepTicket
  <2> QED BY <1>4, <1>5, <2>1 DEF Step
<1>6. ASSUME NEW b \in Builds, Pause(b) PROVE Served(c)'
  BY <1>1, <1>2, <1>6 DEF Pause, action
<1>7. ASSUME NEW b \in Builds, StartBuild(b) \/ LaunchWave(b) \/ FinishRun(b) PROVE Served(c)'
  <2>1. UNCHANGED <<gateWaiters, paused>>
    BY <1>7 DEF StartBuild, LaunchWave, FinishRun, control
  <2>2. \A x \in Actions : pc'[c][x] = pc[c][x] \/ pc'[c][x] = "gate1"
    <3>1. CASE LaunchWave(b)
      BY <1>1, <3>1 DEF LaunchWave
    <3>2. CASE UNCHANGED pc
      BY <3>2
    <3> QED BY <1>7, <3>1, <3>2 DEF StartBuild, FinishRun
  <2> QED BY <1>2, <2>1, <2>2
<1>8. ASSUME NEW b \in Builds, NEW a \in Actions, Park(b, a) PROVE Served(c)'
  <2>1. CASE c = b
    <3>1. PICK g \in 1..2 :
            gateWaiters' = [gateWaiters EXCEPT ![b] = Append(@, [action |-> a, gate |-> g])]
      BY <1>8 DEF Park, TOTAL_GATES
    <3> DEFINE w == gateWaiters[b]
               n == [action |-> a, gate |-> g]
    <3>2. w \in Seq(Waiter) /\ n \in Waiter /\ gateWaiters'[b] = Append(w, n)
      BY <1>1, <2>1, <3>1 DEF Waiter, TOTAL_GATES
    <3>3. n.action = a
      OBVIOUS
    <3>4. paused'[b] /\ \A x \in Actions : x # a => pc'[b][x] = pc[b][x]
      BY <1>1, <1>8 DEF Park
    <3> HIDE DEF w, n
    <3>5. /\ Len(Append(w, n)) = Len(w) + 1 /\ Len(w) \in Nat
          /\ \A i \in 1..Len(w) : Append(w, n)[i] = w[i]
          /\ Append(w, n)[Len(w) + 1] = n
      BY <3>2
    <3>6. WaitingActions(b)' = WaitingActions(b) \cup {a}
      BY <3>2, <3>3, <3>5 DEF WaitingActions, w
    <3> QED BY <1>1, <2>1, <3>4, <3>6 DEF Served
  <2>2. CASE c # b
    BY <1>1, <1>2, <1>8, <2>2 DEF Park
  <2> QED BY <2>1, <2>2
<1>9. ASSUME NEW b \in Builds, NEW a \in Actions, Continue(b, a) \/ Wake(b, a), ~Park(b, a)
      PROVE  Served(c)'
  <2>1. UNCHANGED <<gateWaiters, paused>>
    BY <1>9 DEF Continue, Wake, LeaveUnscheduled, Schedule, AbortAtGate, StartAttempt, PassGate,
         AbortAfterSleep, FinishFromCache, RetryLater, BackoffOver, Fail, Succeed, Stamped, control
  <2>2. pc'[b][a] \notin {"parked1", "parked2"}
    BY <1>1, <1>9 DEF Continue, Wake, LeaveUnscheduled, Schedule, AbortAtGate, StartAttempt, Goto,
         AbortAfterSleep, FinishFromCache, RetryLater, BackoffOver, Fail, Succeed, Stamped
  <2>3. OnlyTouches(b, a)
    BY <1>9, FiberStep DEF Inv
  <2> QED BY <1>2, <2>1, <2>2, <2>3 DEF OnlyTouches
<1>10. CASE UNCHANGED vars
  BY <1>2, <1>10 DEF vars, control, action
<1> QED
  BY <1>3, <1>5, <1>6, <1>7, <1>8, <1>9, <1>10 DEF Next, Call, Execute, CancelBuild, Resume, Continue

\* No wakeup is lost: the waiters are the parked actions, each once.
THEOREM WakeupsKept == Spec => []NoLostWakeup
<1>1. Init => GatesServed
  BY DEF Init, Served, GatesServed
<1>2. ASSUME Inv, NEW b \in Builds, Served(b), NEW a \in Actions, NEW g \in 1..TOTAL_GATES
      PROVE  Cardinality({i \in DOMAIN gateWaiters[b] : gateWaiters[b][i] = [action |-> a, gate |-> g]})
               = IF pc[b][a] = (IF g = 1 THEN "parked1" ELSE "parked2") THEN 1 ELSE 0
  <2> DEFINE w == gateWaiters[b]
             I == {i \in DOMAIN w : w[i] = [action |-> a, gate |-> g]}
  <2>1. /\ w \in Seq(Waiter) /\ DOMAIN w = 1..Len(w)
        /\ \A i \in 1..Len(w) :
              /\ pc[b][w[i].action] = ParkedAt(w[i].gate)
              /\ \A j \in 1..Len(w) : w[i].action = w[j].action => i = j
    <3>1. w \in Seq(Waiter) /\ WaitersParked(b)
      BY <1>2 DEF Inv, TypeOK, ControlTypes
    <3> QED BY <3>1 DEF WaitersParked
  <2> HIDE DEF w
  <2>2. \A i \in 1..Len(w) : w[i] \in Waiter
    BY <2>1
  <2>3. CASE pc[b][a] = ParkedAt(g)
    <3>1. PICK i \in 1..Len(w) : w[i].action = a
      BY <1>2, <2>3 DEF Served, WaitingActions, ParkedAt, w
    <3>2. w[i].gate = g
      BY <2>1, <2>2, <2>3, <3>1 DEF ParkedAt, Waiter, TOTAL_GATES
    <3>3. w[i] = [action |-> a, gate |-> g]
      BY <2>2, <3>1, <3>2 DEF Waiter
    <3>4. I = {i}
      BY <2>1, <3>1, <3>3
    <3>5. Cardinality(I) = 1
      BY <3>4, FS_Singleton
    <3> QED BY <2>3, <3>5 DEF w, ParkedAt
  <2>4. CASE pc[b][a] # ParkedAt(g)
    <3>1. I = {}
      BY <2>1, <2>4
    <3>2. Cardinality(I) = 0
      BY <3>1, FS_EmptySet
    <3> QED BY <2>4, <3>2 DEF w, ParkedAt
  <2> QED BY <2>3, <2>4
<1>3. Inv /\ GatesServed => NoLostWakeup
  <2> SUFFICES ASSUME Inv, \A b \in Builds : Served(b), NEW b \in Builds
               PROVE  /\ ~paused[b] => gateWaiters[b] = <<>>
                      /\ \A a \in Actions : \A g \in 1..TOTAL_GATES :
                           Cardinality({i \in DOMAIN gateWaiters[b] :
                                          gateWaiters[b][i] = [action |-> a, gate |-> g]})
                             = IF pc[b][a] = (IF g = 1 THEN "parked1" ELSE "parked2") THEN 1 ELSE 0
    BY DEF NoLostWakeup, GatesServed
  <2>1. ~paused[b] => gateWaiters[b] = <<>>
    BY DEF Served
  <2> QED BY <1>2, <2>1
<1> QED BY <1>1, <1>3, Invariance, ServedStep, PTL DEF Spec

-----------------------------------------------------------------------------
(* Node slots *)

\* The actions that hold a slot of n.
Held(n) == {p \in Builds \X Actions : Holding(p[1], p[2]) /\ node[p[1]][p[2]] = n}

LEMMA HeldFinite == \A n : IsFiniteSet(Held(n)) /\ Cardinality(Held(n)) \in Nat
<1>1. IsFiniteSet(Builds \X Actions)
  BY ConstantsAssumption, FS_Product
<1>2. ASSUME NEW n PROVE IsFiniteSet(Held(n))
  BY <1>1, FS_Subset DEF Held
<1> QED BY <1>2, FS_CardinalityType

\* A step of executeAction takes a slot, returns it, or leaves the slots alone.
LEMMA SlotMoves ==
    ASSUME Inv, NEW b \in Builds, NEW a \in Actions, Continue(b, a) \/ Wake(b, a)
    PROVE  \/ /\ UNCHANGED activeJobs /\ (Holding(b, a)' <=> Holding(b, a))
              /\ node'[b][a] = node[b][a]
           \/ /\ ~Holding(b, a) /\ Holding(b, a)'
              /\ \E n \in Nodes : node'[b][a] = n /\ TakeSlot(n)
           \/ /\ Holding(b, a) /\ ~Holding(b, a)' /\ ReleaseSlot(b, a)
              /\ node'[b][a] = node[b][a]
<1>1. /\ pc \in [Builds -> [Actions -> Pcs]]
      /\ node \in [Builds -> [Actions -> Nodes \cup {NoNode}]]
  BY DEF Inv, TypeOK, ActionTypes
<1>2. \A l : Goto(b, a, l) => pc'[b][a] = l
  BY <1>1 DEF Goto
<1> USE DEF Holding
<1>3. CASE Park(b, a)
  <2>1. PICK g \in 1..2 : pc[b][a] = GatePc(g) /\ pc'[b][a] = IF g = 1 THEN "parked1" ELSE "parked2"
    BY <1>1, <1>3 DEF Park, TOTAL_GATES
  <2> QED BY <1>3, <2>1 DEF Park, GatePc
<1>4. CASE LeaveUnscheduled(b, a)
  BY <1>2, <1>4 DEF LeaveUnscheduled, PassGate, GatePc
<1>5. CASE Schedule(b, a)
  <2>1. pc[b][a] = "gate1" /\ pc'[b][a] \in {"cacheSleep", "gate2"}
    BY <1>2, <1>5 DEF Schedule, PassGate, GatePc
  <2>2. PICK n \in Nodes : node' = [node EXCEPT ![b][a] = n] /\ TakeSlot(n)
    BY <1>5 DEF Schedule
  <2> QED BY <1>1, <2>1, <2>2
<1>6. CASE AbortAtGate(b, a)
  BY <1>2, <1>6 DEF AbortAtGate, PassGate, GatePc
<1>7. CASE StartAttempt(b, a)
  BY <1>2, <1>7 DEF StartAttempt, PassGate, GatePc
<1>8. CASE Wake(b, a)
  BY <1>2, <1>8
     DEF Wake, AbortAfterSleep, FinishFromCache, RetryLater, BackoffOver, Fail, Succeed, Stamped, WorkDone
<1> QED BY <1>3, <1>4, <1>5, <1>6, <1>7, <1>8 DEF Continue

LEMMA SlotsStep == Inv /\ NodeAccounting /\ [Next]_vars => NodeAccounting'
<1> SUFFICES ASSUME Inv, NodeAccounting, [Next]_vars, NEW n \in Nodes
             PROVE  activeJobs'[n] = Cardinality(Held(n)')
  BY DEF NodeAccounting, Held
<1>1. activeJobs \in [Nodes -> Nat] /\ activeJobs[n] = Cardinality(Held(n))
  BY DEF Inv, TypeOK, SharedTypes, NodeAccounting, Held
<1>2. ASSUME activeJobs'[n] = activeJobs[n], Held(n)' = Held(n)
      PROVE  activeJobs'[n] = Cardinality(Held(n)')
  BY <1>1, <1>2
<1>3. ASSUME NEW b \in Builds, NEW a \in Actions, Continue(b, a) \/ Wake(b, a)
      PROVE  activeJobs'[n] = Cardinality(Held(n)')
  <2>1. \A p \in Builds \X Actions : p # <<b, a>> => (p \in Held(n)' <=> p \in Held(n))
    <3>1. ASSUME NEW c \in Builds, NEW x \in Actions, c # b \/ x # a
          PROVE  pc'[c][x] = pc[c][x] /\ node'[c][x] = node[c][x]
      BY <1>3, <3>1, FiberStep, FiberFrame DEF Inv, OnlyTouches
    <3> QED BY <3>1 DEF Held, Holding
  <2>2. <<b, a>> \in Held(n) <=> Holding(b, a) /\ node[b][a] = n
    BY DEF Held
  <2>3. <<b, a>> \in Held(n)' <=> Holding(b, a)' /\ node'[b][a] = n
    BY DEF Held
  <2>4. Held(n) \subseteq Builds \X Actions /\ Held(n)' \subseteq Builds \X Actions
    BY DEF Held
  <2>5. CASE /\ UNCHANGED activeJobs /\ (Holding(b, a)' <=> Holding(b, a))
             /\ node'[b][a] = node[b][a]
    <3>1. Held(n)' = Held(n)
      BY <2>1, <2>2, <2>3, <2>4, <2>5
    <3> QED BY <1>2, <2>5, <3>1
  <2>6. CASE /\ ~Holding(b, a) /\ Holding(b, a)'
             /\ \E m \in Nodes : node'[b][a] = m /\ TakeSlot(m)
    <3>1. CASE node'[b][a] = n
      <4>1. Held(n)' = Held(n) \cup {<<b, a>>} /\ <<b, a>> \notin Held(n)
        BY <2>1, <2>2, <2>3, <2>4, <2>6, <3>1
      <4>2. Cardinality(Held(n)') = Cardinality(Held(n)) + 1
        BY <4>1, HeldFinite, FS_AddElement
      <4>3. activeJobs'[n] = activeJobs[n] + 1
        BY <1>1, <2>6, <3>1 DEF TakeSlot
      <4> QED BY <1>1, <4>2, <4>3
    <3>2. CASE node'[b][a] # n
      <4>1. Held(n)' = Held(n)
        BY <2>1, <2>2, <2>3, <2>4, <2>6, <3>2
      <4>2. activeJobs'[n] = activeJobs[n]
        BY <1>1, <2>6, <3>2 DEF TakeSlot
      <4> QED BY <1>2, <4>1, <4>2
    <3> QED BY <3>1, <3>2
  <2>7. CASE /\ Holding(b, a) /\ ~Holding(b, a)' /\ ReleaseSlot(b, a)
             /\ node'[b][a] = node[b][a]
    <3>1. CASE node[b][a] = n
      <4>1. Held(n)' = Held(n) \ {<<b, a>>} /\ <<b, a>> \in Held(n)
        BY <2>1, <2>2, <2>3, <2>4, <2>7, <3>1
      <4>2. Cardinality(Held(n)') = Cardinality(Held(n)) - 1
        BY <4>1, HeldFinite, FS_RemoveElement
      <4>3. Cardinality(Held(n)') \in Nat
        <5>1. IsFiniteSet(Held(n)')
          BY <4>1, HeldFinite, FS_Subset
        <5> QED BY <5>1, FS_CardinalityType
      <4>4. activeJobs[n] > 0
        BY <1>1, <4>2, <4>3
      <4>5. activeJobs'[n] = activeJobs[n] - 1
        BY <1>1, <2>7, <3>1, <4>4 DEF ReleaseSlot
      <4> QED BY <1>1, <4>2, <4>5
    <3>2. CASE node[b][a] # n
      <4>1. Held(n)' = Held(n)
        BY <2>1, <2>2, <2>3, <2>4, <2>7, <3>2
      <4>2. activeJobs'[n] = activeJobs[n]
        BY <1>1, <2>7, <3>2 DEF ReleaseSlot
      <4> QED BY <1>2, <4>1, <4>2
    <3> QED BY <3>1, <3>2
  <2> QED BY <1>3, <2>5, <2>6, <2>7, SlotMoves
<1>4. ASSUME Quiet PROVE activeJobs'[n] = Cardinality(Held(n)')
  <2>1. Held(n)' = Held(n)
    BY <1>4 DEF Quiet, Held, Holding
  <2> QED BY <1>2, <1>4, <2>1 DEF Quiet
<1>5. ASSUME UNCHANGED <<activeJobs, pc, node>> PROVE activeJobs'[n] = Cardinality(Held(n)')
  <2>1. Held(n)' = Held(n)
    BY <1>5 DEF Held, Holding
  <2> QED BY <1>2, <1>5, <2>1
<1>6. ASSUME NEW b \in Builds, StartBuild(b) PROVE UNCHANGED <<activeJobs, pc, node>>
  BY <1>6, StartFrame
<1>7. CASE UNCHANGED vars
  BY <1>5, <1>7 DEF vars, action
<1> QED BY <1>3, <1>4, <1>5, <1>6, <1>7, QuietSteps DEF Next, Call, Execute

\* No slot leaks and none is returned twice.
THEOREM SlotsAccounted == Spec => []NodeAccounting
<1>1. ASSUME Init PROVE NodeAccounting
  <2>1. ASSUME NEW n \in Nodes PROVE activeJobs[n] = Cardinality(Held(n))
    <3>1. Held(n) = {}
      BY <1>1 DEF Init, Held, Holding
    <3> QED BY <1>1, <3>1, FS_EmptySet DEF Init
  <2> QED BY <2>1 DEF NodeAccounting, Held
<1> QED BY <1>1, Invariance, SlotsStep, PTL DEF Spec

-----------------------------------------------------------------------------
(* Stepping *)

\* The actions a step has let through a gate they have not reached the end of.
LetThrough(b) == {a \in Actions : pc[b][a] \in {"gate1", "gate2"} /\ actionPasses[b][a] > 0}

\* The passes an action can hold at each place while its build is paused.
PassesAt(b, a) ==
    /\ pc[b][a] = "gate1" => actionPasses[b][a] \in {0, 2}
    /\ pc[b][a] = "gate2" => actionPasses[b][a] \in {0, 1}
    /\ pc[b][a] \in {"parked1", "parked2", "work", "backoff"} => actionPasses[b][a] = 0
    /\ pc[b][a] = "idle" /\ actState[b][a] \in {"none", "pending"} => actionPasses[b][a] = 0

\* Steps count while the build is paused and not cancelled.
Stepping(b) == paused[b] /\ ~cancelRequested[b]

StepsCounted(b) ==
    Stepping(b) => /\ budget[b] = stepTickets[b] + Cardinality(LetThrough(b))
                   /\ \A a \in Actions : PassesAt(b, a)

StepInv == \A b \in Builds : StepsCounted(b)

LEMMA LetFinite == \A b : IsFiniteSet(LetThrough(b)) /\ Cardinality(LetThrough(b)) \in Nat
<1>1. ASSUME NEW b PROVE IsFiniteSet(LetThrough(b))
  BY ConstantsAssumption, FS_Subset DEF LetThrough
<1> QED BY <1>1, FS_CardinalityType

\* A build keeps its count while nothing of it is let through or counted.
LEMMA CountKept ==
    ASSUME TypeOK, NEW b \in Builds, StepsCounted(b), Stepping(b)' => Stepping(b),
           budget'[b] = budget[b], stepTickets'[b] = stepTickets[b],
           \A x \in Actions : PassesAt(b, x) =>
              /\ PassesAt(b, x)'
              /\ x \in LetThrough(b)' <=> x \in LetThrough(b)
    PROVE  StepsCounted(b)'
<1> SUFFICES ASSUME Stepping(b)'
             PROVE  /\ budget'[b] = stepTickets'[b] + Cardinality(LetThrough(b)')
                    /\ \A a \in Actions : PassesAt(b, a)'
  BY DEF StepsCounted
<1>1. \A x \in Actions : PassesAt(b, x)
  BY DEF StepsCounted
<1>2. LetThrough(b)' = LetThrough(b)
  BY <1>1 DEF LetThrough
<1> QED BY <1>1, <1>2 DEF StepsCounted

\* What a step of executeAction does to the count of a paused build.
CountMoves(b, a) ==
    \/ /\ a \in LetThrough(b)' <=> a \in LetThrough(b)
       /\ budget'[b] - stepTickets'[b] = budget[b] - stepTickets[b]
    \/ /\ a \notin LetThrough(b) /\ a \in LetThrough(b)'
       /\ budget'[b] - stepTickets'[b] = budget[b] - stepTickets[b] + 1
    \/ /\ a \in LetThrough(b) /\ a \notin LetThrough(b)'
       /\ budget'[b] - stepTickets'[b] = budget[b] - stepTickets[b] - 1

LEMMA FiberCount ==
    ASSUME Inv, NEW b \in Builds, NEW a \in Actions, Continue(b, a) \/ Wake(b, a),
           Stepping(b), PassesAt(b, a)
    PROVE  CountMoves(b, a) /\ PassesAt(b, a)'
<1>1. /\ pc \in [Builds -> [Actions -> Pcs]] /\ actState \in [Builds -> [Actions -> ActStates]]
      /\ actionPasses \in [Builds -> [Actions -> Nat]] /\ stepTickets \in [Builds -> Nat]
      /\ budget \in [Builds -> Int] /\ Coherent(b, a)
      /\ budget[b] \in Int /\ stepTickets[b] \in Nat /\ actionPasses[b][a] \in Nat
  BY DEF Inv, TypeOK, ControlTypes, ActionTypes, SharedTypes
<1>2. \A l : Goto(b, a, l) => pc'[b][a] = l
  BY <1>1 DEF Goto
<1>3. \A s : SetState(b, a, s) => actState'[b][a] = s
  BY <1>1 DEF SetState
<1>4. paused[b] /\ ~cancelRequested[b]
  BY DEF Stepping
<1>12. budget[b] \in Int /\ stepTickets[b] \in Int
  BY <1>1
<1>5. ASSUME NEW g \in 1..2, PassGate(b, a, g)
      PROVE  /\ pc[b][a] = GatePc(g)
             /\ \/ /\ actionPasses[b][a] > 0 /\ actionPasses'[b][a] = actionPasses[b][a] - 1
                   /\ stepTickets'[b] = stepTickets[b]
                \/ /\ actionPasses[b][a] = 0 /\ actionPasses'[b][a] = 2 - g
                   /\ stepTickets'[b] = stepTickets[b] - 1
  BY <1>1, <1>4, <1>5 DEF PassGate, TOTAL_GATES
<1>6. SpendStep(b) => budget'[b] = budget[b] - 1
  BY <1>1, <1>4 DEF SpendStep
<1> USE DEF PassesAt, CountMoves, LetThrough
<1>7. CASE Park(b, a)
  <2>1. /\ actionPasses[b][a] = 0 /\ UNCHANGED <<actionPasses, stepTickets, budget>>
        /\ pc'[b][a] \in {"parked1", "parked2"}
    BY <1>1, <1>7 DEF Park
  <2> QED BY <2>1
<1>8. CASE Schedule(b, a)
  <2>1. PassGate(b, a, 1) /\ actState'[b][a] = "scheduled"
    BY <1>3, <1>8 DEF Schedule
  <2>2. \/ pc'[b][a] = "cacheSleep" /\ budget'[b] = budget[b] - 1
        \/ pc'[b][a] = "gate2" /\ budget'[b] = budget[b]
    BY <1>2, <1>6, <1>8 DEF Schedule
  <2>3. /\ pc[b][a] = "gate1" /\ actionPasses'[b][a] = 1
        /\ \/ actionPasses[b][a] = 2 /\ stepTickets'[b] = stepTickets[b]
           \/ actionPasses[b][a] = 0 /\ stepTickets'[b] = stepTickets[b] - 1
    BY <1>5, <2>1 DEF GatePc
  <2>4. a \in LetThrough(b) <=> actionPasses[b][a] = 2
    BY <2>3
  <2>5. a \in LetThrough(b)' <=> pc'[b][a] = "gate2"
    BY <2>2, <2>3
  <2>6. PassesAt(b, a)'
    BY <2>1, <2>2, <2>3
  <2>7. CountMoves(b, a)
    <3> HIDE DEF LetThrough, PassesAt
    <3>1. CASE pc'[b][a] = "cacheSleep" /\ actionPasses[b][a] = 2
      <4>1. budget'[b] = budget[b] - 1 /\ stepTickets'[b] = stepTickets[b]
        BY <2>2, <2>3, <3>1
      <4>2. budget'[b] - stepTickets'[b] = budget[b] - stepTickets[b] - 1
        BY <1>12, <4>1
      <4> QED BY <2>4, <2>5, <3>1, <4>2
    <3>2. CASE pc'[b][a] = "cacheSleep" /\ actionPasses[b][a] = 0
      <4>1. budget'[b] = budget[b] - 1 /\ stepTickets'[b] = stepTickets[b] - 1
        BY <2>2, <2>3, <3>2
      <4>2. budget'[b] - stepTickets'[b] = budget[b] - stepTickets[b]
        BY <1>12, <4>1
      <4> QED BY <2>4, <2>5, <3>2, <4>2
    <3>3. CASE pc'[b][a] = "gate2" /\ actionPasses[b][a] = 2
      BY <2>2, <2>3, <2>4, <2>5, <3>3
    <3>4. CASE pc'[b][a] = "gate2" /\ actionPasses[b][a] = 0
      <4>1. budget'[b] = budget[b] /\ stepTickets'[b] = stepTickets[b] - 1
        BY <2>2, <2>3, <3>4
      <4>2. budget'[b] - stepTickets'[b] = budget[b] - stepTickets[b] + 1
        BY <1>12, <4>1
      <4> QED BY <2>4, <2>5, <3>4, <4>2
    <3> QED BY <2>2, <2>3, <3>1, <3>2, <3>3, <3>4
  <2> QED BY <2>6, <2>7
<1>9. CASE StartAttempt(b, a)
  <2>1. /\ PassGate(b, a, 2) /\ actState'[b][a] = "running" /\ pc'[b][a] = "work"
        /\ budget'[b] = budget[b] - 1
    BY <1>2, <1>3, <1>6, <1>9 DEF StartAttempt
  <2>2. /\ pc[b][a] = "gate2" /\ actionPasses'[b][a] = 0
        /\ \/ actionPasses[b][a] = 1 /\ stepTickets'[b] = stepTickets[b]
           \/ actionPasses[b][a] = 0 /\ stepTickets'[b] = stepTickets[b] - 1
    BY <1>5, <2>1 DEF GatePc
  <2>3. a \notin LetThrough(b)' /\ (a \in LetThrough(b) <=> actionPasses[b][a] = 1)
    BY <2>1, <2>2
  <2>4. PassesAt(b, a)'
    BY <2>1, <2>2
  <2>5. CountMoves(b, a)
    <3> HIDE DEF LetThrough, PassesAt
    <3>1. CASE actionPasses[b][a] = 1
      <4>1. budget'[b] = budget[b] - 1 /\ stepTickets'[b] = stepTickets[b]
        BY <2>1, <2>2, <3>1
      <4>2. budget'[b] - stepTickets'[b] = budget[b] - stepTickets[b] - 1
        BY <1>12, <4>1
      <4> QED BY <2>3, <3>1, <4>2
    <3>2. CASE actionPasses[b][a] = 0
      <4>1. budget'[b] = budget[b] - 1 /\ stepTickets'[b] = stepTickets[b] - 1
        BY <2>1, <2>2, <3>2
      <4>2. budget'[b] - stepTickets'[b] = budget[b] - stepTickets[b]
        BY <1>12, <4>1
      <4> QED BY <2>3, <3>2, <4>2
    <3> QED BY <2>2, <3>1, <3>2
  <2> QED BY <2>4, <2>5
<1>10. CASE LeaveUnscheduled(b, a) \/ AbortAtGate(b, a) \/ AbortAfterSleep(b, a)
  BY <1>4, <1>10 DEF LeaveUnscheduled, AbortAtGate, AbortAfterSleep
<1>11. CASE Wake(b, a) /\ ~AbortAfterSleep(b, a)
  <2>1. UNCHANGED <<actionPasses, stepTickets, budget>>
    BY <1>11
       DEF Wake, FinishFromCache, RetryLater, BackoffOver, Fail, Succeed, Stamped, control
  <2>2. /\ pc[b][a] \in Sleeps /\ (pc[b][a] = "stamp" => actState[b][a] = "done")
        /\ \/ pc'[b][a] = "gate2" /\ pc[b][a] = "backoff"
           \/ pc'[b][a] = "backoff" /\ pc[b][a] = "work"
           \/ pc'[b][a] = "stamp"
           \/ pc'[b][a] = "idle" /\ actState'[b][a] \in {"done", "failed"}
    BY <1>1, <1>2, <1>3, <1>11
       DEF Wake, FinishFromCache, RetryLater, BackoffOver, Fail, Succeed, Stamped, WorkDone,
           Sleeps, Coherent, StatesAt
  <2> QED BY <1>1, <2>1, <2>2 DEF Sleeps
<1> QED BY <1>7, <1>8, <1>9, <1>10, <1>11 DEF Continue, Wake

\* One more or one less is let through where one action moves.
LEMMA CountOne ==
    ASSUME TypeOK, TypeOK', NEW b \in Builds, NEW a \in Actions, StepsCounted(b),
           Stepping(b), CountMoves(b, a), PassesAt(b, a)',
           \A x \in Actions : x # a =>
              /\ PassesAt(b, x) => PassesAt(b, x)'
              /\ x \in LetThrough(b)' <=> x \in LetThrough(b)
    PROVE  StepsCounted(b)'
<1> DEFINE L == LetThrough(b)
           M == LetThrough(b)'
<1>1. L \subseteq Actions /\ M \subseteq Actions
  BY DEF LetThrough
<1>2. /\ budget[b] = stepTickets[b] + Cardinality(L) /\ \A x \in Actions : PassesAt(b, x)
  BY DEF StepsCounted
<1>3. \A x \in Actions : PassesAt(b, x)'
  BY <1>2
<1>4. /\ budget[b] \in Int /\ stepTickets[b] \in Nat /\ budget'[b] \in Int /\ stepTickets'[b] \in Nat
      /\ Cardinality(L) \in Nat
  BY LetFinite DEF TypeOK, ControlTypes, SharedTypes
<1>5. \A x \in Actions : x # a => (x \in M <=> x \in L)
  OBVIOUS
<1>6. CASE a \in M <=> a \in L
  <2>1. M = L
    BY <1>1, <1>5, <1>6
  <2>2. budget'[b] - stepTickets'[b] = budget[b] - stepTickets[b]
    BY <1>6 DEF CountMoves
  <2>3. budget'[b] = stepTickets'[b] + Cardinality(M)
    BY <1>2, <1>4, <2>1, <2>2
  <2> QED BY <1>3, <2>3 DEF StepsCounted
<1>7. CASE a \notin L /\ a \in M
  <2>1. M = L \cup {a}
    BY <1>1, <1>5, <1>7
  <2>2. Cardinality(M) = Cardinality(L) + 1
    BY <1>7, <2>1, LetFinite, FS_AddElement
  <2>3. budget'[b] - stepTickets'[b] = budget[b] - stepTickets[b] + 1
    BY <1>7 DEF CountMoves
  <2>4. budget'[b] = stepTickets'[b] + Cardinality(M)
    BY <1>2, <1>4, <2>2, <2>3
  <2> QED BY <1>3, <2>4 DEF StepsCounted
<1>8. CASE a \in L /\ a \notin M
  <2>1. M = L \ {a}
    BY <1>1, <1>5, <1>8
  <2>2. Cardinality(M) = Cardinality(L) - 1
    BY <1>8, <2>1, LetFinite, FS_RemoveElement
  <2>3. budget'[b] - stepTickets'[b] = budget[b] - stepTickets[b] - 1
    BY <1>8 DEF CountMoves
  <2>4. budget'[b] = stepTickets'[b] + Cardinality(M)
    BY <1>2, <1>4, <2>2, <2>3
  <2> QED BY <1>3, <2>4 DEF StepsCounted
<1> QED BY <1>6, <1>7, <1>8

\* A pause starts counting anew.
LEMMA PauseCount ==
    ASSUME Inv, NEW b \in Builds, Pause(b)
    PROVE  StepsCounted(b)'
<1>1. /\ actionPasses'[b] = NoPasses /\ stepTickets'[b] = 0 /\ budget'[b] = 0
  BY DEF Pause, Inv, TypeOK, ControlTypes, SharedTypes
<1>2. LetThrough(b)' = {}
  BY <1>1 DEF LetThrough, NoPasses
<1>3. Cardinality(LetThrough(b)') = 0
  BY <1>2, FS_EmptySet
<1>4. \A x \in Actions : PassesAt(b, x)'
  BY <1>1 DEF PassesAt, NoPasses
<1> QED BY <1>1, <1>3, <1>4 DEF StepsCounted

\* A step hands one waiter its passes, or leaves a ticket.
LEMMA StepCount ==
    ASSUME Inv, TypeOK', NEW b \in Builds, StepsCounted(b), Step(b)
    PROVE  StepsCounted(b)'
<1>1. /\ pc \in [Builds -> [Actions -> Pcs]] /\ gateWaiters \in [Builds -> Seq(Waiter)]
      /\ actionPasses \in [Builds -> [Actions -> Nat]] /\ stepTickets \in [Builds -> Nat]
      /\ budget \in [Builds -> Int] /\ WaitersParked(b) /\ gateWaiters[b] \in Seq(Waiter)
      /\ budget[b] \in Int /\ stepTickets[b] \in Nat
  BY DEF Inv, TypeOK, ControlTypes, ActionTypes, SharedTypes
<1>2. /\ UNCHANGED <<paused, cancelRequested, actState>> /\ budget'[b] = budget[b] + 1
  BY <1>1 DEF Step
<1> SUFFICES ASSUME Stepping(b) PROVE StepsCounted(b)'
  BY <1>2 DEF Stepping, StepsCounted
<1>3. CASE StepTicket(b)
  <2>1. stepTickets'[b] = stepTickets[b] + 1 /\ UNCHANGED <<actionPasses, pc>>
    BY <1>1, <1>3 DEF StepTicket
  <2>2. LetThrough(b)' = LetThrough(b) /\ \A x \in Actions : PassesAt(b, x) => PassesAt(b, x)'
    BY <1>2, <2>1 DEF LetThrough, PassesAt
  <2> QED BY <1>1, <1>2, <2>1, <2>2, LetFinite DEF StepsCounted, Stepping
<1>4. CASE StepHead(b)
  <2>1. Head(gateWaiters[b]) \in Waiter /\ 1 \in 1..Len(gateWaiters[b])
        /\ Head(gateWaiters[b]) = gateWaiters[b][1]
    BY <1>1, <1>4 DEF StepHead
  <2>2. PICK h \in Actions, g \in 1..2 :
            h = Head(gateWaiters[b]).action /\ g = Head(gateWaiters[b]).gate
    BY <2>1 DEF Waiter, TOTAL_GATES
  <2>3. pc[b][h] = ParkedAt(g)
    BY <1>1, <2>1, <2>2 DEF WaitersParked
  <2>4. /\ actionPasses' = [actionPasses EXCEPT ![b][h] = @ + TOTAL_GATES - g + 1]
        /\ pc' = [pc EXCEPT ![b][h] = Unpark(@)] /\ UNCHANGED stepTickets
    BY <1>4, <2>2 DEF StepHead
  <2>5. actionPasses[b][h] = 0
    BY <2>3 DEF StepsCounted, PassesAt, ParkedAt
  <2>6. \/ pc'[b][h] = "gate1" /\ actionPasses'[b][h] = 2
        \/ pc'[b][h] = "gate2" /\ actionPasses'[b][h] = 1
    BY <1>1, <2>3, <2>4, <2>5 DEF TOTAL_GATES, ParkedAt, Unpark
  <2>7. h \notin LetThrough(b) /\ h \in LetThrough(b)' /\ PassesAt(b, h)'
    BY <2>5, <2>6 DEF LetThrough, PassesAt
  <2>8. budget'[b] - stepTickets'[b] = budget[b] - stepTickets[b] + 1
    BY <1>1, <1>2, <2>4
  <2>9. CountMoves(b, h)
    BY <2>7, <2>8 DEF CountMoves
  <2>10. \A x \in Actions : x # h =>
              /\ PassesAt(b, x) => PassesAt(b, x)'
              /\ x \in LetThrough(b)' <=> x \in LetThrough(b)
    BY <1>1, <1>2, <2>4 DEF LetThrough, PassesAt
  <2>11. TypeOK
    BY DEF Inv
  <2> QED BY <2>7, <2>9, <2>10, <2>11, CountOne
<1> QED BY <1>3, <1>4 DEF Step

LEMMA StepInvStep == Inv /\ Inv' /\ StepInv /\ [Next]_vars => StepInv'
<1> SUFFICES ASSUME Inv, Inv', StepInv, [Next]_vars, NEW c \in Builds PROVE StepsCounted(c)'
  BY DEF StepInv
<1>1. /\ TypeOK /\ TypeOK' /\ StepsCounted(c)
      /\ pc \in [Builds -> [Actions -> Pcs]] /\ paused \in [Builds -> BOOLEAN]
      /\ actionPasses \in [Builds -> [Actions -> Nat]] /\ stepTickets \in [Builds -> Nat]
      /\ budget \in [Builds -> Int] /\ cancelRequested \in [Builds -> BOOLEAN]
      /\ actState \in [Builds -> [Actions -> ActStates]]
  BY DEF Inv, StepInv, TypeOK, ControlTypes, ActionTypes, SharedTypes
<1>2. ASSUME budget'[c] = budget[c], stepTickets'[c] = stepTickets[c],
             Stepping(c)' => Stepping(c),
             actionPasses'[c] = actionPasses[c], pc'[c] = pc[c],
             \A x \in Actions : actState'[c][x] \in {"none", "pending"}
                                  => actState[c][x] \in {"none", "pending"} \/ pc[c][x] # "idle"
      PROVE  StepsCounted(c)'
  BY <1>1, <1>2, CountKept DEF PassesAt, LetThrough
<1>3. ASSUME NEW b \in Builds, CancelBuild(b) \/ Resume(b) PROVE StepsCounted(c)'
  <2>1. CASE c = b
    BY <1>1, <1>3, <2>1 DEF CancelBuild, Resume, ReleaseGates, StepsCounted, Stepping
  <2>2. CASE c # b
    BY <1>1, <1>2, <1>3, <2>2 DEF CancelBuild, Resume, ReleaseGates, Stepping
  <2> QED BY <2>1, <2>2
<1>4. ASSUME NEW b \in Builds, Pause(b) PROVE StepsCounted(c)'
  <2>1. CASE c # b
    BY <1>1, <1>2, <1>4, <2>1 DEF Pause, action, Stepping
  <2> QED BY <1>4, <2>1, PauseCount
<1>5. ASSUME NEW b \in Builds, Step(b) PROVE StepsCounted(c)'
  <2>1. CASE c # b
    BY <1>1, <1>2, <1>5, <2>1 DEF Step, StepHead, StepTicket, Stepping
  <2> QED BY <1>1, <1>5, <2>1, StepCount
<1>6. ASSUME NEW b \in Builds, StartBuild(b) PROVE StepsCounted(c)'
  <2>1. UNCHANGED <<budget, stepTickets, paused, cancelRequested, actionPasses, pc>>
    BY <1>6 DEF StartBuild, control
  <2>2. \A x \in Actions : actState'[c][x] \in {"none", "pending"} => actState[c][x] \in {"none", "pending"}
    BY <1>6, StartFrame
  <2> QED BY <1>2, <2>1, <2>2 DEF Stepping
<1>7. ASSUME NEW b \in Builds, LaunchWave(b) PROVE StepsCounted(c)'
  <2>1. UNCHANGED <<budget, stepTickets, paused, cancelRequested, actionPasses>>
    BY <1>7 DEF LaunchWave, control
  <2>2. \A x \in Actions :
          \/ pc'[c][x] = pc[c][x] /\ (actState'[c][x] \in {"none", "pending"} => actState'[c][x] = actState[c][x])
          \/ pc[c][x] = "idle" /\ pc'[c][x] = "gate1" /\ actState[c][x] = "pending"
    <3>1. CASE c = b
      BY <1>1, <1>7, <3>1 DEF LaunchWave, WaveDone, Ready, Pending
    <3>2. CASE c # b
      BY <1>1, <1>7, <3>2 DEF LaunchWave
    <3> QED BY <3>1, <3>2
  <2>3. \A x \in Actions : PassesAt(c, x) =>
              /\ PassesAt(c, x)'
              /\ x \in LetThrough(c)' <=> x \in LetThrough(c)
    BY <2>1, <2>2 DEF PassesAt, LetThrough
  <2> QED BY <1>1, <2>1, <2>3, CountKept DEF Stepping
<1>8. ASSUME NEW b \in Builds, FinishRun(b) PROVE StepsCounted(c)'
  <2>1. UNCHANGED <<budget, stepTickets, paused, cancelRequested, actionPasses, pc>>
    BY <1>8 DEF FinishRun, control
  <2>2. \A x \in Actions : actState'[c][x] \in {"none", "pending"} => actState[c][x] \in {"none", "pending"}
    BY <1>8, QuietSteps DEF Quiet
  <2> QED BY <1>2, <2>1, <2>2 DEF Stepping
<1>9. ASSUME NEW b \in Builds, NEW a \in Actions, Continue(b, a) \/ Wake(b, a) PROVE StepsCounted(c)'
  <2>1. /\ UNCHANGED <<paused, cancelRequested>>
        /\ \A d \in Builds : d # b => budget'[d] = budget[d] /\ stepTickets'[d] = stepTickets[d]
        /\ \A d \in Builds, x \in Actions : d # b \/ x # a => actionPasses'[d][x] = actionPasses[d][x]
    <3>1. UNCHANGED budget \/ SpendStep(b)
      BY <1>9
         DEF Continue, Wake, Park, LeaveUnscheduled, Schedule, AbortAtGate, StartAttempt,
             AbortAfterSleep, FinishFromCache, RetryLater, BackoffOver, Fail, Succeed, Stamped
    <3>2. \/ UNCHANGED <<paused, cancelRequested, stepTickets, actionPasses>>
          \/ PassGate(b, a, 1) \/ PassGate(b, a, 2)
      <4>1. CASE Wake(b, a) \/ Park(b, a)
        BY <4>1
           DEF Wake, Park, AbortAfterSleep, FinishFromCache, RetryLater, BackoffOver, Fail, Succeed,
               Stamped, control
      <4>2. CASE LeaveUnscheduled(b, a) \/ Schedule(b, a) \/ AbortAtGate(b, a) \/ StartAttempt(b, a)
        BY <4>2 DEF LeaveUnscheduled, Schedule, AbortAtGate, StartAttempt
      <4> QED BY <1>9, <4>1, <4>2 DEF Continue
    <3>3. ASSUME NEW g \in 1..2, PassGate(b, a, g)
          PROVE  /\ UNCHANGED <<paused, cancelRequested>>
                 /\ \A d \in Builds : d # b => stepTickets'[d] = stepTickets[d]
                 /\ \A d \in Builds, x \in Actions : d # b \/ x # a =>
                       actionPasses'[d][x] = actionPasses[d][x]
      BY <1>1, <3>3 DEF PassGate
    <3>4. \A d \in Builds : d # b => budget'[d] = budget[d]
      BY <1>1, <3>1 DEF SpendStep
    <3> QED BY <3>2, <3>3, <3>4
  <2>2. OnlyTouches(b, a)
    BY <1>9, FiberStep DEF Inv
  <2>3. \A x \in Actions : c # b \/ x # a =>
            /\ PassesAt(c, x) => PassesAt(c, x)'
            /\ x \in LetThrough(c)' <=> x \in LetThrough(c)
    BY <2>1, <2>2 DEF OnlyTouches, PassesAt, LetThrough
  <2>4. CASE c # b
    BY <1>1, <2>1, <2>3, <2>4, CountKept DEF Stepping
  <2>5. CASE c = b
    <3>1. CASE Stepping(b)
      <4>1. CountMoves(b, a) /\ PassesAt(b, a)'
        BY <1>1, <1>9, <2>5, <3>1, FiberCount DEF StepsCounted
      <4> QED BY <1>1, <2>3, <2>5, <3>1, <4>1, CountOne
    <3>2. CASE ~Stepping(b)
      BY <2>1, <2>5, <3>2 DEF Stepping, StepsCounted
    <3> QED BY <3>1, <3>2
  <2> QED BY <2>4, <2>5
<1>10. CASE UNCHANGED vars
  BY <1>2, <1>10 DEF vars, control, action, Stepping
<1> QED
  BY <1>3, <1>4, <1>5, <1>6, <1>7, <1>8, <1>9, <1>10 DEF Next, Call, Execute

\* A step releases exactly one action attempt.
THEOREM StepsAreExact == Spec => []StepExact
<1>1. Init => StepInv
  BY DEF Init, StepInv, StepsCounted, Stepping
<1>2. Inv /\ StepInv => StepExact
  BY DEF StepInv, StepsCounted, Stepping, LetThrough, StepExact
<1> QED BY <1>1, <1>2, Invariance, StepInvStep, PTL DEF Spec

-----------------------------------------------------------------------------
(* The events of a build and the autopsy made from them (FesterAutopsy)    *)

\* What the events of a build tell of an action: nothing while it is pending,
\* then, in the last of them, its state; a settled one is told once and for all.
Recorded(b, x) ==
    /\ \A i \in Told(b, x) :
          /\ x \in Mine(b) /\ actState[b][x] # "pending"
          /\ events[b][i].state \notin {"none", "pending"}
          /\ events[b][i].state \in Settlements => actState[b][x] = events[b][i].state
    /\ actState[b][x] \notin {"none", "pending"} =>
          \E i \in Told(b, x) :
             /\ \A j \in Told(b, x) : j <= i
             /\ events[b][i].state = actState[b][x]

RecordInv == \A b \in Journaled, x \in Actions : Recorded(b, x)

\* The events told of x before are told still; of those appended, the ones of x are new.
LEMMA ToldAppended ==
    ASSUME TypeOK, NEW b \in Builds, NEW q \in Seq(Event), events'[b] = events[b] \o q,
           NEW x \in Actions
    PROVE  /\ Len(events[b]) \in Nat
           /\ Told(b, x) \subseteq 1..Len(events[b]) /\ Told(b, x)' \subseteq Nat
           /\ \A i \in Told(b, x) : i \in Told(b, x)' /\ events'[b][i] = events[b][i]
           /\ \A i \in Told(b, x)' :
                 \/ i \in Told(b, x)
                 \/ i - Len(events[b]) \in DOMAIN q /\ q[i - Len(events[b])].action = x
           /\ \A k \in DOMAIN q :
                 /\ events'[b][Len(events[b]) + k] = q[k]
                 /\ Len(events[b]) + k > Len(events[b])
                 /\ q[k].action = x => Len(events[b]) + k \in Told(b, x)'
<1>1. PICK e \in Seq(Event) : e = events[b]
  BY DEF TypeOK, EventTypes
<1>2. PICK r \in Seq(Event) : r = events'[b] /\ r = e \o q
  <2>1. e \o q \in Seq(Event)
    BY ConcatProperties
  <2> QED BY <1>1, <2>1
<1>3. /\ DOMAIN e = 1..Len(e) /\ DOMAIN q = 1..Len(q) /\ Len(e) \in Nat /\ Len(q) \in Nat
      /\ DOMAIN r = 1..(Len(e) + Len(q))
      /\ \A i \in 1..(Len(e) + Len(q)) : r[i] = IF i <= Len(e) THEN e[i] ELSE q[i - Len(e)]
  <2>1. /\ DOMAIN e = 1..Len(e) /\ DOMAIN q = 1..Len(q) /\ Len(e) \in Nat /\ Len(q) \in Nat
        /\ DOMAIN r = 1..Len(r)
    BY LenProperties
  <2>2. /\ Len(r) = Len(e) + Len(q)
        /\ \A i \in 1..Len(e) + Len(q) : r[i] = IF i <= Len(e) THEN e[i] ELSE q[i - Len(e)]
    BY <1>2, ConcatProperties
  <2> QED BY <2>1, <2>2
<1>4. /\ \A i \in DOMAIN e : i \in DOMAIN r /\ r[i] = e[i]
      /\ \A i \in DOMAIN r : i \in DOMAIN e \/ (i - Len(e) \in DOMAIN q /\ r[i] = q[i - Len(e)])
      /\ \A k \in DOMAIN q : Len(e) + k \in DOMAIN r /\ r[Len(e) + k] = q[k] /\ Len(e) + k > Len(e)
  BY <1>3
<1>5. /\ Told(b, x) = {i \in DOMAIN e : e[i].action = x}
      /\ Told(b, x)' = {i \in DOMAIN r : r[i].action = x}
  BY <1>1, <1>2 DEF Told
<1> QED BY <1>1, <1>2, <1>3, <1>4, <1>5

\* Events that say what an action newly is keep the record of it.
LEMMA AppendRecorded ==
    ASSUME TypeOK, NEW b \in Builds, NEW q \in Seq(Event), events'[b] = events[b] \o q,
           NEW x \in Actions, Recorded(b, x), Mine(b)' = Mine(b),
           \/ /\ \A k \in DOMAIN q : q[k].action # x
              /\ actState'[b][x] = actState[b][x]
           \/ /\ x \in Mine(b) /\ actState[b][x] \notin Settlements
              /\ actState'[b][x] \notin {"none", "pending"}
              /\ \E k \in DOMAIN q :
                    /\ q[k].action = x /\ q[k].state = actState'[b][x]
                    /\ \A j \in DOMAIN q : q[j].action = x => j = k
    PROVE  Recorded(b, x)'
<1> DEFINE n == Len(events[b])
<1>1. /\ n \in Nat /\ Told(b, x) \subseteq 1..n /\ Told(b, x)' \subseteq Nat
      /\ \A i \in Told(b, x) : i \in Told(b, x)' /\ events'[b][i] = events[b][i]
      /\ \A i \in Told(b, x)' :
            i \in Told(b, x) \/ (i - n \in DOMAIN q /\ q[i - n].action = x)
      /\ \A k \in DOMAIN q : /\ events'[b][n + k] = q[k] /\ n + k > n
                             /\ q[k].action = x => n + k \in Told(b, x)'
  BY ToldAppended
<1> HIDE DEF n
<1>2. CASE (\A k \in DOMAIN q : q[k].action # x) /\ actState'[b][x] = actState[b][x]
  <2>1. Told(b, x)' = Told(b, x)
    BY <1>1, <1>2
  <2> QED BY <1>1, <1>2, <2>1 DEF Recorded
<1>3. CASE /\ x \in Mine(b) /\ actState[b][x] \notin Settlements
           /\ actState'[b][x] \notin {"none", "pending"}
           /\ \E k \in DOMAIN q :
                 /\ q[k].action = x /\ q[k].state = actState'[b][x]
                 /\ \A j \in DOMAIN q : q[j].action = x => j = k
  <2>1. PICK k \in DOMAIN q :
            /\ q[k].action = x /\ q[k].state = actState'[b][x]
            /\ \A j \in DOMAIN q : q[j].action = x => j = k
    BY <1>3
  <2>2. k \in Nat
    OBVIOUS
  <2>3. /\ n + k \in Told(b, x)' /\ events'[b][n + k].state = actState'[b][x]
    BY <1>1, <2>1
  <2>4. \A i \in Told(b, x) : i \in Nat /\ i <= n + k
    BY <1>1, <2>1, <2>2
  <2>6. \A i \in Told(b, x)' : i \in Told(b, x) \/ i = n + k
    <3> TAKE i \in Told(b, x)'
    <3>1. i \in Int
      BY <1>1
    <3>2. i - n = k => i = n + k
      BY <1>1, <2>2, <3>1
    <3> QED BY <1>1, <2>1, <3>2
  <2>7. \A i \in Told(b, x) : events'[b][i].state \notin {"none", "pending"} \cup Settlements
    BY <1>1, <1>3 DEF Recorded
  <2>8. \A j \in Told(b, x)' : j <= n + k
    BY <1>1, <2>2, <2>4, <2>6
  <2>9. \A i \in Told(b, x)' :
          /\ events'[b][i].state \notin {"none", "pending"}
          /\ events'[b][i].state \in Settlements => actState'[b][x] = events'[b][i].state
    BY <1>3, <2>3, <2>6, <2>7
  <2> QED BY <1>3, <2>3, <2>8, <2>9 DEF Recorded
<1> QED BY <1>2, <1>3

\* A step of executeAction emits the state it sets, of an action under way.
LEMMA FiberEmits ==
    ASSUME NEW b \in Builds, NEW a \in Actions, Continue(b, a) \/ Wake(b, a)
    PROVE  \/ UNCHANGED <<actState, events>>
           \/ /\ pc[b][a] \in {"gate1", "gate2", "cacheSleep", "work"}
              /\ \E s \in {"scheduled", "running", "retry", "done", "failed", "cancelled"} :
                    SetState(b, a, s)
<1>1. CASE Park(b, a) \/ LeaveUnscheduled(b, a) \/ BackoffOver(b, a) \/ Stamped(b, a)
  BY <1>1 DEF Park, LeaveUnscheduled, BackoffOver, Stamped
<1>2. CASE Schedule(b, a) \/ AbortAtGate(b, a) \/ StartAttempt(b, a)
  BY <1>2 DEF Schedule, AbortAtGate, StartAttempt, PassGate, GatePc
<1>3. CASE AbortAfterSleep(b, a) \/ FinishFromCache(b, a)
  BY <1>3 DEF AbortAfterSleep, FinishFromCache
<1>4. CASE RetryLater(b, a) \/ Fail(b, a) \/ Succeed(b, a)
  BY <1>4 DEF RetryLater, Fail, Succeed, WorkDone
<1> QED BY <1>1, <1>2, <1>3, <1>4 DEF Continue, Wake

\* A step of executeAction keeps the record of every action.
LEMMA FiberRecorded ==
    ASSUME Inv, RecordInv, NEW b \in Builds, NEW a \in Actions, Continue(b, a) \/ Wake(b, a),
           NEW c \in Journaled, NEW x \in Actions
    PROVE  Recorded(c, x)'
<1>1. /\ UNCHANGED opts /\ Recorded(c, x) /\ TypeOK /\ c \in Builds /\ OnlyTouches(b, a)
      /\ Coherent(b, a)
  BY FiberStep, ConstantsAssumption DEF Inv, RecordInv
<1>2. Mine(c)' = Mine(c)
  BY <1>1 DEF Mine
<1>3. CASE UNCHANGED <<actState, events>>
  BY <1>1, <1>2, <1>3 DEF Recorded, Told
<1>4. ASSUME NEW s \in {"scheduled", "running", "retry", "done", "failed", "cancelled"},
             SetState(b, a, s), pc[b][a] \in {"gate1", "gate2", "cacheSleep", "work"}
      PROVE  Recorded(c, x)'
  <2>1. events \in [Builds -> Seq(Event)] /\ actState \in [Builds -> [Actions -> ActStates]]
    BY <1>1 DEF TypeOK, EventTypes, ActionTypes
  <2> DEFINE q == <<[action |-> a, state |-> s]>>
  <2>2. /\ actState' = [actState EXCEPT ![b][a] = s]
        /\ events' = IF b \in Journaled THEN [events EXCEPT ![b] = @ \o q] ELSE events
    BY <1>4 DEF SetState, Emit
  <2>3. CASE c # b
    <3>1. events'[c] = events[c] /\ actState'[c] = actState[c]
      BY <1>1, <2>1, <2>2, <2>3
    <3> QED BY <1>1, <1>2, <3>1 DEF Recorded, Told
  <2>4. CASE c = b
    <3>1. q \in Seq(Event) /\ DOMAIN q = {1} /\ q[1].action = a /\ q[1].state = s
      BY DEF Event, ActStates, Settlements
    <3>2. events'[c] = events[c] \o q
      BY <2>1, <2>2, <2>4
    <3>3. /\ a \in Mine(c) /\ actState[c][a] \notin Settlements
          /\ actState'[c][a] = s /\ s \notin {"none", "pending"}
      BY <1>1, <1>4, <2>1, <2>2, <2>4 DEF Coherent, StatesAt, Settlements
    <3>4. x # a => actState'[c][x] = actState[c][x]
      BY <1>1, <2>4 DEF OnlyTouches
    <3> HIDE DEF q
    <3>5. CASE x # a
      <4>1. (\A k \in DOMAIN q : q[k].action # x) /\ actState'[c][x] = actState[c][x]
        BY <3>1, <3>4, <3>5
      <4> QED BY <1>1, <1>2, <3>1, <3>2, <4>1, AppendRecorded
    <3>6. CASE x = a
      <4>1. \E k \in DOMAIN q :
                /\ q[k].action = x /\ q[k].state = actState'[c][x]
                /\ \A j \in DOMAIN q : q[j].action = x => j = k
        BY <3>1, <3>3, <3>6
      <4> QED BY <1>1, <1>2, <3>1, <3>2, <3>3, <3>6, <4>1, AppendRecorded
    <3> QED BY <3>5, <3>6
  <2> QED BY <2>3, <2>4
<1> QED BY <1>3, <1>4, FiberEmits

\* A walk that takes actions out of "pending" emits each of them once.
LEMMA WalkRecorded ==
    ASSUME Inv, TypeOK', RecordInv, NEW b \in Builds, EmitWalk(b), UNCHANGED opts,
           \A d \in Builds : d # b => actState'[d] = actState[d],
           \A y \in Actions :
              \/ actState'[b][y] = actState[b][y]
              \/ y \in Pending(b) /\ actState'[b][y] \notin {"none", "pending"},
           NEW c \in Journaled, NEW x \in Actions
    PROVE  Recorded(c, x)'
<1>1. Recorded(c, x) /\ TypeOK /\ c \in Builds /\ Mine(c)' = Mine(c)
  BY ConstantsAssumption DEF Inv, RecordInv, Mine
<1>2. events \in [Builds -> Seq(Event)] /\ actState' \in [Builds -> [Actions -> ActStates]]
  BY DEF Inv, TypeOK, EventTypes, ActionTypes
<1> DEFINE T == {y \in Pending(b) : actState'[b][y] # "pending"}
           n == Cardinality(T)
<1>3. T \subseteq Actions /\ IsFiniteSet(T)
  BY <1>1, MineActions, ConstantsAssumption, FS_Subset
<1>4. PICK p \in [1..n -> T] :
        /\ \A i, j \in DOMAIN p : p[j] = p[i] \/ p[j] \in Deps[p[i]] => j <= i
        /\ Emit(b, [i \in DOMAIN p |-> [action |-> p[i], state |-> actState'[b][p[i]]]])
  BY DEF EmitWalk
<1>5. n \in Nat
  BY <1>3, FS_CardinalityType
<1> DEFINE q == [i \in 1..n |-> [action |-> p[i], state |-> actState'[b][p[i]]]]
<1>6. Emit(b, q)
  BY <1>4
<1>7. x \in Pending(b) <=> x \in Mine(b) /\ actState[b][x] = "pending"
  BY DEF Pending
<1>8. x \in T <=> x \in Pending(b) /\ actState'[b][x] # "pending"
  OBVIOUS
<1> HIDE DEF T, n
<1>9. p \in Injection(1..n, T)
  <2>1. \A i, j \in 1..n : p[i] = p[j] => i = j
    BY <1>4, <1>5
  <2> QED BY <2>1 DEF Injection, IsInjective
<1>10. p \in Surjection(1..n, T)
  <2>1. Cardinality(1..n) = n
    BY <1>5, FS_Interval
  <2> QED BY <1>3, <1>9, <2>1, FS_Injection DEF n
<1>11. \A y \in T : \E k \in 1..n : p[k] = y
  BY <1>10 DEF Surjection
<1>12. /\ DOMAIN q = 1..n
       /\ \A k \in 1..n : q[k].action = p[k] /\ q[k].state = actState'[b][p[k]] /\ p[k] \in T
  OBVIOUS
<1>13. q \in Seq(Event)
  <2>1. \A k \in 1..n : q[k] \in Event
    BY <1>2, <1>3, <1>12 DEF Event
  <2> QED BY <1>5, <1>12, <2>1
<1> HIDE DEF q
<1>14. CASE c # b
  <2>1. events'[c] = events[c] /\ actState'[c] = actState[c]
    BY <1>1, <1>2, <1>6, <1>14 DEF Emit
  <2> QED BY <1>1, <2>1 DEF Recorded, Told
<1>15. CASE c = b
  <2>1. events'[c] = events[c] \o q
    BY <1>1, <1>2, <1>6, <1>15 DEF Emit
  <2>2. CASE x \in T
    <3>1. /\ x \in Mine(c) /\ actState[c][x] \notin Settlements
          /\ actState'[c][x] \notin {"none", "pending"}
      BY <1>7, <1>8, <1>15, <2>2 DEF Settlements
    <3>2. PICK k \in 1..n : p[k] = x
      BY <1>11, <2>2
    <3>3. \A j \in 1..n : p[j] = x => j = k
      BY <1>9, <3>2 DEF Injection, IsInjective
    <3>4. \E i \in DOMAIN q :
              /\ q[i].action = x /\ q[i].state = actState'[c][x]
              /\ \A j \in DOMAIN q : q[j].action = x => j = i
      BY <1>12, <1>15, <3>2, <3>3
    <3> QED BY <1>1, <1>13, <2>1, <3>1, <3>4, AppendRecorded
  <2>3. CASE x \notin T
    <3>1. actState'[c][x] = actState[c][x]
      BY <1>7, <1>8, <1>15, <2>3
    <3>2. \A k \in DOMAIN q : q[k].action # x
      BY <1>12, <2>3
    <3> QED BY <1>1, <1>13, <2>1, <3>1, <3>2, AppendRecorded
  <2> QED BY <2>2, <2>3
<1> QED BY <1>14, <1>15

\* So does every step: what is launched, skipped or wound down is emitted too.
LEMMA RecordStep == Inv /\ Inv' /\ RecordInv /\ [Next]_vars => RecordInv'
<1> SUFFICES ASSUME Inv, Inv', RecordInv, [Next]_vars, NEW c \in Journaled, NEW x \in Actions
             PROVE  Recorded(c, x)'
  BY DEF RecordInv
<1>1. /\ Recorded(c, x) /\ c \in Builds /\ Coherent(c, x) /\ TypeOK'
      /\ actState \in [Builds -> [Actions -> ActStates]]
  BY ConstantsAssumption DEF RecordInv, Inv, TypeOK, ActionTypes
<1>2. ASSUME UNCHANGED <<opts, actState, events>> PROVE Recorded(c, x)'
  BY <1>1, <1>2 DEF Recorded, Told, Mine
<1>3. ASSUME NEW b \in Builds, StartBuild(b) PROVE Recorded(c, x)'
  <2>1. UNCHANGED events
    BY <1>3 DEF StartBuild
  <2>2. CASE c = b
    <3>1. actState[c][x] = "none" /\ actState'[c][x] \in {"none", "pending"}
      BY <1>3, <2>2, StartFrame
    <3>2. Told(c, x) = {}
      BY <1>1, <3>1 DEF Recorded, Coherent
    <3>3. Told(c, x)' = {}
      BY <2>1, <3>2 DEF Told
    <3> QED BY <3>1, <3>3 DEF Recorded
  <2>3. CASE c # b
    <3>1. actState'[c] = actState[c] /\ opts'[c] = opts[c]
      BY <1>1, <1>3, <2>3, StartFrame
    <3> QED BY <1>1, <2>1, <3>1 DEF Recorded, Told, Mine
  <2> QED BY <2>2, <2>3
<1>4. ASSUME NEW b \in Builds, LaunchWave(b) PROVE Recorded(c, x)'
  <2>1. EmitWalk(b) /\ UNCHANGED opts
    BY <1>4 DEF LaunchWave
  <2>2. \A d \in Builds : d # b => actState'[d] = actState[d]
    BY <1>1, <1>4 DEF LaunchWave
  <2>3. \A y \in Actions :
            \/ actState'[b][y] = actState[b][y]
            \/ y \in Pending(b) /\ actState'[b][y] \notin {"none", "pending"}
    <3>1. PICK S \in SUBSET Pending(b) : actState' = [actState EXCEPT ![b] =
              [a \in Actions |-> IF a \in S THEN "skipped" ELSE @[a]]]
      BY <1>4 DEF LaunchWave
    <3>2. \A y \in Actions : actState'[b][y] = IF y \in S THEN "skipped" ELSE actState[b][y]
      BY <1>1, <3>1
    <3> QED BY <3>2
  <2> QED BY <1>1, <2>1, <2>2, <2>3, WalkRecorded
<1>5. ASSUME NEW b \in Builds, FinishRun(b) PROVE Recorded(c, x)'
  <2>1. EmitWalk(b) /\ UNCHANGED opts
    BY <1>5 DEF FinishRun
  <2>2. /\ actState' = [actState EXCEPT ![b] = actState'[b]]
        /\ \A y \in Actions :
              \/ actState'[b][y] = actState[b][y]
              \/ y \in Pending(b) /\ actState'[b][y] \notin {"none", "pending"}
    BY <1>5, FinishOutcome
  <2>3. \A d \in Builds : d # b => actState'[d] = actState[d]
    BY <1>1, <2>2
  <2> QED BY <1>1, <2>1, <2>2, <2>3, WalkRecorded
<1>6. ASSUME NEW b \in Builds, CancelBuild(b) \/ Pause(b) \/ Resume(b) \/ Step(b)
      PROVE  Recorded(c, x)'
  BY <1>2, <1>6 DEF CancelBuild, Pause, Resume, Step, action
<1>7. CASE UNCHANGED vars
  BY <1>2, <1>7 DEF vars, action
<1> QED BY <1>3, <1>4, <1>5, <1>6, <1>7, FiberRecorded DEF Next, Call, Execute

\* The journal's graph of a build says of every action what the engine knows.
LEMMA GraphTold ==
    ASSUME Inv, RecordInv, NEW b \in Journaled
    PROVE  /\ DOMAIN EventGraph(b) \subseteq Mine(b)
           /\ \A a \in Mine(b) :
                 actState[b][a] = IF a \in DOMAIN EventGraph(b) THEN EventGraph(b)[a] ELSE "pending"
<1>1. b \in Builds /\ Mine(b) \subseteq Actions /\ events[b] \in Seq(Event)
  BY ConstantsAssumption, MineActions DEF Inv, TypeOK, EventTypes
<1>2. \A a \in Actions : Recorded(b, a) /\ Coherent(b, a)
  BY <1>1 DEF Inv, RecordInv
<1>3. \A i \in DOMAIN events[b] : events[b][i].action \in Actions
  <2>1. \A i \in DOMAIN events[b] : events[b][i] \in Event
    BY <1>1
  <2> QED BY <2>1 DEF Event
<1>4. \A a : a \in DOMAIN EventGraph(b) <=> Told(b, a) # {}
  BY DEF EventGraph, Told
<1>5. \A a \in DOMAIN EventGraph(b) : a \in Actions /\ Told(b, a) # {}
  BY <1>3, <1>4 DEF EventGraph
<1>6. ASSUME NEW a \in DOMAIN EventGraph(b)
      PROVE  a \in Mine(b) /\ actState[b][a] = EventGraph(b)[a]
  <2>1. a \in Mine(b) /\ actState[b][a] \notin {"none", "pending"}
    BY <1>2, <1>5 DEF Recorded, Coherent
  <2>2. PICK i \in Told(b, a) :
            (\A j \in Told(b, a) : j <= i) /\ events[b][i].state = actState[b][a]
    BY <1>2, <1>5, <2>1 DEF Recorded
  <2>3. Told(b, a) \subseteq Nat
    BY <1>1 DEF Told
  <2>4. Max(Told(b, a)) = i
    <3>1. \A j \in Told(b, a) : i >= j
      BY <2>2, <2>3
    <3>2. \A k \in Told(b, a) : (\A j \in Told(b, a) : k >= j) => k = i
      BY <2>2, <2>3
    <3> QED BY <3>1, <3>2 DEF Max
  <2>5. EventGraph(b)[a] = events[b][Max(Told(b, a))].state
    BY DEF EventGraph
  <2> QED BY <2>1, <2>2, <2>4, <2>5
<1>7. ASSUME NEW a \in Mine(b), a \notin DOMAIN EventGraph(b) PROVE actState[b][a] = "pending"
  <2>1. Told(b, a) = {} /\ a \in Actions
    BY <1>1, <1>4, <1>7
  <2> QED BY <1>2, <1>7, <2>1 DEF Recorded, Coherent
<1> QED BY <1>6, <1>7

\* The walk downstream of x reaches, in a build, what has x upstream.
LEMMA DownstreamReached ==
    ASSUME NEW M \in SUBSET Actions, \A y \in M : Deps[y] \subseteq M, NEW x \in M,
           NEW g, DOMAIN g = M
    PROVE  Reach(g, Dependents[x], Dependents) = {a \in M : x \in Upstream(a)}
<1> DEFINE D == {a \in M : x \in Upstream(a)}
<1>1. \A y, z \in Actions : z \in Dependents[y] <=> y \in Deps[z]
  BY DEF Dependents
<1>2. ASSUME NEW y \in Reach(g, Dependents[x], Dependents) PROVE y \in D
  <2>1. Dependents[x] \cap M \subseteq D
    BY <1>1, UpstreamClosed
  <2>2. \A z \in D : Dependents[z] \cap M \subseteq D
    BY <1>1, UpstreamClosed
  <2>3. D \in SUBSET DOMAIN g
    OBVIOUS
  <2> HIDE DEF D
  <2> QED BY <1>2, <2>1, <2>2, <2>3 DEF Reach
<1>3. ASSUME NEW a \in D, NEW S \in SUBSET M, Dependents[x] \cap M \subseteq S,
             \A z \in S : Dependents[z] \cap M \subseteq S, a \notin S
      PROVE  FALSE
  <2> DEFINE U == {u \in M : u \notin S /\ u # x}
  <2>1. \A u \in M : u \notin S => Deps[u] \subseteq U
    BY <1>1, <1>3
  <2>2. U \in SUBSET Actions /\ Deps[a] \subseteq U /\ \A u \in U : Deps[u] \subseteq U
    BY <1>3, <2>1
  <2>3. x \notin U
    OBVIOUS
  <2>4. x \in Upstream(a)
    BY <1>3
  <2> HIDE DEF U
  <2> QED BY <2>2, <2>3, <2>4 DEF Upstream
<1>4. ASSUME NEW a \in D PROVE a \in Reach(g, Dependents[x], Dependents)
  BY <1>3, <1>4 DEF Reach
<1> QED BY <1>2, <1>4

\* What fails is not upstream of itself: all its upstream is done.
LEMMA FailedNotAbove ==
    ASSUME Inv, NEW b \in Builds, NEW x \in Actions, actState[b][x] = "failed"
    PROVE  x \notin Upstream(x)
<1> DEFINE D == {y \in Actions : actState[b][y] = "done"}
<1>1. \A y \in Actions : actState[b][y] \in {"done", "failed"} => Deps[y] \subseteq D
  BY DepsAssumption DEF Inv, DepsDone, Launched
<1>2. D \in SUBSET Actions /\ Deps[x] \subseteq D /\ \A y \in D : Deps[y] \subseteq D
  BY <1>1
<1>3. x \notin D
  OBVIOUS
<1> HIDE DEF D
<1> QED BY <1>2, <1>3 DEF Upstream

\* An action told as skipped is skipped, and so below the one that failed.
LEMMA SkippedDownstream ==
    ASSUME Inv, RetryInv, RecordInv, NEW b \in Journaled, NEW x \in Mine(b),
           actState[b][x] = "failed"
    PROVE  Skipped(b) \subseteq {a \in Mine(b) : x \in Upstream(a)}
<1>1. b \in Builds /\ Mine(b) \subseteq Actions
  BY ConstantsAssumption, MineActions DEF Inv
<1> SUFFICES ASSUME NEW a \in Skipped(b) PROVE a \in Mine(b) /\ x \in Upstream(a)
  OBVIOUS
<1>2. a \in Actions /\ Recorded(b, a)
  BY DEF Skipped, RecordInv
<1>3. PICK i \in DOMAIN events[b] : events[b][i] = [action |-> a, state |-> "skipped"]
  BY DEF Skipped, ToSet
<1>4. i \in Told(b, a) /\ events[b][i].state = "skipped"
  BY <1>3 DEF Told
<1>5. a \in Mine(b) /\ actState[b][a] = "skipped"
  BY <1>2, <1>4 DEF Recorded, Settlements
<1>6. PICK u \in Upstream(a) : actState[b][u] = "failed"
  BY <1>1, <1>5, SkippedBelow DEF SkippedBelowFailure
<1>7. u \in Actions
  BY DEF Upstream
<1>8. u = opts[b].failAction /\ x = opts[b].failAction
  BY <1>1, <1>6, <1>7 DEF RetryInv, RetryOK, FailScheduled
<1> QED BY <1>5, <1>6, <1>8

\* The record makes the two graphs of an ended build one, whose downstream of x
\* the walk of the blast radius finds.
LEMMA AutopsyRight == Inv /\ RetryInv /\ RecordInv => AutopsyFaithful
<1> SUFFICES ASSUME Inv, RetryInv, RecordInv, NEW b \in Journaled
             PROVE  /\ \A a \in Mine(b) : actState[b][a] =
                          IF a \in DOMAIN EventGraph(b) THEN EventGraph(b)[a] ELSE "pending"
                    /\ \A x \in Mine(b) : runState[b] \in Terminal /\ actState[b][x] = "failed" =>
                          /\ Chain(EventGraph(b), x) = Chain(EngineGraph(b), x)
                          /\ \A g \in {EventGraph(b), EngineGraph(b)} :
                                BlastRadius(g, b, x) = {a \in Mine(b) : x \in Upstream(a)}
  BY DEF AutopsyFaithful
<1>1. b \in Builds /\ Mine(b) \in SUBSET Actions
  BY ConstantsAssumption, MineActions DEF Inv
<1>2. ASSUME NEW x \in Mine(b), runState[b] \in Terminal, actState[b][x] = "failed"
      PROVE  /\ Chain(EventGraph(b), x) = Chain(EngineGraph(b), x)
             /\ \A g \in {EventGraph(b), EngineGraph(b)} :
                   BlastRadius(g, b, x) = {a \in Mine(b) : x \in Upstream(a)}
  <2>1. \A a \in Mine(b) : actState[b][a] # "pending"
    BY <1>1, <1>2 DEF Inv, VerdictOf, Settlements
  <2>2. EventGraph(b) = EngineGraph(b)
    <3>1. DOMAIN EventGraph(b) = Mine(b) /\ \A a \in Mine(b) : EventGraph(b)[a] = actState[b][a]
      BY <2>1, GraphTold
    <3>2. EventGraph(b) = [a \in DOMAIN EventGraph(b) |-> EventGraph(b)[a]]
      BY DEF EventGraph
    <3> QED BY <3>1, <3>2 DEF EngineGraph
  <2>3. \A y \in Mine(b) : Deps[y] \subseteq Mine(b)
    BY <1>1, DepsAssumption DEF Inv, TypeOK, RunTypes, StartOptions, Mine
  <2>4. Reach(EngineGraph(b), Dependents[x], Dependents) = {a \in Mine(b) : x \in Upstream(a)}
    <3>1. DOMAIN EngineGraph(b) = Mine(b)
      BY DEF EngineGraph
    <3> QED BY <1>1, <2>3, <3>1, DownstreamReached
  <2>5. Dependents[x] \cap Mine(b) \subseteq {a \in Mine(b) : x \in Upstream(a)}
    BY <1>1, UpstreamClosed DEF Dependents
  <2>6. x \notin {a \in Mine(b) : x \in Upstream(a)}
    BY <1>1, <1>2, FailedNotAbove
  <2>7. Skipped(b) \subseteq {a \in Mine(b) : x \in Upstream(a)}
    BY <1>2, SkippedDownstream
  <2>8. BlastRadius(EngineGraph(b), b, x) = {a \in Mine(b) : x \in Upstream(a)}
    BY <2>4, <2>5, <2>6, <2>7 DEF BlastRadius
  <2> QED BY <2>2, <2>8
<1> QED BY <1>2, GraphTold

\* Wherever a restart cuts a build, its events tell the state of every action it
\* moved; of an ended build the autopsy made from them is the live one, and its
\* blast radius is the downstream of the failure.
THEOREM AutopsyIsFaithful == Spec => []AutopsyFaithful
<1>1. Init => RecordInv
  BY ConstantsAssumption DEF Init, RecordInv, Recorded, Told
<1> QED BY <1>1, RetryInit, Invariance, RetryStep, RecordStep, AutopsyRight, PTL DEF Spec
=============================================================================
