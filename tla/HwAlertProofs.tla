----------------------------- MODULE HwAlertProofs -----------------------------
(* Theorems about HwAlert for every set of devices, of units on the buses and *)
(* of requests, and any number of restarts.                                   *)
EXTENDS HwAlert, TLAPS

\* The registry, the alerts and the settings have their types.
TableTypes ==
    /\ bus \in [Units -> {"absent", "on", "off"}]
    /\ registered \subseteq Devices
    /\ authorized \in [Devices -> BOOLEAN] /\ whitelisted \in [Devices -> BOOLEAN]
    /\ alerts \in [Devices -> Nat]
    /\ alertState \in [Devices -> {"none", "active", "acknowledged", "dismissed"}]
    /\ list \subseteq Devices
    /\ blockPCI \in BOOLEAN
    /\ orphaned \subseteq Devices
    /\ ops \in Nat /\ restarts \in Nat

\* A request has its type, and a device while it works on one.
JobOK(q) == q \in Request /\ (q.pc \in AtDevice => q.dev \in Devices)

RequestTypes == req \in [Requests -> Request] /\ \A r \in Requests : JobOK(req[r])

\* The type invariant in two parts.
LEMMA TypeParts == TypeOK <=> TableTypes /\ RequestTypes
BY DEF TypeOK, TableTypes, RequestTypes, JobOK

\* An idle request is one.
LEMMA IdleOK == JobOK(Idle)
BY DEF JobOK, Idle, Request, Labels, AtDevice

\* A request that changes to another one keeps the types of all.
LEMMA PutRequest ==
    ASSUME RequestTypes, NEW r \in Requests, NEW q, JobOK(q), req' = [req EXCEPT ![r] = q]
    PROVE  RequestTypes'
BY DEF RequestTypes, JobOK

\* A request that goes to another label, at its device or at none.
LEMMA GotoOK ==
    ASSUME RequestTypes, NEW r \in Requests, NEW l \in Labels, Goto(r, l),
           l \in AtDevice => req[r].dev \in Devices
    PROVE  RequestTypes'
<1> DEFINE q == [req[r] EXCEPT !.pc = l]
<1>1. req[r] \in Request
  BY DEF RequestTypes
<1>2. JobOK(q)
  BY <1>1 DEF JobOK, Request
<1>3. req' = [req EXCEPT ![r] = q]
  BY DEF Goto, RequestTypes
<1> HIDE DEF q
<1> QED
  BY <1>2, <1>3, PutRequest

\* A request that returns.
LEMMA ReturnOK == ASSUME RequestTypes, NEW r \in Requests, Return(r) PROVE RequestTypes'
BY IdleOK, PutRequest DEF Return

\* A reconcile that goes on to its next unit, or returns.
LEMMA NextUnitOK == ASSUME RequestTypes, NEW r \in Requests, NextUnit(r) PROVE RequestTypes'
<1>1. CASE req[r].todo = {}
  BY <1>1, ReturnOK DEF NextUnit
<1>2. CASE req[r].todo # {}
  <2> DEFINE q == [req[r] EXCEPT !.pc = "next", !.dev = NoDevice, !.want = FALSE]
  <2>1. req[r] \in Request
    BY DEF RequestTypes
  <2>2. JobOK(q)
    BY <2>1 DEF JobOK, Request, AtDevice, Labels
  <2>3. req' = [req EXCEPT ![r] = q]
    BY <1>2, <2>1 DEF NextUnit, Request, RequestTypes
  <2> HIDE DEF q
  <2> QED
    BY <2>2, <2>3, PutRequest
<1> QED
  BY <1>1, <1>2

\* A scan finds units that are present.
LEMMA ScansPresent == ASSUME NEW S \in Scans PROVE S \subseteq Units
BY DEF Scans, Present

\* A bus shows nothing but on and off of a unit that is plugged in.
LEMMA ShownOK == ASSUME NEW u \in Units PROVE Shown(u) \subseteq {"on", "off"}
BY HwAssumption DEF Shown, Authorizable, Kinds

\* A flag is written as a Boolean.
LEMMA FlagOK ==
    ASSUME NEW f \in [Devices -> BOOLEAN], NEW d, NEW v \in BOOLEAN
    PROVE  [f EXCEPT ![d] = v] \in [Devices -> BOOLEAN]
OBVIOUS

\* The flags of a reconcile are Booleans.
LEMMA ScannedOK ==
    ASSUME TableTypes, NEW r, NEW d, req[r].want \in BOOLEAN, ScannedFlags(r, d)
    PROVE  authorized' \in [Devices -> BOOLEAN] /\ whitelisted' \in [Devices -> BOOLEAN]
<1>1. (d \in req[r].list) \in BOOLEAN /\ (d \in req[r].list \/ req[r].want) \in BOOLEAN
  OBVIOUS
<1> QED
  BY <1>1, FlagOK DEF TableTypes, ScannedFlags

\* Every action keeps the types of the tables.
LEMMA TableStep == TableTypes /\ RequestTypes /\ [Next]_vars => TableTypes'
<1> SUFFICES ASSUME TableTypes, RequestTypes, [Next]_vars PROVE TableTypes'
  OBVIOUS
<1> USE HwAssumption DEF TableTypes, registry, alertRows, bounds
<1>1. ASSUME NEW r \in Requests, scanAllBuses(r) PROVE TableTypes'
  BY <1>1 DEF scanAllBuses
<1>2. ASSUME NEW r \in Requests, Reconcile(r) PROVE TableTypes'
  <2>0. req[r].want \in BOOLEAN
    BY DEF RequestTypes, Request
  <2>1. CASE getPolicy(r) \/ ReadWhitelist(r) \/ CreateThrows(r)
    BY <2>1 DEF getPolicy, ReadWhitelist, CreateThrows
  <2>2. CASE \E u \in Units : FindDevice(r, u)
    BY <2>2 DEF FindDevice
  <2>3. CASE UpdateDevice(r)
    BY <2>0, <2>3, ScannedOK DEF UpdateDevice
  <2>4. CASE CreateDevice(r)
    <3>1. req[r].dev \in Devices
      BY <2>4 DEF CreateDevice, RequestTypes, JobOK, AtDevice
    <3> QED
      BY <2>0, <2>4, <3>1, ScannedOK DEF CreateDevice
  <2>5. CASE RaiseAlert(r)
    <3>1. req[r].dev \in Devices
      BY <2>5 DEF RaiseAlert, RequestTypes, JobOK, AtDevice
    <3> QED
      BY <2>5, <3>1 DEF RaiseAlert
  <2> QED
    BY <1>2, <2>1, <2>2, <2>3, <2>4, <2>5 DEF Reconcile
<1>3. ASSUME NEW r \in Requests, NewCommand(r) PROVE TableTypes'
  <2>1. UNCHANGED <<bus, registry, alertRows, list, blockPCI, orphaned>> /\ Op
    BY <1>3 DEF NewCommand, FindForBlock, FindForList, FindAlert, ReadForSetPolicy
  <2> QED
    BY <2>1 DEF Op
<1>4. ASSUME NEW r \in Requests, Command(r) PROVE TableTypes'
  <2>0. /\ req[r].want \in BOOLEAN /\ req[r].pci \in BOOLEAN /\ req[r].list \subseteq Devices
        /\ req[r].pc \in AtDevice => req[r].dev \in Devices
    BY DEF RequestTypes, JobOK, Request
  <2>1. CASE FindLive(r) \/ WriteFails(r) \/ ReadList(r)
    BY <2>1 DEF FindLive, WriteFails, ReadList
  <2>2. CASE writeAuthorized(r)
    BY <2>2 DEF writeAuthorized
  <2>3. CASE RecordBlock(r) \/ MarkListed(r)
    BY <2>0, <2>3 DEF RecordBlock, MarkListed
  <2>4. CASE WriteList(r)
    BY <2>0, <2>4 DEF WriteList, AtDevice
  <2>5. CASE CloseAlert(r)
    BY <2>5 DEF CloseAlert
  <2>6. CASE putPolicy(r)
    BY <2>0, <2>6 DEF putPolicy
  <2> QED
    BY <1>4, <2>1, <2>2, <2>3, <2>4, <2>5, <2>6 DEF Command
<1>5. ASSUME NEW u \in Units, Plug(u) \/ Unplug(u) PROVE TableTypes'
  BY <1>5, ShownOK DEF Plug, Unplug, Op
<1>6. CASE Restart
  BY <1>6 DEF Restart
<1>7. CASE UNCHANGED vars
  BY <1>7 DEF vars
<1> QED
  BY <1>1, <1>2, <1>3, <1>4, <1>5, <1>6, <1>7 DEF Next

\* Every action keeps the types of the requests.
LEMMA RequestStep == TableTypes /\ RequestTypes /\ [Next]_vars => RequestTypes'
<1> SUFFICES ASSUME TableTypes, RequestTypes, [Next]_vars PROVE RequestTypes'
  OBVIOUS
<1>0. ASSUME NEW r \in Requests PROVE req[r] \in Request /\ JobOK(req[r])
  BY DEF RequestTypes
<1>1. ASSUME NEW r \in Requests, scanAllBuses(r) PROVE RequestTypes'
  <2>0. PICK S \in Scans :
          Start(r, [Idle EXCEPT !.pc = "policy", !.todo = S, !.on = {u \in S : bus[u] = "on"}])
    BY <1>1 DEF scanAllBuses
  <2> DEFINE q == [Idle EXCEPT !.pc = "policy", !.todo = S, !.on = {u \in S : bus[u] = "on"}]
  <2>1. JobOK(q)
    BY IdleOK, ScansPresent DEF JobOK, Request, Idle, AtDevice, Labels
  <2>2. req' = [req EXCEPT ![r] = q]
    BY <2>0 DEF Start
  <2> HIDE DEF q
  <2> QED
    BY <2>1, <2>2, PutRequest
<1>2. ASSUME NEW r \in Requests, getPolicy(r) PROVE RequestTypes'
  <2> DEFINE q == [req[r] EXCEPT !.pc = "list", !.pci = blockPCI]
  <2>1. JobOK(q)
    BY <1>0 DEF JobOK, Request, AtDevice, Labels, TableTypes
  <2>2. req' = [req EXCEPT ![r] = q]
    BY <1>2, <1>0 DEF getPolicy, Request, RequestTypes
  <2> HIDE DEF q
  <2> QED
    BY <2>1, <2>2, PutRequest
<1>3. ASSUME NEW r \in Requests, ReadWhitelist(r) PROVE RequestTypes'
  <2> DEFINE q == [req[r] EXCEPT !.pc = "next", !.list = list]
  <2>1. JobOK(q)
    BY <1>0 DEF JobOK, Request, AtDevice, Labels, TableTypes
  <2>2. req' = [req EXCEPT ![r] = q] \/ Return(r)
    BY <1>3, <1>0 DEF ReadWhitelist, Request, RequestTypes
  <2> HIDE DEF q
  <2> QED
    BY <2>1, <2>2, PutRequest, ReturnOK
<1>4. ASSUME NEW r \in Requests, NEW u \in Units, FindDevice(r, u) PROVE RequestTypes'
  <2> DEFINE l == IF Id[u] \in registered THEN "update" ELSE "create"
             f == u \in req[r].on
             q == [req[r] EXCEPT !.pc = l, !.dev = Id[u], !.want = f,
                                 !.todo = @ \ {u}, !.on = @ \ {u}]
  <2>0. l \in AtDevice /\ l \in Labels /\ f \in BOOLEAN /\ Id[u] \in Devices
    BY HwAssumption DEF AtDevice, Labels
  <2>2. req' = [req EXCEPT ![r] = q]
    BY <1>4, <1>0 DEF FindDevice, Request, RequestTypes
  <2> HIDE DEF l, f
  <2>1. JobOK(q)
    BY <1>0, <2>0 DEF JobOK, Request
  <2> HIDE DEF q
  <2> QED
    BY <2>1, <2>2, PutRequest
<1>5. ASSUME NEW r \in Requests, UpdateDevice(r) PROVE RequestTypes'
  BY <1>5, NextUnitOK DEF UpdateDevice
<1>6. ASSUME NEW r \in Requests, CreateDevice(r) PROVE RequestTypes'
  <2>1. req[r].dev \in Devices
    BY <1>0, <1>6 DEF CreateDevice, JobOK, AtDevice
  <2> QED
    BY <1>6, <2>1, GotoOK, NextUnitOK DEF CreateDevice, Labels, AtDevice
<1>7. ASSUME NEW r \in Requests, RaiseAlert(r) PROVE RequestTypes'
  BY <1>7, NextUnitOK DEF RaiseAlert
<1>8. ASSUME NEW r \in Requests,
             CreateThrows(r) \/ WriteFails(r) \/ RecordBlock(r)
               \/ WriteList(r) \/ CloseAlert(r) \/ putPolicy(r)
      PROVE  RequestTypes'
  BY <1>8, ReturnOK
  DEF CreateThrows, WriteFails, RecordBlock, WriteList, CloseAlert, putPolicy
<1>9. ASSUME NEW r \in Requests, NEW d \in Devices, NEW w \in BOOLEAN, NEW l \in Labels,
             Start(r, [Idle EXCEPT !.pc = l, !.dev = d, !.want = w])
      PROVE  RequestTypes'
  <2> DEFINE q == [Idle EXCEPT !.pc = l, !.dev = d, !.want = w]
  <2>1. JobOK(q)
    BY IdleOK DEF JobOK, Request, Idle
  <2> HIDE DEF q
  <2> QED
    BY <1>9, <2>1, PutRequest DEF Start, q
<1>10. ASSUME NEW r \in Requests, NewCommand(r) PROVE RequestTypes'
  <2>1. ASSUME NEW d \in Devices, NEW w \in BOOLEAN, FindForBlock(r, d, w) PROVE RequestTypes'
    BY <2>1, <1>9 DEF FindForBlock, Labels, AtDevice
  <2>2. ASSUME NEW d \in Devices, NEW w \in BOOLEAN, FindForList(r, d, w) PROVE RequestTypes'
    BY <2>2, <1>9 DEF FindForList, Labels, AtDevice
  <2>3. ASSUME NEW d \in Devices, NEW l \in {"acknowledge", "dismiss"}, FindAlert(r, d, l)
        PROVE  RequestTypes'
    <3> DEFINE q == [Idle EXCEPT !.pc = l, !.dev = d]
    <3>1. JobOK(q)
      BY IdleOK DEF JobOK, Request, Idle, Labels, AtDevice
    <3> HIDE DEF q
    <3> QED
      BY <2>3, <3>1, PutRequest DEF FindAlert, Start, q
  <2>4. ASSUME NEW v \in BOOLEAN, ReadForSetPolicy(r, v) PROVE RequestTypes'
    <3> DEFINE q == [Idle EXCEPT !.pc = "putPolicy", !.pci = v]
    <3>1. JobOK(q)
      BY IdleOK DEF JobOK, Request, Idle, Labels, AtDevice
    <3> HIDE DEF q
    <3> QED
      BY <2>4, <3>1, PutRequest DEF ReadForSetPolicy, Start, q
  <2> QED
    BY <1>10, <2>1, <2>2, <2>3, <2>4 DEF NewCommand
<1>11. ASSUME NEW r \in Requests, FindLive(r) \/ writeAuthorized(r) \/ MarkListed(r)
       PROVE  RequestTypes'
  <2>1. req[r].dev \in Devices
    BY <1>0, <1>11 DEF FindLive, writeAuthorized, MarkListed, JobOK, AtDevice
  <2>2. ASSUME NEW u \in Units, req' = [req EXCEPT ![r].pc = "write", ![r].todo = {u}]
        PROVE  RequestTypes'
    <3> DEFINE q == [req[r] EXCEPT !.pc = "write", !.todo = {u}]
    <3>1. JobOK(q)
      BY <1>0, <2>1 DEF JobOK, Request, AtDevice, Labels
    <3>2. req' = [req EXCEPT ![r] = q]
      BY <1>0, <2>2 DEF Request, RequestTypes
    <3> HIDE DEF q
    <3> QED
      BY <3>1, <3>2, PutRequest
  <2>3. CASE FindLive(r)
    BY <2>1, <2>2, <2>3, GotoOK, ReturnOK, ScansPresent DEF FindLive, Labels, AtDevice
  <2>4. CASE writeAuthorized(r) \/ MarkListed(r)
    BY <2>1, <2>4, GotoOK DEF writeAuthorized, MarkListed, Labels, AtDevice
  <2> QED
    BY <1>11, <2>3, <2>4
<1>12. ASSUME NEW r \in Requests, ReadList(r) PROVE RequestTypes'
  <2> DEFINE q == [req[r] EXCEPT !.pc = "writeList", !.list = list]
  <2>1. JobOK(q)
    BY <1>0, <1>12 DEF ReadList, JobOK, Request, AtDevice, Labels, TableTypes
  <2>2. req' = [req EXCEPT ![r] = q]
    BY <1>12, <1>0 DEF ReadList, Request, RequestTypes
  <2> HIDE DEF q
  <2> QED
    BY <2>1, <2>2, PutRequest
<1>13. CASE Restart
  BY <1>13, IdleOK DEF Restart, RequestTypes, JobOK
<1>14. CASE (\E u \in Units : Plug(u) \/ Unplug(u)) \/ UNCHANGED vars
  BY <1>14 DEF Plug, Unplug, vars, RequestTypes
<1> QED
  BY <1>1, <1>2, <1>3, <1>4, <1>5, <1>6, <1>7, <1>8, <1>10, <1>11, <1>12, <1>13, <1>14
  DEF Next, Reconcile, Command

\* The registry, the alerts, the settings and the requests of hwalert.ts keep
\* their types: in particular a request that works on a device has one.
THEOREM HwTypes == Spec => []TypeOK
<1>1. Init => TypeOK
  <2> SUFFICES ASSUME Init PROVE TypeOK
    OBVIOUS
  <2>1. TableTypes
    BY HwAssumption DEF Init, TableTypes
  <2>2. RequestTypes
    BY IdleOK DEF Init, RequestTypes, JobOK
  <2> QED
    BY <2>1, <2>2, TypeParts
<1>2. TypeOK /\ [Next]_vars => TypeOK'
  <2> SUFFICES ASSUME TypeOK, [Next]_vars PROVE TypeOK'
    OBVIOUS
  <2>1. TableTypes' /\ RequestTypes'
    BY TypeParts, TableStep, RequestStep
  <2> QED
    BY <2>1, TypeParts DEF TypeOK, TableTypes, RequestTypes, JobOK
<1> QED
  BY <1>1, <1>2, PTL DEF Spec

-----------------------------------------------------------------------------
\* The request has registered the device and is about to write its alert.
Raising(r, d) == req[r].pc = "alert" /\ req[r].dev = d

\* At most one request raises the alert of a device, and only of a registered
\* one that has none.
DeviceOK(d) ==
    /\ alerts[d] <= 1 /\ (alerts[d] = 1 => d \in registered)
    /\ \A r \in Requests : Raising(r, d) => d \in registered /\ alerts[d] = 0
    /\ \A r, s \in Requests : Raising(r, d) /\ Raising(s, d) => r = s
    /\ d \in registered =>
        \/ alerts[d] > 0
        \/ \E r \in Requests : Raising(r, d)
        \/ Kind[d] = "pci"
        \/ d \in orphaned

AlertInv == \A d \in Devices : DeviceOK(d)

\* The step neither registers nor alerts, and nobody comes to raise or stops.
Quiet ==
    /\ registered' = registered /\ alerts' = alerts /\ orphaned' = orphaned
    /\ \A r \in Requests, d \in Devices : Raising(r, d)' <=> Raising(r, d)

\* Such a step keeps what is said of the devices.
LEMMA QuietKeeps == ASSUME AlertInv, Quiet PROVE AlertInv'
BY DEF AlertInv, DeviceOK, Quiet

\* A request that is replaced by one that raises nothing, and raised nothing.
LEMMA NotRaising ==
    ASSUME RequestTypes, NEW r \in Requests, req[r].pc # "alert", NEW q, q.pc # "alert",
           req' = [req EXCEPT ![r] = q]
    PROVE  \A s \in Requests, d \in Devices : Raising(s, d)' <=> Raising(s, d)
BY DEF RequestTypes, Raising

\* A request that goes from one label to another, neither of them "alert".
LEMMA GotoQuiet ==
    ASSUME RequestTypes, NEW r \in Requests, req[r].pc # "alert", NEW l, l # "alert", Goto(r, l)
    PROVE  \A s \in Requests, d \in Devices : Raising(s, d)' <=> Raising(s, d)
BY DEF RequestTypes, Request, Raising, Goto

\* A request that returns from another label than "alert".
LEMMA ReturnQuiet ==
    ASSUME RequestTypes, NEW r \in Requests, req[r].pc # "alert", Return(r)
    PROVE  \A s \in Requests, d \in Devices : Raising(s, d)' <=> Raising(s, d)
<1>1. Idle.pc # "alert"
  BY DEF Idle
<1> QED
  BY <1>1, NotRaising DEF Return

\* A reconcile that goes on to its next unit from another label than "alert".
LEMMA NextUnitQuiet ==
    ASSUME RequestTypes, NEW r \in Requests, req[r].pc # "alert", NextUnit(r)
    PROVE  \A s \in Requests, d \in Devices : Raising(s, d)' <=> Raising(s, d)
<1>1. CASE req[r].todo = {}
  BY <1>1, ReturnQuiet DEF NextUnit
<1>2. CASE req[r].todo # {}
  BY <1>2 DEF NextUnit, RequestTypes, Request, Raising
<1> QED
  BY <1>1, <1>2

\* reconcile but for its two inserts leaves the alerts alone.
LEMMA ReconcileQuiet ==
    ASSUME RequestTypes, NEW r \in Requests,
           \/ scanAllBuses(r) \/ getPolicy(r) \/ ReadWhitelist(r)
           \/ \E u \in Units : FindDevice(r, u)
           \/ UpdateDevice(r) \/ CreateThrows(r)
    PROVE  Quiet
<1> USE DEF registry, alertRows, Quiet
<1>1. CASE scanAllBuses(r)
  BY <1>1, NotRaising DEF scanAllBuses, Start, Idle
<1>2. CASE getPolicy(r)
  BY <1>2 DEF getPolicy, RequestTypes, Request, Raising
<1>3. CASE ReadWhitelist(r)
  <2>1. CASE Return(r)
    BY <1>3, <2>1, ReturnQuiet DEF ReadWhitelist
  <2>2. CASE ~Return(r)
    BY <1>3, <2>2 DEF ReadWhitelist, RequestTypes, Request, Raising
  <2> QED
    BY <2>1, <2>2
<1>4. CASE \E u \in Units : FindDevice(r, u)
  <2>1. PICK u \in Units : FindDevice(r, u)
    BY <1>4
  <2> DEFINE q == [req[r] EXCEPT !.pc = IF Id[u] \in registered THEN "update" ELSE "create",
                                 !.dev = Id[u], !.want = u \in req[r].on,
                                 !.todo = @ \ {u}, !.on = @ \ {u}]
  <2>2. req' = [req EXCEPT ![r] = q] /\ q.pc # "alert" /\ req[r].pc # "alert"
    BY <2>1 DEF FindDevice, RequestTypes, Request
  <2>3. UNCHANGED <<registered, alerts, orphaned>>
    BY <2>1 DEF FindDevice
  <2> HIDE DEF q
  <2> QED
    BY <2>2, <2>3, NotRaising
<1>5. CASE UpdateDevice(r)
  BY <1>5, NextUnitQuiet DEF UpdateDevice
<1>6. CASE CreateThrows(r)
  BY <1>6, ReturnQuiet DEF CreateThrows
<1> QED
  BY <1>1, <1>2, <1>3, <1>4, <1>5, <1>6

\* So do the commands of the operator.
LEMMA CommandQuiet ==
    ASSUME RequestTypes, NEW r \in Requests, NewCommand(r) \/ Command(r)
    PROVE  Quiet
<1> USE DEF registry, alertRows, Quiet
<1>1. CASE NewCommand(r)
  <2>1. PICK q : q.pc # "alert" /\ req' = [req EXCEPT ![r] = q]
    BY <1>1 DEF NewCommand, FindForBlock, FindForList, FindAlert, ReadForSetPolicy, Start, Idle
  <2>2. req[r].pc # "alert" /\ UNCHANGED <<registered, alerts, orphaned>>
    BY <1>1 DEF NewCommand, FindForBlock, FindForList, FindAlert, ReadForSetPolicy
  <2> QED
    BY <2>1, <2>2, NotRaising
<1>2. CASE FindLive(r) \/ writeAuthorized(r) \/ MarkListed(r)
  <2>1. CASE \E u \in Units : req' = [req EXCEPT ![r].pc = "write", ![r].todo = {u}]
    BY <1>2, <2>1 DEF FindLive, writeAuthorized, MarkListed, RequestTypes, Request, Raising
  <2>2. CASE FindLive(r) /\ ~ \E u \in Units : req' = [req EXCEPT ![r].pc = "write", ![r].todo = {u}]
    BY <2>2, GotoQuiet, ReturnQuiet, ScansPresent DEF FindLive
  <2>3. CASE writeAuthorized(r) \/ MarkListed(r)
    BY <2>3, GotoQuiet DEF writeAuthorized, MarkListed
  <2> QED
    BY <1>2, <2>1, <2>2, <2>3
<1>3. CASE WriteFails(r) \/ RecordBlock(r) \/ WriteList(r) \/ CloseAlert(r) \/ putPolicy(r)
  BY <1>3, ReturnQuiet DEF WriteFails, RecordBlock, WriteList, CloseAlert, putPolicy
<1>4. CASE ReadList(r)
  BY <1>4 DEF ReadList, RequestTypes, Request, Raising
<1> QED
  BY <1>1, <1>2, <1>3, <1>4 DEF Command

\* A reconcile registers a device, and goes on to its alert or not.
LEMMA CreateKeeps ==
    ASSUME TypeOK, RequestTypes, AlertInv, NEW r \in Requests, CreateDevice(r)
    PROVE  AlertInv'
<1>0. PICK e \in Devices : e = req[r].dev
  BY DEF CreateDevice, RequestTypes, JobOK, AtDevice
<1>1. /\ e \notin registered /\ registered' = registered \cup {e}
      /\ UNCHANGED <<alerts, orphaned>> /\ req[r].pc = "create"
  BY <1>0 DEF CreateDevice, alertRows
<1>2. \A s \in Requests : ~Raising(s, e)
  BY <1>1 DEF AlertInv, DeviceOK
<1>3. alerts[e] = 0
  BY <1>1 DEF AlertInv, DeviceOK, TypeOK
<1>4. ASSUME NEW s \in Requests, NEW d \in Devices
      PROVE  Raising(s, d)' <=> Raising(s, d) \/ (s = r /\ d = e /\ AlertWanted(r))
  <2>1. CASE AlertWanted(r)
    BY <1>0, <1>1, <2>1 DEF CreateDevice, Goto, Raising, RequestTypes, Request
  <2>2. CASE ~AlertWanted(r)
    BY <1>1, <2>2, NextUnitQuiet DEF CreateDevice
  <2> QED
    BY <2>1, <2>2
<1>5. ~AlertWanted(r) => Kind[e] = "pci"
  BY <1>0 DEF AlertWanted
<1>6. ASSUME NEW d \in Devices, d # e PROVE DeviceOK(d)'
  BY <1>1, <1>4, <1>6 DEF AlertInv, DeviceOK
<1>7. DeviceOK(e)'
  BY <1>1, <1>2, <1>3, <1>4, <1>5 DEF DeviceOK, TypeOK
<1> QED
  BY <1>6, <1>7 DEF AlertInv

\* A reconcile writes the alert of the device it registered.
LEMMA RaiseKeeps ==
    ASSUME TypeOK, RequestTypes, AlertInv, NEW r \in Requests, RaiseAlert(r)
    PROVE  AlertInv'
<1>0. PICK e \in Devices : Raising(r, e)
  BY DEF RaiseAlert, RequestTypes, JobOK, AtDevice, Raising
<1>1. /\ e \in registered /\ alerts[e] = 0 /\ alerts' = [alerts EXCEPT ![e] = 1]
      /\ UNCHANGED <<registered, orphaned>>
  <2>1. e \in registered /\ alerts[e] = 0
    BY <1>0 DEF AlertInv, DeviceOK
  <2>2. req[r].dev = e
    BY <1>0 DEF Raising
  <2> QED
    BY <2>1, <2>2 DEF RaiseAlert, registry, TypeOK
<1>2. \A s \in Requests : Raising(s, e) => s = r
  BY <1>0 DEF AlertInv, DeviceOK
<1>3. ASSUME NEW s \in Requests, NEW d \in Devices
      PROVE  Raising(s, d)' <=> Raising(s, d) /\ s # r
  <2>1. NextUnit(r)
    BY DEF RaiseAlert
  <2>2. CASE req[r].todo = {}
    BY <2>1, <2>2 DEF NextUnit, Return, Idle, Raising, RequestTypes
  <2>3. CASE req[r].todo # {}
    BY <2>1, <2>3 DEF NextUnit, Raising, RequestTypes, Request
  <2> QED
    BY <2>2, <2>3
<1>4. ASSUME NEW d \in Devices, d # e PROVE DeviceOK(d)'
  <2>1. alerts'[d] = alerts[d] /\ ~Raising(r, d)
    BY <1>0, <1>1, <1>4 DEF Raising, TypeOK
  <2> QED
    BY <1>1, <1>3, <2>1 DEF AlertInv, DeviceOK
<1>5. DeviceOK(e)'
  BY <1>1, <1>2, <1>3 DEF DeviceOK, TypeOK
<1> QED
  BY <1>4, <1>5 DEF AlertInv

\* A restart loses the requests, and its history keeps whose alert it cut off.
LEMMA RestartKeeps == ASSUME AlertInv, Restart PROVE AlertInv'
<1>1. \A s \in Requests, d \in Devices : ~Raising(s, d)'
  BY DEF Restart, Raising, Idle
<1>2. /\ UNCHANGED <<registered, alerts>>
      /\ \A d \in Devices : d \in orphaned' <=>
            d \in orphaned \/ \E s \in Requests : Raising(s, d)
  BY DEF Restart, Raising, registry, alertRows
<1> QED
  BY <1>1, <1>2 DEF AlertInv, DeviceOK

\* Every action keeps what is said of the devices.
LEMMA AlertStep == TypeOK /\ AlertInv /\ [Next]_vars => AlertInv'
<1> SUFFICES ASSUME TypeOK, AlertInv, [Next]_vars PROVE AlertInv'
  OBVIOUS
<1>0. RequestTypes
  BY TypeParts
<1>1. ASSUME NEW r \in Requests, scanAllBuses(r) \/ Reconcile(r) PROVE AlertInv'
  BY <1>0, <1>1, ReconcileQuiet, QuietKeeps, CreateKeeps, RaiseKeeps DEF Reconcile
<1>2. ASSUME NEW r \in Requests, NewCommand(r) \/ Command(r) PROVE AlertInv'
  BY <1>0, <1>2, CommandQuiet, QuietKeeps
<1>3. CASE (\E u \in Units : Plug(u) \/ Unplug(u)) \/ UNCHANGED vars
  <2>1. Quiet
    BY <1>3 DEF Plug, Unplug, vars, registry, alertRows, Quiet, Raising
  <2> QED
    BY <2>1, QuietKeeps
<1>4. CASE Restart
  BY <1>4, RestartKeeps
<1> QED
  BY <1>1, <1>2, <1>3, <1>4 DEF Next

\* Both facts hold of the empty registry.
LEMMA AlertInit == Init => AlertInv
<1> SUFFICES ASSUME Init PROVE AlertInv
  OBVIOUS
<1>1. \A s \in Requests, d \in Devices : ~Raising(s, d)
  BY DEF Init, Raising, Idle
<1> QED
  <2> SUFFICES ASSUME NEW d \in Devices PROVE DeviceOK(d)
    BY DEF AlertInv
  <2>1. alerts[d] = 0 /\ d \notin registered
    BY DEF Init
  <2> QED
    BY <1>1, <2>1 DEF DeviceOK

\* Types and alerts together are inductive.
LEMMA AlertAlways == Spec => [](TypeOK /\ AlertInv)
<1>1. Spec => []TypeOK
  BY HwTypes
<1>2. Init => AlertInv
  BY AlertInit
<1>3. TypeOK /\ AlertInv /\ [Next]_vars => AlertInv'
  BY AlertStep
<1> QED
  BY <1>1, <1>2, <1>3, PTL DEF Spec

\* However many reconciles meet a device for the first time together, it gets
\* one alert at most, and none without its registry row (hwalert.ts reconcile).
THEOREM NoAlertSpam == Spec => []OneAlertPerDevice
<1>1. AlertInv => OneAlertPerDevice
  BY DEF AlertInv, DeviceOK, OneAlertPerDevice
<1> QED
  BY <1>1, AlertAlways, PTL

\* A registered device without an alert is a PCI card, has its alert under way,
\* or lost it to a restart (hwalert.ts reconcile: row and alert in two awaits).
THEOREM SilenceExplained == Spec => []NoSilentDevice
<1>1. TypeOK /\ AlertInv => NoSilentDevice
  BY DEF TypeOK, AlertInv, DeviceOK, NoSilentDevice, Raising
<1> QED
  BY <1>1, AlertAlways, PTL
================================================================================
