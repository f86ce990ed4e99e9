-------------------------------- MODULE HwAlert --------------------------------
(***************************************************************************)
(* Hardware alerts (bridge/hwalert.ts).  Every read of the panel           *)
(* reconciles the buses with the device registry: summary, devices and     *)
(* alerts are polled side by side, so reconciles overlap each other and    *)
(* the commands of an operator.  An action is the code between two awaits; *)
(* what a request read stays in its record while others write.             *)
(*                                                                         *)
(* A device is a deviceId, hence a row of the registry.  USB and PCI make  *)
(* it from vendor and product, so several units on the buses can have the  *)
(* same.  A bus shows a unit as absent, on or off (authorized as scanned). *)
(* A scan samples all buses at once; no property depends on two samples of *)
(* one scan.                                                               *)
(***************************************************************************)
EXTENDS Naturals, FiniteSetsExt

CONSTANTS Devices,
          Kind,        \* [Devices -> Kinds]
          Units,       \* entries of the buses
          Id,          \* [Units -> Devices], the deviceId a scan gives them
          AtStart,     \* what the buses show of them when the console starts first
          MaxPCI,      \* PCI entries a scan keeps (128)
          Requests,    \* places for requests that are served at the same time
          NoDevice,
          MaxOps,      \* bound on commands and host changes
          MaxRestarts

Kinds == {"usb-storage", "usb", "thunderbolt", "bluetooth", "pci", "firewire"}

\* Kinds whose devices have an authorized file in sysfs.
Authorizable == {"usb-storage", "usb", "thunderbolt"}

\* Kinds whose deviceId names vendor and product, not the unit.
Shared == {"usb-storage", "usb", "pci"}

ASSUME HwAssumption ==
    /\ Kind \in [Devices -> Kinds]
    /\ Id \in [Units -> Devices] /\ MaxPCI \in Nat
    /\ \A u, v \in Units : Id[u] = Id[v] => u = v \/ Kind[Id[u]] \in Shared
    /\ AtStart \in [Units -> {"absent", "on", "off"}]
    /\ NoDevice \notin Devices
    /\ MaxOps \in Nat /\ MaxRestarts \in Nat

VARIABLES
    bus,                     \* what the buses show of each unit: absent, on, off
    registered,              \* rows of HwDevice
    authorized, whitelisted, \* and their flags (FALSE without a row)
    alerts,                  \* how many HwAlert rows each device has
    alertState,              \* none, active, acknowledged, dismissed
    list,                    \* SdKv hwalert.whitelist
    blockPCI,                \* SdKv hwalert.policy, the one switch reconcile reads
    req,                     \* where each request stands and what it carries
    orphaned,                \* history: devices whose alert a restart cut off
    ops, restarts

registry == <<registered, authorized, whitelisted>>
alertRows == <<alerts, alertState>>
bounds == <<ops, restarts>>
vars == <<bus, registry, alertRows, list, blockPCI, req, orphaned, bounds>>

\* Labels at which a request works on one device.
AtDevice == {"update", "create", "alert", "scan", "write", "record", "mark",
             "readList", "writeList", "acknowledge", "dismiss"}
Labels == AtDevice \cup {"idle", "policy", "list", "next", "putPolicy"}

Request == [pc   : Labels,
            dev  : Devices \cup {NoDevice},
            want : BOOLEAN,         \* the flag it sets
            todo : SUBSET Units,    \* units of its scan still to do
            on   : SUBSET Units,    \* those it scanned as authorized
            list : SUBSET Devices,  \* the whitelist it read
            pci  : BOOLEAN]         \* the policy it read

\* A request that has returned keeps nothing.
Idle == [pc |-> "idle", dev |-> NoDevice, want |-> FALSE, todo |-> {}, on |-> {},
         list |-> {}, pci |-> FALSE]

TypeOK ==
    /\ bus \in [Units -> {"absent", "on", "off"}]
    /\ registered \subseteq Devices
    /\ authorized \in [Devices -> BOOLEAN] /\ whitelisted \in [Devices -> BOOLEAN]
    /\ alerts \in [Devices -> Nat]
    /\ alertState \in [Devices -> {"none", "active", "acknowledged", "dismissed"}]
    /\ list \subseteq Devices
    /\ blockPCI \in BOOLEAN
    /\ req \in [Requests -> Request]
    /\ orphaned \subseteq Devices
    /\ ops \in Nat /\ restarts \in Nat
    /\ \A r \in Requests : req[r].pc \in AtDevice => req[r].dev \in Devices

Present == {u \in Units : bus[u] # "absent"}

\* What a bus may show of a unit that is plugged in.
Shown(u) == CASE Kind[Id[u]] \in Authorizable        -> {"on", "off"}
              [] Kind[Id[u]] \in {"pci", "firewire"} -> {"on"}
              [] Kind[Id[u]] = "bluetooth"           -> {"off"}

Init ==
    /\ bus = AtStart
    /\ registered = {}
    /\ authorized = [d \in Devices |-> FALSE]
    /\ whitelisted = [d \in Devices |-> FALSE]
    /\ alerts = [d \in Devices |-> 0]
    /\ alertState = [d \in Devices |-> "none"]
    /\ list = {}
    /\ blockPCI = FALSE
    /\ req = [r \in Requests |-> Idle]
    /\ orphaned = {}
    /\ ops = 0
    /\ restarts = 0

-----------------------------------------------------------------------------
Goto(r, l) == req' = [req EXCEPT ![r].pc = l]
Return(r) == req' = [req EXCEPT ![r] = Idle]
Start(r, job) == req' = [req EXCEPT ![r] = job]

\* reconcile goes on to the next unit of its scan, or is done.
NextUnit(r) ==
    IF req[r].todo = {} THEN Return(r)
    ELSE req' = [req EXCEPT ![r].pc = "next", ![r].dev = NoDevice, ![r].want = FALSE]

OnPCI == {u \in Present : Kind[Id[u]] = "pci"}

\* What a scan can find: everything, but of PCI the first MaxPCI entries, in the
\* order of the directory.
Scans == {S \in SUBSET Present :
             /\ Present \ OnPCI \subseteq S
             /\ Cardinality(S \cap OnPCI) = Min({MaxPCI, Cardinality(OnPCI)})}

\* One more command or host change.
Op == ops < MaxOps /\ ops' = ops + 1 /\ UNCHANGED restarts

-----------------------------------------------------------------------------
(* reconcile *)

scanAllBuses(r) ==
    /\ req[r].pc = "idle"
    /\ \E S \in Scans :
          Start(r, [Idle EXCEPT !.pc = "policy", !.todo = S, !.on = {u \in S : bus[u] = "on"}])
    /\ UNCHANGED <<bus, registry, alertRows, list, blockPCI, orphaned, bounds>>

getPolicy(r) ==
    /\ req[r].pc = "policy"
    /\ req' = [req EXCEPT ![r].pc = "list", ![r].pci = blockPCI]
    /\ UNCHANGED <<bus, registry, alertRows, list, blockPCI, orphaned, bounds>>

ReadWhitelist(r) ==
    /\ req[r].pc = "list"
    /\ IF req[r].todo = {} THEN Return(r)
       ELSE req' = [req EXCEPT ![r].pc = "next", ![r].list = list]
    /\ UNCHANGED <<bus, registry, alertRows, list, blockPCI, orphaned, bounds>>

\* The loop takes its next unit, finds the row of its device and has its flag to set.
FindDevice(r, u) ==
    /\ req[r].pc = "next" /\ u \in req[r].todo
    /\ req' = [req EXCEPT ![r].pc = IF Id[u] \in registered THEN "update" ELSE "create",
                          ![r].dev = Id[u],
                          ![r].want = u \in req[r].on,
                          ![r].todo = @ \ {u},
                          ![r].on = @ \ {u}]
    /\ UNCHANGED <<bus, registry, alertRows, list, blockPCI, orphaned, bounds>>

\* The flags a reconcile gives to the row of its device.
ScannedFlags(r, d) ==
    /\ whitelisted' = [whitelisted EXCEPT ![d] = d \in req[r].list]
    /\ authorized' = [authorized EXCEPT ![d] = d \in req[r].list \/ req[r].want]

\* Mutant: a device seen before only has its authorized flag refreshed.
UpdateAuthorized(r) ==
    /\ req[r].pc = "update"
    /\ authorized' = [authorized EXCEPT ![req[r].dev] = @ \/ req[r].want]
    /\ NextUnit(r)
    /\ UNCHANGED <<bus, registered, whitelisted, alertRows, list, blockPCI, orphaned, bounds>>

UpdateDevice(r) ==
    /\ req[r].pc = "update"
    /\ ScannedFlags(r, req[r].dev)
    /\ NextUnit(r)
    /\ UNCHANGED <<bus, registered, alertRows, list, blockPCI, orphaned, bounds>>

\* Mutant: the PCI policy decides about every kind.
AlertByPolicy(r) == req[r].pci

AlertWanted(r) == Kind[req[r].dev] # "pci" \/ req[r].pci

\* Mutant: the row is upserted, and the reconcile that comes second goes on.
UpsertDevice(r) ==
    /\ req[r].pc = "create"
    /\ registered' = registered \cup {req[r].dev}
    /\ ScannedFlags(r, req[r].dev)
    /\ IF AlertWanted(r) THEN Goto(r, "alert") ELSE NextUnit(r)
    /\ UNCHANGED <<bus, alertRows, list, blockPCI, orphaned, bounds>>

CreateDevice(r) ==
    /\ req[r].pc = "create" /\ req[r].dev \notin registered
    /\ registered' = registered \cup {req[r].dev}
    /\ ScannedFlags(r, req[r].dev)
    /\ IF AlertWanted(r) THEN Goto(r, "alert") ELSE NextUnit(r)
    /\ UNCHANGED <<bus, alertRows, list, blockPCI, orphaned, bounds>>

\* deviceId is unique: a reconcile that loses the race throws out of its loop.
CreateThrows(r) ==
    /\ req[r].pc = "create" /\ req[r].dev \in registered
    /\ Return(r)
    /\ UNCHANGED <<bus, registry, alertRows, list, blockPCI, orphaned, bounds>>

RaiseAlert(r) ==
    /\ req[r].pc = "alert"
    /\ alerts' = [alerts EXCEPT ![req[r].dev] = @ + 1]
    /\ alertState' = [alertState EXCEPT ![req[r].dev] = "active"]
    /\ NextUnit(r)
    /\ UNCHANGED <<bus, registry, list, blockPCI, orphaned, bounds>>

-----------------------------------------------------------------------------
(* block (w = FALSE) and unblock (w = TRUE) *)

FindForBlock(r, d, w) ==
    /\ req[r].pc = "idle" /\ Op
    /\ d \in registered /\ authorized[d] # w
    /\ Start(r, [Idle EXCEPT !.pc = "scan", !.dev = d, !.want = w])
    /\ UNCHANGED <<bus, registry, alertRows, list, blockPCI, orphaned>>

\* The first unit found of the device is the one that is written.  A device without
\* a sysfs path is unblocked in the registry only; its block fails.
FindLive(r) ==
    /\ req[r].pc = "scan"
    /\ \E S \in Scans :
          LET found == {u \in S : Id[u] = req[r].dev}
          IN IF found # {} /\ Kind[req[r].dev] # "bluetooth"
             THEN \E u \in found : req' = [req EXCEPT ![r].pc = "write", ![r].todo = {u}]
             ELSE IF req[r].want THEN Goto(r, "record") ELSE Return(r)
    /\ UNCHANGED <<bus, registry, alertRows, list, blockPCI, orphaned, bounds>>

writeAuthorized(r) ==
    /\ req[r].pc = "write"
    /\ \E u \in req[r].todo \cap Present :
          /\ Kind[Id[u]] \in Authorizable
          /\ bus' = [bus EXCEPT ![u] = IF req[r].want THEN "on" ELSE "off"]
    /\ Goto(r, "record")
    /\ UNCHANGED <<registry, alertRows, list, blockPCI, orphaned, bounds>>

\* Without privilege, without the file, or with the unit gone.
WriteFails(r) ==
    /\ req[r].pc = "write"
    /\ Return(r)
    /\ UNCHANGED <<bus, registry, alertRows, list, blockPCI, orphaned, bounds>>

RecordBlock(r) ==
    /\ req[r].pc = "record"
    /\ authorized' = [authorized EXCEPT ![req[r].dev] = req[r].want]
    /\ Return(r)
    /\ UNCHANGED <<bus, registered, whitelisted, alertRows, list, blockPCI, orphaned, bounds>>

-----------------------------------------------------------------------------
(* whitelist (w = TRUE) and unwhitelist (w = FALSE) *)

FindForList(r, d, w) ==
    /\ req[r].pc = "idle" /\ Op
    /\ d \in registered /\ whitelisted[d] # w
    /\ Start(r, [Idle EXCEPT !.pc = "mark", !.dev = d, !.want = w])
    /\ UNCHANGED <<bus, registry, alertRows, list, blockPCI, orphaned>>

MarkListed(r) ==
    /\ req[r].pc = "mark"
    /\ whitelisted' = [whitelisted EXCEPT ![req[r].dev] = req[r].want]
    /\ authorized' = [authorized EXCEPT ![req[r].dev] = @ \/ req[r].want]
    /\ Goto(r, "readList")
    /\ UNCHANGED <<bus, registered, alertRows, list, blockPCI, orphaned, bounds>>

ReadList(r) ==
    /\ req[r].pc = "readList"
    /\ req' = [req EXCEPT ![r].pc = "writeList", ![r].list = list]
    /\ UNCHANGED <<bus, registry, alertRows, list, blockPCI, orphaned, bounds>>

WriteList(r) ==
    /\ req[r].pc = "writeList"
    /\ list' = IF req[r].want THEN req[r].list \cup {req[r].dev}
                              ELSE req[r].list \ {req[r].dev}
    /\ Return(r)
    /\ UNCHANGED <<bus, registry, alertRows, blockPCI, orphaned, bounds>>

-----------------------------------------------------------------------------
(* acknowledge, dismiss, setPolicy *)

FindAlert(r, d, l) ==
    /\ req[r].pc = "idle" /\ Op
    /\ alertState[d] # "none"
    /\ l = "acknowledge" => alertState[d] = "active"
    /\ Start(r, [Idle EXCEPT !.pc = l, !.dev = d])
    /\ UNCHANGED <<bus, registry, alertRows, list, blockPCI, orphaned>>

CloseAlert(r) ==
    /\ req[r].pc \in {"acknowledge", "dismiss"}
    /\ alertState' = [alertState EXCEPT ![req[r].dev] =
                        IF req[r].pc = "dismiss" THEN "dismissed" ELSE "acknowledged"]
    /\ Return(r)
    /\ UNCHANGED <<bus, registry, alerts, list, blockPCI, orphaned, bounds>>

\* setPolicy of blockUnknownPCI to v, or of another switch (v is then what it read).
ReadForSetPolicy(r, v) ==
    /\ req[r].pc = "idle" /\ Op
    /\ Start(r, [Idle EXCEPT !.pc = "putPolicy", !.pci = v])
    /\ UNCHANGED <<bus, registry, alertRows, list, blockPCI, orphaned>>

putPolicy(r) ==
    /\ req[r].pc = "putPolicy"
    /\ blockPCI' = req[r].pci
    /\ Return(r)
    /\ UNCHANGED <<bus, registry, alertRows, list, orphaned, bounds>>

-----------------------------------------------------------------------------
(* the host and the process *)

Plug(u) ==
    /\ u \notin Present /\ Op
    /\ \E s \in Shown(u) : bus' = [bus EXCEPT ![u] = s]
    /\ UNCHANGED <<registry, alertRows, list, blockPCI, req, orphaned>>

Unplug(u) ==
    /\ u \in Present /\ Op
    /\ bus' = [bus EXCEPT ![u] = "absent"]
    /\ UNCHANGED <<registry, alertRows, list, blockPCI, req, orphaned>>

\* The console restarts: every request is gone, what is in the database stays.
Restart ==
    /\ restarts < MaxRestarts
    /\ restarts' = restarts + 1
    /\ req' = [r \in Requests |-> Idle]
    /\ orphaned' = orphaned \cup {d \in Devices :
                        \E r \in Requests : req[r].pc = "alert" /\ req[r].dev = d}
    /\ UNCHANGED <<bus, registry, alertRows, list, blockPCI, ops>>

Reconcile(r) ==
    \/ getPolicy(r) \/ ReadWhitelist(r)
    \/ \E u \in Units : FindDevice(r, u)
    \/ UpdateDevice(r) \/ CreateDevice(r) \/ CreateThrows(r)
    \/ RaiseAlert(r)

Command(r) ==
    \/ FindLive(r) \/ writeAuthorized(r) \/ WriteFails(r) \/ RecordBlock(r)
    \/ MarkListed(r) \/ ReadList(r) \/ WriteList(r)
    \/ CloseAlert(r) \/ putPolicy(r)

NewCommand(r) ==
    \/ \E d \in Devices, w \in BOOLEAN : FindForBlock(r, d, w) \/ FindForList(r, d, w)
    \/ \E d \in Devices, l \in {"acknowledge", "dismiss"} : FindAlert(r, d, l)
    \/ \E v \in BOOLEAN : ReadForSetPolicy(r, v)

Next ==
    \/ \E r \in Requests :
          scanAllBuses(r) \/ Reconcile(r) \/ NewCommand(r) \/ Command(r)
    \/ \E u \in Units : Plug(u) \/ Unplug(u)
    \/ Restart

\* The panel keeps polling and promises settle; operators and the host owe nothing.
Spec == /\ Init /\ [][Next]_vars
        /\ WF_vars(\E r \in Requests : scanAllBuses(r))
        /\ \A r \in Requests : WF_vars(Reconcile(r) \/ Command(r))

-----------------------------------------------------------------------------
(* Properties *)

\* "No alert spam": a device has one alert at most, however many reconciles meet
\* it for the first time together, and no alert is without its registry row
\* (reconcile: findUnique, create, alert in three awaits).
OneAlertPerDevice ==
    \A d \in Devices : alerts[d] <= 1 /\ (alerts[d] = 1 => d \in registered)

\* A registered device has its alert, or it is about to be written, or it is a
\* PCI device (alerted on only by policy), or a restart came between the row and
\* the alert: then no later reconcile raises it, as the row is there.
NoSilentDevice ==
    \A d \in registered :
        \/ alerts[d] > 0
        \/ \E r \in Requests : req[r].pc = "alert" /\ req[r].dev = d
        \/ Kind[d] = "pci"
        \/ d \in orphaned

\* The row of a device says what the whitelist and one of its units on the buses say.
Agrees(d) ==
    LET seen == {u \in Present : Id[u] = d} IN
    seen # {} =>
        /\ d \in registered
        /\ whitelisted[d] = (d \in list)
        /\ \E u \in seen : authorized[d] = (d \in list \/ bus[u] = "on")

\* A reconcile writes what it scanned some awaits before, over the row of a block
\* or a whitelisting made meanwhile: such a row is repaired.  Once operators and
\* host are quiet, registry, whitelist and buses agree for good, except on PCI
\* devices when there are more than a scan keeps.  Of identical units whose flags
\* differ the row shows one or the other, as each reconcile writes both in turn.
RegistryConverges ==
    <>[](\A d \in Devices :
            Agrees(d) \/ (Kind[d] = "pci" /\ Cardinality(OnPCI) > MaxPCI))
=============================================================================
