----------------------------- MODULE FesterStream ------------------------------
(***************************************************************************)
(* A console watching builds: the WebSocket hub and the timeline and       *)
(* builds endpoints of the Fester service (index.ts, api.ts) composed with *)
(* the browser's stream hook, its poller, its build list and its Live DAG  *)
(* tab (festerPanel.tsx).                                                  *)
(*                                                                         *)
(* Three channels carry what the service knows: the socket (events, in     *)
(* order, filtered by subscription, lost when it drops), the timeline a    *)
(* DAG tab fetches once per selection, and the polled build list.  They    *)
(* are independent connections, so their answers interleave freely.        *)
(*                                                                         *)
(* The n-th event of a build updates its pipeline or its one action; the   *)
(* state it announces is n itself, so "newer" is "greater".  The journal   *)
(* is written by microtasks before any request is served, and keeps the    *)
(* newest events; a timeline is the oldest page of what it keeps, so that  *)
(* the timeline of a long build ends before its newest event.  The note    *)
(* the journal makes of its cap is left out.  Sockets share nothing in the *)
(* hub, hence one console.                                                 *)
(***************************************************************************)
EXTENDS Naturals, Sequences, FiniteSetsExt

CONSTANTS Builds,
          Script,     \* [Builds -> Seq({"pipeline", "task"})], the events of a build
          NoBuild,
          Cap,        \* events the stream buffer keeps (2000)
          Page,       \* events a timeline answers with (1000)
          JournalCap, \* events of a build the journal keeps (5000)
          MaxWire,    \* bound on messages under way in one direction
          MaxDrops    \* bound on lost connections

ASSUME StreamAssumption ==
    /\ Script \in [Builds -> Seq({"pipeline", "task"})]
    /\ NoBuild \notin Builds
    /\ Cap \in Nat \ {0} /\ Page \in Nat \ {0} /\ JournalCap \in Nat \ {0}
    /\ MaxWire \in Nat /\ MaxDrops \in Nat

VARIABLES
    emitted,           \* service: events each build has emitted
    sub,               \* hub: the subscription of the socket
    down, up,          \* frames sent and not yet rendered, subscribe messages to the hub
    link,              \* socket: offline, connecting (accepted, onopen to come), online
    events,            \* the buffer, as the last flush rendered it
    sel,               \* build of the Live DAG tab (NoBuild: another tab is open)
    fetch,             \* its timeline request
    applied,           \* appliedRef: build folded, position in events folded up to
    dag,               \* last event folded for each build
    rest,              \* rows of the poll kept last: the pipeline state of each build
    lost,              \* history: the newest task update of a build does not reach the tab
    drops

service == <<emitted, sub>>
wires == <<down, up, link, drops>>
tab == <<sel, fetch, applied, dag, lost>>
vars == <<service, wires, events, tab, rest>>

Frame == [build : Builds \cup {NoBuild}, n : Nat]
Other == [build |-> NoBuild, n |-> 0]   \* node_update, hello, acknowledgements

NoFetch == [build |-> NoBuild, start |-> 0, served |-> FALSE, map |-> 0]
NotFolded == [build |-> NoBuild, last |-> 0]
Nothing == [b \in Builds |-> 0]

TypeOK ==
    /\ emitted \in [Builds -> Nat]
    /\ sub \in Builds \cup {NoBuild} /\ sel \in Builds \cup {NoBuild}
    /\ down \in Seq(Frame) /\ events \in Seq(Frame)
    /\ up \in Seq(Builds \cup {NoBuild})
    /\ link \in {"offline", "connecting", "online"}
    /\ fetch \in [build : Builds \cup {NoBuild}, start : Nat, served : BOOLEAN, map : Nat]
    /\ applied \in [build : Builds \cup {NoBuild}, last : Nat]
    /\ dag \in [Builds -> Nat] /\ rest \in [Builds -> Nat]
    /\ lost \in [Builds -> BOOLEAN] /\ drops \in Nat
    /\ Len(events) <= Cap

Init ==
    /\ emitted = Nothing
    /\ sub = NoBuild
    /\ down = <<>> /\ up = <<>> /\ link = "offline" /\ drops = 0
    /\ events = <<>>
    /\ sel = NoBuild /\ fetch = NoFetch /\ applied = NotFolded
    /\ dag = Nothing /\ lost = [b \in Builds |-> FALSE]
    /\ rest = Nothing

-----------------------------------------------------------------------------
\* The last event of a kind among the first n of b; 0 when there is none.
LastOf(kind, b, n) == Max({0} \cup {i \in 1..n : Script[b][i] = kind})

\* f carries the newest task update of b.
NewestTask(b, f) == f.build = b /\ f.n = LastOf("task", b, emitted[b])

Ended(b) == emitted[b] = Len(Script[b])

\* Mutant: events of other builds are folded too.
FreshOfAll(s, last, b) == {i \in 1..Len(s) : i > last /\ s[i].build # NoBuild}

\* Positions of events after `last` that belong to b: the fresh ones.
FreshIn(s, last, b) == {i \in 1..Len(s) : i > last /\ s[i].build = b}

IsTask(f) == f.build \in Builds /\ Script[f.build][f.n] = "task"

\* foldEvent over the fresh events of b in order: a task update sets the action,
\* over what an earlier one set; a pipeline update sets none.
FoldFresh(s, last, b, map) ==
    LET tasks == {i \in FreshIn(s, last, b) : IsTask(s[i])}
        f == s[Max(tasks)]
    IN IF tasks = {} THEN map ELSE [map EXCEPT ![f.build] = f.n]

-----------------------------------------------------------------------------
(* the service *)

\* broadcast: foreign events are filtered for a socket that subscribed.
Passes(b) == link # "offline" /\ sub \in {NoBuild, b}

Emit(b) ==
    /\ ~Ended(b) /\ Len(down) < MaxWire
    /\ emitted' = [emitted EXCEPT ![b] = @ + 1]
    /\ down' = IF Passes(b) THEN Append(down, [build |-> b, n |-> emitted[b] + 1]) ELSE down
    /\ lost' = IF Script[b][emitted[b] + 1] = "task" THEN [lost EXCEPT ![b] = ~Passes(b)] ELSE lost
    /\ UNCHANGED <<sub, up, link, drops, events, sel, fetch, applied, dag, rest>>

\* Mutant: the subscription filters node updates as well.
NodeUpdateFiltered ==
    /\ link # "offline" /\ sub = NoBuild /\ Len(down) < MaxWire
    /\ down' = Append(down, Other)
    /\ UNCHANGED <<service, up, link, drops, events, tab, rest>>

\* Heartbeat and node drift reach every socket.
NodeUpdate ==
    /\ link # "offline" /\ Len(down) < MaxWire
    /\ down' = Append(down, Other)
    /\ UNCHANGED <<service, up, link, drops, events, tab, rest>>

\* websocket.message: subscribe or unsubscribe
Receive ==
    /\ up # <<>>
    /\ sub' = Head(up)
    /\ up' = Tail(up)
    /\ UNCHANGED <<emitted, down, link, drops, events, tab, rest>>

-----------------------------------------------------------------------------
(* the stream hook *)

\* The reconnect timer (longer than the flush timer) fires and the hub accepts
\* the socket (websocket.open).
Connect ==
    /\ link = "offline" /\ down = <<>>
    /\ link' = "connecting"
    /\ UNCHANGED <<service, down, up, drops, events, tab, rest>>

\* Mutant: a new socket starts without the subscription.
OpenSilent ==
    /\ link = "connecting"
    /\ link' = "online"
    /\ UNCHANGED <<service, down, up, drops, events, tab, rest>>

\* onopen: the subscription of the focus is sent again.
Open ==
    /\ link = "connecting"
    /\ link' = "online"
    /\ up' = IF sel = NoBuild THEN up ELSE Append(up, sel)
    /\ UNCHANGED <<service, down, drops, events, tab, rest>>

\* The socket drops at both ends and the hub forgets it; of the frames sent,
\* the console received the first k.
Drop(k) ==
    /\ link # "offline" /\ drops < MaxDrops
    /\ k \in 0..(IF link = "online" THEN Len(down) ELSE 0)
    /\ drops' = drops + 1
    /\ link' = "offline"
    /\ sub' = NoBuild
    /\ down' = SubSeq(down, 1, k) /\ up' = <<>>
    /\ lost' = [b \in Builds |-> lost[b] \/ \E i \in k + 1..Len(down) : NewestTask(b, down[i])]
    /\ UNCHANGED <<emitted, events, sel, fetch, applied, dag, rest>>

\* Positions move down when the oldest k events leave the buffer.
Shift(pos, k) == IF pos > k THEN pos - k ELSE 0

\* handleEvent and the flush timer: the first k frames are buffered and rendered,
\* and the DAG tab folds what is fresh.
flush(k) ==
    /\ link # "connecting" /\ k \in 1..Len(down)
    /\ LET all == events \o SubSeq(down, 1, k)
           cut == Shift(Len(all), Cap)
           kept == SubSeq(all, cut + 1, Len(all))
           last == Shift(applied.last, cut)
           fresh == FreshIn(kept, last, sel)
           folds == sel # NoBuild /\ applied.build = sel /\ fresh # {}
       IN /\ events' = kept
          /\ fetch' = [fetch EXCEPT !.start = Shift(@, cut)]
          /\ dag' = IF folds THEN FoldFresh(kept, last, sel, dag) ELSE dag
          /\ applied' = [applied EXCEPT !.last = IF folds THEN Max(fresh) ELSE last]
          /\ lost' = [b \in Builds |-> lost[b] \/ \E i \in 1..cut :
                        /\ i > IF fetch = NoFetch THEN applied.last ELSE fetch.start
                        /\ NewestTask(b, all[i])]
    /\ down' = SubSeq(down, k + 1, Len(down))
    /\ UNCHANGED <<sub, emitted, up, link, drops, sel, rest>>

-----------------------------------------------------------------------------
(* the build list: a poll overlaid with what the stream said *)

wsState(b) ==
    LET S == {i \in 1..Len(events) : events[i].build = b /\ Script[b][events[i].n] = "pipeline"}
    IN IF S = {} THEN 0 ELSE events[Max(S)].n

\* allBuilds: the state a row shows; 0 when the build has no row.
Shown(b) ==
    IF wsState(b) = 0 THEN rest[b]
    ELSE IF rest[b] = 0 /\ wsState(b) = Len(Script[b]) THEN 0
    ELSE wsState(b)

\* GET /api/builds; usePoll lets only the newest loader write.  An answer kept
\* some time after it was read equals one kept at once and frames that come later.
Poll ==
    /\ rest' = [b \in Builds |-> LastOf("pipeline", b, emitted[b])]
    /\ UNCHANGED <<service, wires, events, tab>>

\* A loader that fails resolves to null, which empties the list until the next poll.
PollFails ==
    /\ rest' = Nothing
    /\ UNCHANGED <<service, wires, events, tab>>

-----------------------------------------------------------------------------
(* the Live DAG tab *)

\* setSubscription: sent at once on an open socket, by onopen otherwise.
setSubscription(b) == up' = IF link = "online" THEN Append(up, b) ELSE up

\* A build is selected: its timeline is requested from the position rendered last,
\* the live fold runs (the map may still be this build's), the focus is sent.
Select(b) ==
    /\ b # sel /\ Shown(b) # 0 /\ Len(up) < MaxWire
    /\ sel' = b
    /\ fetch' = [build |-> b, start |-> Len(events), served |-> FALSE, map |-> 0]
    /\ LET fresh == FreshIn(events, applied.last, b)
           folds == applied.build = b /\ fresh # {}
       IN /\ dag' = IF folds THEN FoldFresh(events, applied.last, b, dag) ELSE dag
          /\ applied' = IF folds THEN [applied EXCEPT !.last = Max(fresh)] ELSE applied
    /\ setSubscription(b)
    /\ UNCHANGED <<service, down, link, drops, events, lost, rest>>

\* Another tab: the DAG tab unmounts and forgets its fold.
Leave ==
    /\ sel # NoBuild /\ Len(up) < MaxWire
    /\ sel' = NoBuild /\ fetch' = NoFetch /\ applied' = NotFolded /\ dag' = Nothing
    /\ setSubscription(NoBuild)
    /\ UNCHANGED <<service, down, link, drops, events, lost, rest>>

\* Updates of b that will be folded over the timeline under way.
StillToFold(b) ==
    FreshIn(events, fetch.start, b) \cup {i \in 1..Len(down) : down[i].build = b}

\* Its newest task update is among them.
NewestToFold(b) ==
    \/ \E i \in FreshIn(events, fetch.start, b) : NewestTask(b, events[i])
    \/ \E i \in 1..Len(down) : NewestTask(b, down[i])

\* listEvents: the last task update of the first page after the trimmed events.
OnPage(b, trimmed) ==
    LET end == IF emitted[b] > trimmed + Page THEN trimmed + Page ELSE emitted[b]
        t == LastOf("task", b, end)
    IN IF t > trimmed THEN t ELSE 0

\* GET /api/timeline/:build, of a journal that trimmed some of what exceeds its cap.
\* A timeline with the newest update makes up for what was lost, unless older updates
\* are still to be folded over it; one that ends before it leaves it to the stream.
TimelineServe ==
    /\ fetch.build # NoBuild /\ ~fetch.served
    /\ \E trimmed \in 0..Shift(emitted[fetch.build], JournalCap) :
        LET asked == fetch.build
            map == OnPage(asked, trimmed)
        IN /\ fetch' = [fetch EXCEPT !.served = TRUE, !.map = map]
           /\ lost' = [lost EXCEPT ![asked] =
                          IF map = LastOf("task", asked, emitted[asked])
                          THEN @ /\ StillToFold(asked) # {}
                          ELSE @ \/ ~NewestToFold(asked)]
    /\ UNCHANGED <<service, wires, events, sel, applied, dag, rest>>

\* Mutant: live folding goes on from what is rendered when the answer arrives.
TimelineAnswerLate(failed) ==
    /\ fetch.build # NoBuild /\ (failed \/ fetch.served)
    /\ dag' = [Nothing EXCEPT ![fetch.build] = IF failed THEN 0 ELSE fetch.map]
    /\ applied' = [build |-> fetch.build, last |-> Len(events)]
    /\ fetch' = NoFetch
    /\ lost' = [lost EXCEPT ![fetch.build] =
                   @ \/ (failed /\ LastOf("task", fetch.build, emitted[fetch.build]) # 0)]
    /\ UNCHANGED <<service, wires, events, sel, rest>>

\* The answer replaces the map; live folding goes on from the requested position.
\* A failed request folds as an empty timeline.
TimelineAnswer(failed) ==
    /\ fetch.build # NoBuild /\ (failed \/ fetch.served)
    /\ dag' = [Nothing EXCEPT ![fetch.build] = IF failed THEN 0 ELSE fetch.map]
    /\ applied' = [build |-> fetch.build, last |-> fetch.start]
    /\ fetch' = NoFetch
    /\ lost' = [lost EXCEPT ![fetch.build] =
                   @ \/ (failed /\ LastOf("task", fetch.build, emitted[fetch.build]) # 0)]
    /\ UNCHANGED <<service, wires, events, sel, rest>>

-----------------------------------------------------------------------------
Next ==
    \/ \E b \in Builds : Emit(b) \/ Select(b)
    \/ NodeUpdate \/ Receive
    \/ Connect \/ Open \/ \E k \in 0..MaxWire : Drop(k) \/ flush(k)
    \/ Poll \/ PollFails
    \/ Leave \/ TimelineServe \/ \E f \in BOOLEAN : TimelineAnswer(f)

\* Timers fire, messages arrive while the socket is up, and now and again a poll
\* is answered at once.  Users and builds owe nothing.
Spec ==
    /\ Init /\ [][Next]_vars
    /\ WF_vars(NodeUpdate) /\ WF_vars(Receive)
    /\ WF_vars(Connect) /\ WF_vars(Open) /\ WF_vars(\E k \in 1..MaxWire : flush(k))
    /\ WF_vars(Poll)

-----------------------------------------------------------------------------
(* Properties *)

\* Once the socket is quiet, the hub filters by the build the console shows,
\* whatever selections, drops and reconnects came in between (setSubscription
\* is silent on a socket that is not open; onopen makes up for it).
SubscriptionAgrees == link = "online" /\ up = <<>> => sub = sel

\* The map of the Live DAG tab never mixes builds, although selections change
\* while timelines are under way and the buffer holds events of every build.
DagOfOneBuild ==
    sel # NoBuild /\ applied.build = sel => \A b \in Builds \ {sel} : dag[b] = 0

\* Nothing of the selected build is under way to the fold.
CaughtUp ==
    /\ sel # NoBuild /\ applied.build = sel /\ fetch = NoFetch
    /\ \A i \in 1..Len(down) : down[i].build # sel
    /\ FreshIn(events, applied.last, sel) = {}

\* The timeline and the stream overlap: events may be in both, arrive before or
\* after the answer, and be folded twice, older over newer.  Unless the newest
\* task update was lost to a drop, the filter, a failed timeline or one whose page
\* ends before it, the map ends at it.
DagCatchesUp ==
    CaughtUp /\ ~lost[sel] => dag[sel] = LastOf("task", sel, emitted[sel])

\* Whatever drops, filters, evictions and failed polls (which blank the list) do,
\* the list comes back to the verdict of every build that ended, even of one whose
\* last frames never reached the console: the heartbeat frames, which no
\* subscription filters, push what the stream said before out of the buffer.
ListRecovers == []<>(\A b \in Builds : Ended(b) => Shown(b) = emitted[b])
=============================================================================
