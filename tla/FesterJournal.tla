----------------------------- MODULE FesterJournal -----------------------------
(***************************************************************************)
(* The event journal of the Fester service (index.ts journal(), the write  *)
(* chain of store.ts): every event of a build on the bus is appended to    *)
(* the events table through one promise chain, and a build that exceeds    *)
(* JOURNAL_CAP rows loses its oldest rows.                                 *)
(*                                                                         *)
(* journal() runs up to its first await when the event is emitted, so it   *)
(* reads the build's row count then; the writes run one by one from the    *)
(* head of the chain.  The continuation of a write is queued before the    *)
(* next write of the chain (the reaction that frees the chain needs one    *)
(* more hop), but engine code can emit between any two of these steps.     *)
(* Events that belong to no build are appended and never counted: left out.*)
(***************************************************************************)
EXTENDS Integers, Sequences, FiniteSets, SequencesExt

CONSTANTS Journaled,   \* builds whose events are journaled
          JOURNAL_CAP, \* rows a build may keep
          MaxEvents,   \* bound on the events emitted per build
          MaxFailures, \* bound on the writes that throw
          MaxRestarts  \* bound on the restarts of the service

ASSUME JournalAssumption ==
    /\ JOURNAL_CAP \in Nat \ {0} /\ MaxEvents \in Nat
    /\ MaxFailures \in Nat /\ MaxRestarts \in Nat

VARIABLES
    emitted,       \* [Journaled -> Nat]: events of the build emitted so far
    live,          \* builds started by this process: their executor emits at any time
    writeChain,    \* the writes queued behind Store.writeLock
    settledWrite,  \* <<op>> when the continuation of op is due, else <<>>
    rows,          \* the events table, one sequence per build
    journalCounts, \* the Map of index.ts; Unknown when it has no entry
    capNoted,
    lost,          \* history: events whose append threw or died with the process
    failures, restarts

journalVars == <<emitted, live, writeChain, settledWrite, rows, journalCounts,
                 capNoted, lost, failures, restarts>>

Unknown == -1
Notice == 0      \* a row journal() did not count: the cap note, the boot note
Events == 1..MaxEvents
Op == [kind: {"event", "trim", "note", "boot"}, build: Journaled,
       event: 0..MaxEvents, n: Nat]

JournalTypes ==
    /\ emitted \in [Journaled -> 0..MaxEvents]
    /\ live \subseteq Journaled
    /\ writeChain \in Seq(Op)
    /\ settledWrite \in Seq(Op) /\ Len(settledWrite) <= 1
    /\ rows \in [Journaled -> Seq(Events \cup {Notice})]
    /\ journalCounts \in [Journaled -> Nat \cup {Unknown}]
    /\ capNoted \subseteq Journaled
    /\ lost \subseteq Journaled \X (0..MaxEvents)
    /\ failures \in 0..MaxFailures
    /\ restarts \in 0..MaxRestarts

JournalInit ==
    /\ emitted = [b \in Journaled |-> 0]
    /\ live = {}
    /\ writeChain = <<>>
    /\ settledWrite = <<>>
    /\ rows = [b \in Journaled |-> <<>>]
    /\ journalCounts = [b \in Journaled |-> Unknown]
    /\ capNoted = {}
    /\ lost = {}
    /\ failures = 0 /\ restarts = 0

-----------------------------------------------------------------------------
Settled == writeChain = <<>> /\ settledWrite = <<>>

CountOf(b) == IF journalCounts[b] = Unknown THEN Len(rows[b]) ELSE journalCounts[b]

Enqueue(op) == writeChain' = Append(writeChain, op)

\* journal() up to its first await: the count is read here, the append queued.
Journal(b) ==
    LET e == emitted[b] + 1 IN
    /\ e <= MaxEvents
    /\ emitted' = [emitted EXCEPT ![b] = e]
    /\ journalCounts' = [journalCounts EXCEPT ![b] = CountOf(b)]
    /\ Enqueue([kind |-> "event", build |-> b, event |-> e, n |-> CountOf(b)])

\* The executor of a build of this process emits, in the middle of anything.
Emit(b) ==
    /\ b \in live
    /\ Journal(b)
    /\ UNCHANGED <<live, settledWrite, rows, capNoted, lost, failures, restarts>>

\* A start request: the build's first event.
FirstEvent(b) ==
    /\ Settled
    /\ emitted[b] = 0
    /\ live' = live \cup {b}
    /\ Journal(b)
    /\ UNCHANGED <<settledWrite, rows, capNoted, lost, failures, restarts>>

\* POST /api/sessions journals an event of any stored build, of an earlier
\* process too; it is a request of its own, so the chain has drained.
CreateSession(b) ==
    /\ Settled
    /\ emitted[b] > 0 /\ b \notin live
    /\ Journal(b)
    /\ UNCHANGED <<live, settledWrite, rows, capNoted, lost, failures, restarts>>

-----------------------------------------------------------------------------
(* The write chain *)

Dropped(s, k) == SubSeq(s, k + 1, Len(s))

ApplyTrim(op) == rows' = [rows EXCEPT ![op.build] = Dropped(@, op.n)]

ApplyOp(op) ==
    \/ op.kind = "event" /\ rows' = [rows EXCEPT ![op.build] = Append(@, op.event)]
    \/ op.kind \in {"note", "boot"} /\ rows' = [rows EXCEPT ![op.build] = Append(@, Notice)]
    \/ op.kind = "trim" /\ ApplyTrim(op)

\* Mutant: the writes run in no order (no chain, one promise each).
NextWriteAny(i) == i \in 1..Len(writeChain)
NextWritePoisoned(i) == i = 1 /\ failures = 0   \* mutant: a rejection stays in the chain
NextWrite(i) == i = 1

WriteRuns ==
    /\ settledWrite = <<>>
    /\ \E i \in 1..Len(writeChain) :
        /\ NextWrite(i)
        /\ ApplyOp(writeChain[i])
        /\ settledWrite' = <<writeChain[i]>>
        /\ writeChain' = SubSeq(writeChain, 1, i - 1)
                           \o SubSeq(writeChain, i + 1, Len(writeChain))
    /\ UNCHANGED <<emitted, live, journalCounts, capNoted, lost, failures, restarts>>

\* The statement throws: the chain goes on, journal() logs and gives up.
WriteThrows ==
    /\ settledWrite = <<>> /\ writeChain # <<>>
    /\ failures < MaxFailures
    /\ failures' = failures + 1
    /\ writeChain' = Tail(writeChain)
    /\ LET op == Head(writeChain) IN
        lost' = IF op.kind = "event" THEN lost \cup {<<op.build, op.event>>} ELSE lost
    /\ UNCHANGED <<emitted, live, settledWrite, rows, journalCounts, capNoted, restarts>>

\* Mutant: the overflow is not taken off the count again.
AfterTrimUncounted(op) ==
    /\ op.kind = "trim"
    /\ journalCounts' = [journalCounts EXCEPT ![op.build] = JOURNAL_CAP + op.n]
    /\ IF op.build \in capNoted
       THEN UNCHANGED <<writeChain, capNoted>>
       ELSE /\ capNoted' = capNoted \cup {op.build}
            /\ Enqueue([op EXCEPT !.kind = "note", !.n = 0])

AfterTrim(op) ==
    /\ op.kind = "trim"
    /\ journalCounts' = [journalCounts EXCEPT ![op.build] = JOURNAL_CAP]
    /\ IF op.build \in capNoted
       THEN UNCHANGED <<writeChain, capNoted>>
       ELSE /\ capNoted' = capNoted \cup {op.build}
            /\ Enqueue([op EXCEPT !.kind = "note", !.n = 0])

AfterEvent(op) ==
    /\ op.kind = "event"
    /\ IF op.n + 1 > JOURNAL_CAP
       THEN /\ Enqueue([op EXCEPT !.kind = "trim", !.n = op.n + 1 - JOURNAL_CAP])
            /\ UNCHANGED journalCounts
       ELSE /\ journalCounts' = [journalCounts EXCEPT ![op.build] = op.n + 1]
            /\ UNCHANGED writeChain
    /\ UNCHANGED capNoted

AfterNote(op) == op.kind \in {"note", "boot"} /\ UNCHANGED <<writeChain, journalCounts, capNoted>>

\* journal() resumes after its await.
Continue ==
    /\ settledWrite # <<>>
    /\ LET op == Head(settledWrite) IN AfterEvent(op) \/ AfterTrim(op) \/ AfterNote(op)
    /\ settledWrite' = <<>>
    /\ UNCHANGED <<emitted, live, rows, lost, failures, restarts>>

PendingEvents == {<<writeChain[i].build, writeChain[i].event>> :
                    i \in {i \in 1..Len(writeChain) : writeChain[i].kind = "event"}}

BootNote(b) == [kind |-> "boot", build |-> b, event |-> 0, n |-> 0]

\* The process dies and starts again: the chain and the maps are gone, and the
\* builds it was running get a row that tells why they failed.
Restart ==
    /\ restarts < MaxRestarts
    /\ restarts' = restarts + 1
    /\ live' = {} /\ settledWrite' = <<>>
    /\ \E stale \in SUBSET live : writeChain' = SetToSeq({BootNote(b) : b \in stale})
    /\ journalCounts' = [b \in Journaled |-> Unknown]
    /\ capNoted' = {}
    /\ lost' = lost \cup PendingEvents
    /\ UNCHANGED <<emitted, rows, failures>>

JournalNext ==
    \/ \E b \in Journaled : Emit(b) \/ FirstEvent(b) \/ CreateSession(b)
    \/ WriteRuns \/ WriteThrows \/ Continue \/ Restart

\* Microtasks run as long as there are any; the emitters are clients.
JournalSpec == JournalInit /\ [][JournalNext]_journalVars
               /\ WF_journalVars(WriteRuns) /\ WF_journalVars(Continue)

-----------------------------------------------------------------------------
(* Properties *)

\* The rows of a build that hold an event of the bus.
EventRows(b) == {i \in 1..Len(rows[b]) : rows[b][i] # Notice}

\* The journal of a build replays in the order of emission, and only the oldest
\* events are dropped: between the first kept event and the last emitted one
\* nothing is missing but the writes still queued and the writes that failed.
ReplayInOrder == \A b \in Journaled : \A i \in EventRows(b) :
    /\ \A j \in EventRows(b) : i < j => rows[b][i] < rows[b][j]
    /\ \A e \in rows[b][i]..emitted[b] :
        \/ \E j \in EventRows(b) : rows[b][j] = e
        \/ <<b, e>> \in PendingEvents \cup lost

\* A trim never cuts a build below the cap: stale counts drop no extra event.
TrimKeepsCap == [][\A b \in Journaled :
    Len(rows'[b]) < Len(rows[b]) => Len(rows'[b]) >= JOURNAL_CAP]_journalVars

\* Every emitted event reaches the table (and may age out of it) unless its
\* own write failed: a failed write does not block the chain.
EveryEventWritten == \A b \in Journaled : \A e \in Events :
    emitted[b] >= e ~> <<b, e>> \notin PendingEvents
================================================================================
