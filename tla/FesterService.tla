----------------------------- MODULE FesterService -----------------------------
(***************************************************************************)
(* The Fester process: its tables (FesterStore) and its supervised loop    *)
(* (clock.ts) under the requests, crashes and hot reloads they share.      *)
(*                                                                         *)
(* Every request passes fetch() of index.ts, which sees to the loops       *)
(* (ensureLoop) before it serves; a fresh boot and every evaluation of the *)
(* modules do so too.  A loop is a chain of sleeps, each a child process   *)
(* that lasts Period, or longer when its exit is served late; the tick is  *)
(* the moment of the wake.  The globalThis entries (__loop, __last) live   *)
(* as long as the process, while a hot reload may kill running loops, and  *)
(* a loop it starts may never resume (clock.ts: "async chains started      *)
(* during module re-evaluation never resume").  The loops of the two keys  *)
(* are independent, and one is modelled.                                   *)
(***************************************************************************)
EXTENDS FesterStore

CONSTANTS Loops,    \* loops the process can have at once
          Period,   \* __ms, the period of the loop
          MaxSleep  \* bound on the time a sleep takes

ASSUME ServiceAssumption ==
    /\ Period \in Nat \ {0}
    /\ MaxSleep \in Nat /\ MaxSleep >= Period

VARIABLES
    looping,  \* __loop
    age,      \* Date.now() - __last, counted up to StaleAge
    running,  \* loops that will resume when their sleep ends
    slept,    \* age of the current sleep of each of them
    late      \* history: a sleep of this process outlasted what counts as alive

loopVars == <<looping, age, running, slept, late>>
serviceVars == <<vars, loopVars>>

StaleAge == 3 * Period

LoopTypes ==
    /\ looping \in BOOLEAN
    /\ age \in 0..StaleAge
    /\ running \subseteq Loops
    /\ slept \in [Loops -> 0..MaxSleep]
    /\ late \in BOOLEAN

ServiceInit ==
    /\ Init
    /\ looping = FALSE /\ age = 0
    /\ running = {} /\ slept = [i \in Loops |-> 0]
    /\ late = FALSE

-----------------------------------------------------------------------------
(* clock.ts *)

AliveFlagOnly == looping                    \* mutant: the flag is trusted, however old
AliveOnePeriod == looping /\ age < Period   \* mutant: no slack for a wake that is late
Alive == looping /\ age < StaleAge

\* The loops in S go on; a new one joins them unless they count as alive.  One
\* that a reload starts may have no future (resumes).
EnsureLoop(S, resumes) ==
    /\ slept' = [i \in Loops |-> IF i \in S THEN slept[i] ELSE 0]
    /\ IF Alive
       THEN running' = S /\ UNCHANGED <<looping, age>>
       ELSE /\ looping' = TRUE /\ age' = 0
            /\ IF resumes THEN \E i \in Loops \ S : running' = S \cup {i}
                          ELSE running' = S

\* A sleep ends: __last is set, the tick runs, the next sleep starts.
Wake(i) ==
    /\ Serving
    /\ i \in running /\ slept[i] >= Period
    /\ age' = 0
    /\ slept' = [slept EXCEPT ![i] = 0]
    /\ UNCHANGED <<vars, looping, running, late>>

TimePasses ==
    /\ Serving
    /\ \A i \in running : slept[i] < MaxSleep
    /\ age' = IF age < StaleAge THEN age + 1 ELSE age
    /\ slept' = [i \in Loops |-> IF i \in running THEN slept[i] + 1 ELSE slept[i]]
    /\ late' = (late \/ \E i \in running : slept'[i] >= StaleAge)
    /\ UNCHANGED <<vars, looping, running>>

-----------------------------------------------------------------------------
(* Requests, boot, crash and reload *)

\* fetch(): the loop first, then the call.
Request ==
    /\ EnsureLoop(running, TRUE)
    /\ \E b \in Builds : StartBuild(b)
    /\ UNCHANGED late

\* A request that reads, or a socket that opens.
Read ==
    /\ Serving
    /\ EnsureLoop(running, TRUE)
    /\ UNCHANGED <<vars, late>>

\* The executors and the write chain go on beside the loop.
Background ==
    /\ RunWrite \/ \E b \in Builds : FinishRun(b)
    /\ UNCHANGED loopVars

BootLoops ==
    /\ Boot
    /\ EnsureLoop({}, TRUE)
    /\ UNCHANGED late

CrashLoops ==
    /\ Crash
    /\ looping' = FALSE /\ age' = 0
    /\ running' = {} /\ slept' = [i \in Loops |-> 0]
    /\ late' = FALSE

\* A reload may kill loops, and sees to the loop while it evaluates the modules.
ReloadLoops ==
    /\ HotReload
    /\ \E S \in SUBSET running, resumes \in BOOLEAN : EnsureLoop(S, resumes)
    /\ UNCHANGED late

ServiceNext ==
    \/ Request \/ Read \/ Background \/ BootLoops \/ CrashLoops \/ ReloadLoops
    \/ TimePasses \/ \E i \in Loops : Wake(i)

\* What FesterStore assumes, and time goes on, and sleeps end.  A client that
\* finds no loop alive asks again (the console polls): no other call is obliged.
ServiceSpec ==
    /\ ServiceInit /\ [][ServiceNext]_serviceVars
    /\ WF_serviceVars(RunWrite /\ UNCHANGED loopVars) /\ WF_serviceVars(BootLoops)
    /\ WF_serviceVars(TimePasses) /\ \A i \in Loops : WF_serviceVars(Wake(i))
    /\ WF_serviceVars(Read)

-----------------------------------------------------------------------------
(* Properties *)

\* ensureLoop(): "missing or has gone stale".  Over requests, reloads and
\* restarts the process has one loop at most, unless a sleep took three
\* periods: two would tick for ever, each keeping __last fresh for the other.
LoopAlone == ~late => \A i, j \in running : i = j

\* The loop ticks again and again while requests arrive, although a reload may
\* kill it and its replacement may be dead from the start.
LoopKeepsTicking == []<><<\E i \in Loops : Wake(i)>>_serviceVars
================================================================================
