--------------------------- MODULE BuildLifecycle ---------------------------
(***************************************************************************)
(* What the Fester engine promises of a build to the console: an action    *)
(* waits until everything it depends on is done, becomes active, settles   *)
(* once, and a build that nothing can change any more gets one verdict.    *)
(* Gates, retries, the cache, nodes and sleeps are not visible here;       *)
(* FesterEngine implements this specification.                             *)
(***************************************************************************)
CONSTANTS Builds, Actions, Deps, Requests

VARIABLES phase,    \* "absent", "running", or the verdict
          stop,     \* a cancel was accepted
          outcome   \* what became of each action

vars == <<phase, stop, outcome>>

Waiting(b) == {a \in Actions : outcome[b][a] = "waiting"}

Init ==
    /\ phase = [b \in Builds |-> "absent"]
    /\ stop = [b \in Builds |-> FALSE]
    /\ outcome = [b \in Builds |-> [a \in Actions |-> "none"]]

Begin(b) ==
    /\ phase[b] = "absent"
    /\ \E R \in Requests :
        outcome' = [outcome EXCEPT ![b] = [a \in Actions |-> IF a \in R THEN "waiting" ELSE "none"]]
    /\ phase' = [phase EXCEPT ![b] = "running"]
    /\ UNCHANGED stop

Stop(b) ==
    /\ phase[b] = "running"
    /\ stop' = [stop EXCEPT ![b] = TRUE]
    /\ UNCHANGED <<phase, outcome>>

Activate(b, a) ==
    /\ phase[b] = "running" /\ ~stop[b]
    /\ outcome[b][a] = "waiting"
    /\ \A d \in Deps[a] : outcome[b][d] = "done"
    /\ outcome' = [outcome EXCEPT ![b][a] = "active"]
    /\ UNCHANGED <<phase, stop>>

Settle(b, a) ==
    /\ phase[b] = "running"
    /\ outcome[b][a] = "active"
    /\ \E r \in IF stop[b] THEN {"cancelled"} ELSE {"done", "failed"} :
        outcome' = [outcome EXCEPT ![b][a] = r]
    /\ UNCHANGED <<phase, stop>>

\* Every action of S waits below a failed one, directly or through S.
Doomed(b, S) ==
    \A a \in S : \E d \in Deps[a] : outcome[b][d] \in {"failed", "skipped"} \/ d \in S

Skip(b) ==
    /\ phase[b] = "running" /\ ~stop[b]
    /\ \E S \in SUBSET Waiting(b) :
        /\ Doomed(b, S)
        /\ outcome' = [outcome EXCEPT ![b] = [a \in Actions |-> IF a \in S THEN "skipped" ELSE @[a]]]
    /\ UNCHANGED <<phase, stop>>

\* With nothing active, a stopped build cancels what waits, any other build
\* has skipped all of it: the verdict is a function of the outcomes.
Conclude(b) ==
    /\ phase[b] = "running"
    /\ \A a \in Actions : outcome[b][a] # "active"
    /\ stop[b] \/ Doomed(b, Waiting(b))
    /\ outcome' = [outcome EXCEPT ![b] =
            [a \in Actions |-> IF a \in Waiting(b) THEN (IF stop[b] THEN "cancelled" ELSE "skipped")
                               ELSE @[a]]]
    /\ phase' = [phase EXCEPT ![b] =
            IF \E a \in Actions : outcome'[b][a] = "cancelled" THEN "cancelled"
            ELSE IF \E a \in Actions : outcome'[b][a] = "failed" THEN "failed" ELSE "succeeded"]
    /\ UNCHANGED stop

Next == \E b \in Builds :
            \/ Begin(b) \/ Stop(b) \/ Skip(b) \/ Conclude(b)
            \/ \E a \in Actions : Activate(b, a) \/ Settle(b, a)

Spec == Init /\ [][Next]_vars
=============================================================================
