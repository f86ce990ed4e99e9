----------------------------- MODULE FesterAutopsy -----------------------------
(***************************************************************************)
(* The failure autopsy of Fester (autopsy.ts) over the builds of the       *)
(* engine (FesterEngine).  The report is made from the engine's actions    *)
(* while it knows the build, and after a restart from the journal alone,   *)
(* where the DAG is reconstructed from the task_update and failure events. *)
(* The journal keeps the order in which the engine emits them              *)
(* (FesterJournal, ReplayInOrder), and its cap of 5000 events is out of a  *)
(* build's reach.  The deps an event carries and those of the canonical    *)
(* step list are both stepsFor's, hence Deps.                              *)
(***************************************************************************)
EXTENDS FesterEngine, SequencesExt, FiniteSetsExt

-----------------------------------------------------------------------------
(* failureAutopsy: a graph is a function from actions to their states *)

\* The live graph: every action of the build.
EngineGraph(b) == [a \in Mine(b) |-> actState[b][a]]

\* reconstructActions: the last event of an action wins.
Told(b, a) == {i \in DOMAIN events[b] : events[b][i].action = a}
EventGraph(b) == [a \in {events[b][i].action : i \in DOMAIN events[b]}
                    |-> events[b][Max(Told(b, a))].state]

\* The least set of actions of graph g that holds From and follows edge.
Reach(g, From, edge) ==
    {y \in DOMAIN g : \A S \in SUBSET DOMAIN g :
        From \cap DOMAIN g \subseteq S /\ (\A z \in S : edge[z] \cap DOMAIN g \subseteq S) => y \in S}

Dependents == [a \in Actions |-> {y \in Actions : a \in Deps[y]}]

\* walk(): the dependency chain, with the states it shows.
Chain(g, x) == Restrict(g, Reach(g, Deps[x], Deps) \ {x})

Skipped(b) == {a \in Actions : [action |-> a, state |-> "skipped"] \in ToSet(events[b])}

\* addDownstream, then the downstream of the failure event (downstreamOf), then
\* what was skipped because of an upstream failure.
BlastRadius(g, b, x) ==
    LET told == IF [action |-> x, state |-> "failed"] \in ToSet(events[b])
                THEN Dependents[x] \cap Mine(b) ELSE {}
    IN (Reach(g, Dependents[x], Dependents) \cup told \cup Skipped(b)) \ {x}

-----------------------------------------------------------------------------
(* Properties *)

\* autopsy.ts: "Works for BOTH live engine builds (build.actions passed in) and
\* store-only historical builds".  Wherever a restart cuts a build, its events
\* tell the state of every action the engine had moved; the autopsy of a failure
\* in an ended build is the same from both, and its blast radius is what is
\* really downstream of it.
AutopsyFaithful == \A b \in Journaled :
    LET told == EventGraph(b) IN
    /\ \A a \in Mine(b) :
          actState[b][a] = IF a \in DOMAIN told THEN told[a] ELSE "pending"
    /\ \A x \in Mine(b) : runState[b] \in Terminal /\ actState[b][x] = "failed" =>
          /\ Chain(told, x) = Chain(EngineGraph(b), x)
          /\ \A g \in {told, EngineGraph(b)} :
                BlastRadius(g, b, x) = {a \in Mine(b) : x \in Upstream(a)}
================================================================================
