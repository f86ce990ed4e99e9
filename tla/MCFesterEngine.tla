--------------------------- MODULE MCFesterEngine ---------------------------
(* Instances of FesterEngine for TLC: slices of the per-target step chain of *)
(* targets.ts, for the two targets debian (d) and arch (a) of one project.   *)
EXTENDS FesterEngine, TLC

CONSTANTS dCompile, dTest, aCompile, aTest, b1, b2, n1, n2

\* Two targets of two steps each: waves of two actions.
TwoTargets == (dCompile :> {}) @@ (aCompile :> {}) @@ (dTest :> {dCompile}) @@ (aTest :> {aCompile})
BothTargets == {{dCompile, aCompile, dTest, aTest}}

\* One target of two steps.
ShortChain == (dCompile :> {}) @@ (dTest :> {dCompile})
ShortRequest == {{dCompile, dTest}}
=============================================================================
