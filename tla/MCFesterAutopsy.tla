---------------------------- MODULE MCFesterAutopsy ----------------------------
(* TLC instance of the autopsy: the instances of the engine and the events. *)
EXTENDS FesterAutopsy, TLC

CONSTANTS dCompile, dTest, dPackage, dStamp, b1, b2, n1

\* compile <- test <- package <- stamp and compile <- package, as stepsFor has them.
OneTarget == (dCompile :> {}) @@ (dTest :> {dCompile})
             @@ (dPackage :> {dCompile, dTest}) @@ (dStamp :> {dPackage})
WholeChain == {{dCompile, dTest, dPackage, dStamp}}
================================================================================
