---------------------------- MODULE MCSessionSecret ----------------------------
(* TLC instances of the session key. *)
EXTENDS SessionSecret, TLC

CONSTANTS w1, w2, c1, c2, c3

TwoWorkers == c1 :> w1 @@ c2 :> w1 @@ c3 :> w2
Symmetry == Permutations(Secrets)
================================================================================
