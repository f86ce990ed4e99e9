----------------------------- MODULE MCBridgeCache -----------------------------
(* TLC instances of the bridge read cache. *)
EXTENDS BridgeCache, TLC

\* One prefix per key, as the bridges use them.
KeyPrefixes == {{k} : k \in Keys}
CallerSymmetry == Permutations(Callers)
Symmetry == Permutations(Callers) \cup Permutations(Keys)
================================================================================
