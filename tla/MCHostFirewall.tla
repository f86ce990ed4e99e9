---------------------------- MODULE MCHostFirewall ----------------------------
(* TLC instances of the host firewall. *)
EXTENDS HostFirewall, TLC

CONSTANTS i1, n1, n2
OneAddress == [b \in BanIds |-> i1]
Symmetry == Permutations(Reqs) \cup Permutations(BanIds) \cup Permutations({n1, n2})
================================================================================
