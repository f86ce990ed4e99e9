---------------------------- MODULE MCFesterJournal ----------------------------
(* TLC instances of the Fester journal. *)
EXTENDS FesterJournal, TLC

Symmetry == Permutations(Journaled)
================================================================================
