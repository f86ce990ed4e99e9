---------------------------- MODULE MCFesterService ----------------------------
(* TLC instances of the Fester process.  Builds carry no symmetry: the       *)
(* seeded builds are created in one fixed order.                             *)
EXTENDS FesterService
================================================================================
