---------------------------- MODULE MCImageBuilder ----------------------------
(* TLC instances of the image builder: two builds of one profile, whose      *)
(* processes, deletion and restart interleave.                               *)
EXTENDS ImageBuilder
================================================================================
