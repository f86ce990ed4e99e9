---------------------------- MODULE MCFesterStream -----------------------------
(* TLC instances of FesterStream. *)
EXTENDS FesterStream, TLC

CONSTANTS a, b

\* One build with an action that starts and ends, one that ended at once.  Of the three
\* events kept a page holds two: a whole timeline at first, then one that ends before
\* the newest task update, then one of what the journal did not trim.
TwoBuilds == a :> <<"pipeline", "task", "task", "pipeline">> @@ b :> <<"pipeline">>
=============================================================================
