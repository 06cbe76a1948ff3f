---------------------------- MODULE MCFileStorage ----------------------------
(* Three jobs that look at one file, which one of them may write. *)
EXTENDS FileStorage

CONSTANTS j1, j2, w

MCJob == {j1, j2, w}
==============================================================================
