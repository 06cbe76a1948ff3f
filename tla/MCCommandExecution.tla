------------------------- MODULE MCCommandExecution -------------------------
(***************************************************************************)
(* An instance of CommandExecution for TLC: three commands that share a    *)
(* pool, the first of them the head of a pipe of two, and one beside them. *)
(***************************************************************************)
EXTENDS CommandExecution

CONSTANTS a, b, c, d, e

Pipe == [x \in Command |-> IF x = b THEN a ELSE None]
=============================================================================
