----------------------- MODULE ExecutionPlanRefinement -----------------------
(***************************************************************************)
(* ExecutionPlan implements BuildDag.  A command is being performed from   *)
(* the moment its job passed the check of the flags; its result is the one *)
(* of c->execute(); the verdict is "ok" when execute() does not throw.     *)
(***************************************************************************)
EXTENDS ExecutionPlan

statusBar == [c \in Command |->
  CASE exit[c] = "ok" -> "succeeded"
    [] exit[c] = "error" -> "failed"
    [] OTHER -> IF job[c] \in {"checked", "running"} THEN "running" ELSE "waiting"]

resultBar == CASE outcome = "none" -> "none"
               [] outcome = "ok" -> "ok"
               [] outcome \notin {"none", "ok"} -> "error"

(* A stop() before execute() resets the flag is forgotten, and one on an   *)
(* invalid plan says nothing.                                              *)
disturbedBar == late \/ (interrupted /\ main # "start" /\ outcome # "invalid")

Dag == INSTANCE BuildDag WITH
         keep_going <- ~throw_on_errors,
         status <- statusBar, disturbed <- disturbedBar, result <- resultBar

(* execute() keeps the promises of BuildDag at every step: dependency      *)
(* order, one execution per command, a verdict that agrees with the        *)
(* results of the commands.                                                *)
ImplementsDag == Dag!DagSpec

(* ... and keeps them to the end: every started command ends and the build *)
(* gets its verdict.                                                       *)
ImplementsFairDag == Dag!DagFairSpec
=============================================================================
