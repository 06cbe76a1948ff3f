------------------------------ MODULE BuildDag ------------------------------
(***************************************************************************)
(* What executing a plan promises, whatever the executor does: commands    *)
(* are performed at most once and in dependency order, and a build that    *)
(* nobody disturbed is called good only if all of them succeeded, or one   *)
(* failed and failures are to be passed over.                              *)
(***************************************************************************)
CONSTANT
  Command  \* the commands of the plan

VARIABLES
  deps,       \* the dependencies of every command
  keep_going, \* a failed command releases its dependents like a good one
  status,     \* how far every command is
  disturbed,  \* somebody asked to stop, or the time limit passed
  result      \* the verdict on the build

dagVars == <<deps, keep_going, status, disturbed, result>>

Settled(c) == status[c] = "succeeded" \/ (status[c] = "failed" /\ keep_going)

DagTypeOK ==
  /\ deps \in [Command -> SUBSET Command]
  /\ keep_going \in BOOLEAN
  /\ status \in [Command -> {"waiting", "running", "succeeded", "failed"}]
  /\ disturbed \in BOOLEAN
  /\ result \in {"none", "ok", "error"}

DagInit ==
  /\ deps \in [Command -> SUBSET Command]
  /\ keep_going \in BOOLEAN
  /\ status = [c \in Command |-> "waiting"]
  /\ disturbed = FALSE
  /\ result = "none"

Start(c) ==
  /\ status[c] = "waiting"
  /\ \A d \in deps[c] : Settled(d)
  /\ status' = [status EXCEPT ![c] = "running"]
  /\ UNCHANGED <<deps, keep_going, disturbed, result>>

End(c) ==
  /\ status[c] = "running"
  /\ \E s \in {"succeeded", "failed"} : status' = [status EXCEPT ![c] = s]
  /\ UNCHANGED <<deps, keep_going, disturbed, result>>

Disturb ==
  /\ ~disturbed /\ disturbed' = TRUE
  /\ UNCHANGED <<deps, keep_going, status, result>>

Conclude ==
  /\ result = "none"
  /\ result' \in {"ok", "error"}
  /\ ~disturbed /\ result' = "ok" =>
       \/ \A c \in Command : status[c] = "succeeded"
       \/ keep_going /\ \E c \in Command : status[c] = "failed"
  /\ UNCHANGED <<deps, keep_going, status, disturbed>>

DagNext == Disturb \/ Conclude \/ \E c \in Command : Start(c) \/ End(c)

DagSpec == DagInit /\ [][DagNext]_dagVars

DagFairSpec == DagSpec /\ WF_dagVars(Conclude)
                       /\ \A c \in Command : WF_dagVars(End(c))
=============================================================================
