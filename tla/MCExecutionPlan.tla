--------------------------- MODULE MCExecutionPlan ---------------------------
(***************************************************************************)
(* Instances of ExecutionPlan for TLC: every dependency relation over the  *)
(* commands, cyclic ones included, up to renaming.  The definitions of     *)
(* ExecutionPlan tell commands apart only through deps, so one relation of *)
(* every class of isomorphic ones stands for the class, and liveness is    *)
(* checked without symmetry.                                               *)
(***************************************************************************)
EXTENDS ExecutionPlanRefinement, TLC

(* prepare() refuses a command that depends on itself.                     *)
AllGraphs == {g \in [Command -> SUBSET Command] : \A c \in Command : c \notin g[c]}

Renamed(g, p) == [c \in Command |-> {p[d] : d \in g[CHOOSE x \in Command : p[x] = c]}]

GraphClasses == {CHOOSE h \in {Renamed(g, p) : p \in Permutations(Command)} : TRUE : g \in AllGraphs}
=============================================================================
