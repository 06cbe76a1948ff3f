--------------------------- MODULE MCPlanCreation ---------------------------
(***************************************************************************)
(* Instances of PlanCreation for TLC.  One family of builds has every      *)
(* dependency relation, the other every way to read and write two files,   *)
(* one of which is a simultaneous output.                                  *)
(***************************************************************************)
EXTENDS PlanCreation, TLC

CONSTANTS c1, c2, c3, x, f, g

AllCommands == {c1, c2, c3, x}
PlanCommands == {c1, c2, c3}
Files == {f, g}
Hashes == {"a", "b", "c", "x"}

Distinct == (c1 :> "a") @@ (c2 :> "b") @@ (c3 :> "c") @@ (x :> "x")
Nothing == [c \in AllCommands |-> {}]
ByPlan(S) == {[c \in AllCommands |-> IF c = x THEN {} ELSE h[c]] : h \in [PlanCommands -> S]}
NotStrict == [c \in AllCommands |-> 0]

GraphBuilds ==
  {[hash |-> h, explicit |-> e, ins |-> Nothing, outs |-> Nothing,
    simultaneous |-> Nothing, strict |-> s] :
     h \in {Distinct, [Distinct EXCEPT ![c2] = "a"]},
     e \in {d \in ByPlan(SUBSET AllCommands) : \A c \in PlanCommands : c \notin d[c]},
     s \in {NotStrict, [NotStrict EXCEPT ![c1] = 2, ![c2] = 1]}}

FileBuilds ==
  {[hash |-> Distinct, explicit |-> e, ins |-> i, outs |-> o, simultaneous |-> m,
    strict |-> NotStrict] :
     e \in {Nothing, [Nothing EXCEPT ![c1] = {c2}]},
     i \in ByPlan(SUBSET Files), o \in ByPlan({{}, {f}}), m \in ByPlan({{}, {g}})}

Builds == GraphBuilds \cup FileBuilds
=============================================================================
