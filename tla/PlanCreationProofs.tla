------------------------- MODULE PlanCreationProofs -------------------------
(***************************************************************************)
(* Proofs about PlanCreation for any number of commands and files: the     *)
(* verdict of create() is the one the build deserves, init() builds a      *)
(* topological order, a valid plan has no cycle, and execute() can work    *)
(* with it.                                                                *)
(***************************************************************************)
EXTENDS PlanCreation, FiniteSetTheorems, SequenceTheorems, TLAPS

(* Types of the variables the argument is about. *)
Shape ==
  /\ in \in InputRecord
  /\ todo \in SUBSET Plan
  /\ generators \in [File -> SUBSET Plan]
  /\ deps \in [Command -> SUBSET Command]
  /\ cmds \in SUBSET Plan
  /\ commands \in Seq(Plan)

(* prepare() leaves no dependency outside the plan. *)
DepsInPlan ==
  /\ phase = "check" => \A c \in Plan \ todo : deps[c] \subseteq Plan
  /\ phase \notin {"check", "end"} => \A c \in Plan : deps[c] \subseteq Plan

(* commands has what was taken from cmds. *)
Taken ==
  /\ phase \in {"check", "generators", "edges"} => commands = <<>> /\ cmds = Plan
  /\ phase \in {"order", "link", "sort"} \/ verdict = "valid" =>
       Plan \ cmds \subseteq Elements(commands)
  /\ phase \in {"link", "sort"} \/ verdict = "valid" => cmds = {}
  /\ phase # "end" => verdict = "none"

(* A set of commands each of which waits for another one of the set stays  *)
(* in cmds for ever.                                                       *)
Waits(S) == \A c \in S : deps[c] \cap S # {}
StuckStay ==
  phase \in {"order", "link", "sort"} \/ verdict = "valid" =>
    \A S \in SUBSET Plan : Waits(S) => S \subseteq cmds

IInv == Shape /\ DepsInPlan /\ Taken /\ OrderTopological /\ StuckStay

LEMMA AppendElements ==
  ASSUME NEW S, NEW s \in Seq(S), NEW c \in S
  PROVE  /\ Append(s, c) \in Seq(S)
         /\ Len(Append(s, c)) = Len(s) + 1
         /\ Append(s, c)[Len(s) + 1] = c
         /\ \A i \in 1..Len(s) : Append(s, c)[i] = s[i]
         /\ Elements(Append(s, c)) = Elements(s) \cup {c}
<1>1. /\ Append(s, c) \in Seq(S)
      /\ Len(Append(s, c)) = Len(s) + 1
      /\ Append(s, c)[Len(s) + 1] = c
      /\ \A i \in 1..Len(s) : Append(s, c)[i] = s[i]
  BY AppendProperties
<1>2. Len(s) \in Nat
  BY LenProperties
<1>3. 1..(Len(s) + 1) = 1..Len(s) \cup {Len(s) + 1}
  BY <1>2
<1>4. Elements(Append(s, c)) = Elements(s) \cup {c}
  <2>1. \A e : e \in Elements(Append(s, c)) <=>
                 \E i \in 1..(Len(s) + 1) : e = Append(s, c)[i]
    BY <1>1 DEF Elements
  <2>2. \A e : e \in Elements(s) <=> \E i \in 1..Len(s) : e = s[i]
    BY DEF Elements
  <2>3. \A e : (\E i \in 1..(Len(s) + 1) : e = Append(s, c)[i]) <=>
                 ((\E i \in 1..Len(s) : e = s[i]) \/ e = c)
    BY <1>1, <1>3
  <2> QED
    BY <2>1, <2>2, <2>3
<1> QED
  BY <1>1, <1>4

LEMMA InitInv == Init => IInv
<1> SUFFICES ASSUME Init PROVE IInv
  OBVIOUS
<1> USE PlanAssumption, InputsAssumption
<1>1. in \in InputRecord /\ deps \in [Command -> SUBSET Command]
  BY DEF Init, InputRecord
<1>2. commands \in Seq(Plan)
  BY DEF Init
<1> QED
  BY <1>1, <1>2 DEF Init, IInv, Shape, DepsInPlan, Taken, OrderTopological, StuckStay

(* Ending with an error leaves nothing to argue about. *)
LEMMA ThrowStep ==
  ASSUME IInv, NEW v \in Verdict \ {"none", "valid"}, Throw(v)
  PROVE  IInv'
<1> QED
  BY DEF IInv, Shape, DepsInPlan, Taken, OrderTopological, StuckStay, Throw, initVars,
         InputRecord

LEMMA PrepareStep ==
  ASSUME IInv, NEW c \in Plan,
         CheckCommand(c) \/ AddGenerators(c) \/ AddEdges(c) \/ PassBy(c)
  PROVE  IInv'
<1> USE PlanAssumption DEF IInv, initVars
<1>1. UNCHANGED <<in, phase, initVars, verdict>>
  BY DEF CheckCommand, AddGenerators, AddEdges, PassBy
<1>2. Producers(c) \subseteq Plan
  <2>1. in.ins[c] \subseteq File
    BY DEF Shape, InputRecord
  <2>2. \A i \in in.ins[c] : generators[i] \subseteq Plan
    BY <2>1 DEF Shape
  <2>3. UNION {generators[i] : i \in in.ins[c]} \subseteq Plan
    BY <2>2
  <2> QED
    BY <2>3 DEF Producers
<1>3. Shape'
  BY <1>1, <1>2 DEF Shape, CheckCommand, AddGenerators, AddEdges, PassBy
<1>4. DepsInPlan'
  BY <1>1, <1>2 DEF Shape, DepsInPlan, CheckCommand, IsForeign, AddGenerators,
                    AddEdges, PassBy
<1>5. Taken'
  BY <1>1 DEF Taken
<1>6. deps' = deps \/ phase = "edges"
  BY DEF CheckCommand, AddGenerators, AddEdges, PassBy
<1>7. OrderTopological'
  <2>1. CASE phase = "edges"
    BY <1>1, <2>1 DEF OrderTopological
  <2>2. CASE deps' = deps
    <3>1. phase' = phase /\ commands' = commands
      BY <1>1
    <3> QED
      BY <2>2, <3>1 DEF OrderTopological
  <2> QED
    BY <1>6, <2>1, <2>2
<1>8. StuckStay'
  BY <1>1, <1>6 DEF StuckStay, Waits, Taken
<1> QED
  BY <1>3, <1>4, <1>5, <1>7, <1>8

(* Taking a command none of whose dependencies is left keeps the order     *)
(* topological: the dependencies are in the plan and were taken before.    *)
LEMMA TakeStep ==
  ASSUME IInv, NEW c \in Plan, Take(c)
  PROVE  IInv'
<1> USE PlanAssumption DEF IInv, Take
<1>1. Shape'
  BY AppendElements DEF Shape
<1>2. DepsInPlan'
  BY DEF DepsInPlan
<1>3. deps[c] \subseteq Elements(commands)
  <2>1. deps[c] \subseteq Plan
    BY DEF DepsInPlan
  <2> QED
    BY <2>1 DEF IsBlocked, Taken
<1>4. /\ Len(commands) \in Nat /\ Len(commands') = Len(commands) + 1
      /\ commands'[Len(commands) + 1] = c
      /\ \A i \in 1..Len(commands) : commands'[i] = commands[i]
      /\ Elements(commands') = Elements(commands) \cup {c}
  BY AppendElements, LenProperties DEF Shape
<1>5. Taken'
  BY <1>4 DEF Taken, Shape
<1>6. OrderTopological'
  <2> SUFFICES ASSUME NEW i \in 1..(Len(commands) + 1)
               PROVE  deps[commands'[i]] \subseteq {commands'[j] : j \in 1..(i - 1)}
    BY <1>4 DEF OrderTopological
  <2>1. Len(commands) \in Nat
    BY <1>4
  <2> HIDE DEF IInv, Take
  <2>2. i = Len(commands) + 1 \/ i \in 1..Len(commands)
    BY <2>1
  <2> USE DEF IInv, Take
  <2>3. CASE i = Len(commands) + 1
    <3>1. Elements(commands) = {commands'[j] : j \in 1..(i - 1)}
      BY <1>4, <2>3 DEF Elements
    <3> QED
      BY <1>3, <1>4, <2>3, <3>1
  <2>4. CASE i \in 1..Len(commands)
    <3>1. deps[commands[i]] \subseteq {commands[j] : j \in 1..(i - 1)}
      BY <2>4 DEF OrderTopological
    <3>2. \A j \in 1..(i - 1) : commands'[j] = commands[j]
      BY <1>4, <2>4
    <3> QED
      BY <1>4, <2>4, <3>1, <3>2
  <2> QED
    BY <2>2, <2>3, <2>4
<1>7. StuckStay'
  <2> SUFFICES ASSUME NEW S \in SUBSET Plan, Waits(S) PROVE S \subseteq cmds \ {c}
    BY DEF StuckStay, Waits
  <2>1. S \subseteq cmds
    BY DEF StuckStay
  <2>2. c \notin S
    BY <2>1 DEF Waits, IsBlocked
  <2> QED
    BY <2>1, <2>2
<1> QED
  BY <1>1, <1>2, <1>5, <1>6, <1>7

LEMMA LoopStep ==
  ASSUME IInv, NextLoop \/ NextPass \/ GiveUp \/ AllOrdered \/ Link
  PROVE  IInv'
<1> USE PlanAssumption DEF IInv, initVars
<1>1. CASE NextLoop
  <2>0. \/ phase = "check" /\ phase' = "generators"
        \/ phase = "generators" /\ phase' = "edges"
        \/ phase = "edges" /\ phase' = "order"
    BY <1>1 DEF NextLoop, After
  <2>1. UNCHANGED <<in, generators, deps, initVars, verdict>> /\ todo = {} /\ todo' = Plan
    BY <1>1 DEF NextLoop
  <2>2. Shape' /\ DepsInPlan'
    BY <2>0, <2>1 DEF Shape, DepsInPlan
  <2>3. Taken'
    BY <2>0, <2>1 DEF Taken
  <2>4. OrderTopological'
    <3>1. commands' = <<>> /\ Len(<<>>) = 0
      BY <2>0, <2>1 DEF Taken
    <3> QED
      BY <3>1 DEF OrderTopological
  <2>5. StuckStay'
    BY <2>0, <2>1 DEF StuckStay, Waits, Taken
  <2> QED
    BY <2>2, <2>3, <2>4, <2>5
<1>2. CASE NextPass
  BY <1>2 DEF NextPass, Shape, DepsInPlan, Taken, OrderTopological, StuckStay, Waits
<1>3. CASE GiveUp
  BY <1>3 DEF GiveUp, Shape, DepsInPlan, Taken, OrderTopological, StuckStay
<1>4. CASE AllOrdered
  BY <1>4 DEF AllOrdered, Shape, DepsInPlan, Taken, OrderTopological, StuckStay, Waits
<1>5. CASE Link
  BY <1>5 DEF Link, Shape, DepsInPlan, Taken, OrderTopological, StuckStay, Waits
<1> QED
  BY <1>1, <1>2, <1>3, <1>4, <1>5

LEMMA SortStep ==
  ASSUME IInv, Sort
  PROVE  IInv'
<1> USE PlanAssumption DEF IInv, Sort
<1>1. Len(commands) \in Nat /\ Elements(commands) \subseteq Plan
  BY LenProperties DEF Shape, Elements
<1>2. commands' \in Seq(Plan)
  BY <1>1
<1> QED
  BY <1>2 DEF Shape, DepsInPlan, Taken, OrderTopological, StuckStay, Waits

LEMMA NextStep == IInv /\ [Next]_vars => IInv'
<1> SUFFICES ASSUME IInv, [Next]_vars PROVE IInv'
  OBVIOUS
<1>1. ASSUME NEW c \in Plan,
             \/ RejectDuplicate(c) \/ RejectForeign(c)
             \/ RejectProducer(c) \/ RejectSelf(c)
      PROVE  IInv'
  BY <1>1, ThrowStep DEF RejectDuplicate, RejectForeign, RejectProducer, RejectSelf,
                         Verdict
<1>2. CASE UNCHANGED vars
  <2>1. UNCHANGED <<in, phase, todo, generators, deps, cmds, commands, verdict>>
    BY <1>2 DEF vars
  <2>2. Shape' /\ DepsInPlan' /\ Taken'
    BY <2>1 DEF IInv, Shape, DepsInPlan, Taken, Elements
  <2>3. OrderTopological'
    <3>1. phase' = phase /\ deps' = deps /\ commands' = commands
      BY <2>1
    <3> QED
      BY <3>1 DEF IInv, OrderTopological
  <2>4. StuckStay'
    BY <2>1 DEF IInv, StuckStay, Waits
  <2> QED
    BY <2>2, <2>3, <2>4 DEF IInv
<1> QED
  BY <1>1, <1>2, PrepareStep, TakeStep, LoopStep, SortStep DEF Next, Ended
-----------------------------------------------------------------------------
THEOREM InductiveInvariant == Spec => []IInv
  BY InitInv, NextStep, PTL DEF Spec

(* init() never puts a command before one it depends on, whatever order    *)
(* the hash tables hand commands out in.                                   *)
THEOREM TopologicalOrder == Spec => []OrderTopological
<1>1. IInv => OrderTopological
  BY DEF IInv
<1> QED
  BY <1>1, InductiveInvariant, PTL

(* A plan that init() calls valid has no cycle, so execute() finds in      *)
(* every part of it a command that waits for nothing in that part.         *)
THEOREM ValidPlanIsAcyclic == Spec => []AcyclicHandedOver
<1>1. IInv => AcyclicHandedOver
  BY DEF IInv, StuckStay, Taken, Waits, AcyclicHandedOver
<1> QED
  BY <1>1, InductiveInvariant, PTL
-----------------------------------------------------------------------------
(* What each loop has found out when it is left, of the build alone.       *)

Ordering == {"order", "link", "sort"}
Done == Plan \ todo
Writers(o, S) == {p \in S : o \in in.outs[p]}

CheckFound ==
  /\ phase = "check" =>
       /\ deps = in.explicit
       /\ hashes = {in.hash[c] : c \in Done}
       /\ \A a, b \in Done : a # b => in.hash[a] # in.hash[b]
  /\ phase \notin {"check", "end"} => ~HasDuplicate /\ ~HasForeign

GeneratorsFound ==
  /\ phase = "check" => \A o \in File : generators[o] = {}
  /\ phase = "generators" =>
       /\ deps = in.explicit
       /\ \A o \in File : generators[o] = Writers(o, Done)
       /\ \A a, b \in Done : a # b => in.outs[a] \cap in.outs[b] = {}
  /\ phase = "edges" => \A o \in File : generators[o] = Writers(o, Plan)
  /\ phase \in {"edges"} \cup Ordering => ~HasTwoProducers

EdgesFound ==
  /\ phase = "edges" =>
       /\ \A c \in todo : deps[c] = in.explicit[c]
       /\ \A c \in Done : deps[c] = FullDeps[c] /\ ~Reads(c, c)
  /\ phase \in Ordering \/ verdict = "valid" =>
       \A c \in Plan : deps[c] = FullDeps[c] /\ ~Reads(c, c)

(* A pass that has ordered nothing yet leaves behind it only commands that *)
(* wait for one that is left; and no command is ordered twice.             *)
OrderFound ==
  /\ phase = "order" =>
       todo \subseteq cmds /\ (added \/ \A c \in cmds \ todo : IsBlocked(c))
  /\ phase # "end" \/ verdict = "valid" =>
       Len(commands) + Cardinality(cmds) = Cardinality(Plan)

LinkFound ==
  /\ phase \notin {"sort", "end"} => dependents = [c \in Command |-> {}]
  /\ phase = "sort" \/ verdict = "valid" =>
       /\ \A c \in Plan : left[c] = Cardinality(deps[c]) /\ deps[c] \subseteq Plan
       /\ \A c \in Command : dependents[c] = {d \in Plan : c \in deps[d]}
  /\ verdict = "valid" => RootsFirst

Found == CheckFound /\ GeneratorsFound /\ EdgesFound /\ OrderFound /\ LinkFound
VInv == IInv /\ TypeOK /\ Found /\ VerdictRight /\ UnprocessedExact

LEMMA SameBuild ==
  ASSUME in' = in
  PROVE  /\ HasDuplicate' = HasDuplicate /\ HasForeign' = HasForeign
         /\ HasTwoProducers' = HasTwoProducers /\ HasSelf' = HasSelf
         /\ FullDeps' = FullDeps /\ Stuck' = Stuck
         /\ \A c, p : Reads(c, p)' = Reads(c, p)
<1>1. /\ HasDuplicate' = HasDuplicate /\ HasForeign' = HasForeign
      /\ HasTwoProducers' = HasTwoProducers
  BY DEF HasDuplicate, HasForeign, HasTwoProducers
<1>2. \A c, p : Reads(c, p)' = Reads(c, p)
  BY DEF Reads
<1>3. HasSelf' = HasSelf
  BY <1>2 DEF HasSelf
<1>4. FullDeps' = FullDeps
  BY <1>2 DEF FullDeps
<1>5. Stuck' = Stuck
  BY <1>4 DEF Stuck
<1> QED
  BY <1>1, <1>2, <1>3, <1>4, <1>5

LEMMA Undecided ==
  ASSUME verdict' = "none"
  PROVE  VerdictRight' /\ UnprocessedExact'
<1> QED
  BY DEF VerdictRight, UnprocessedExact

LEMMA FiniteParts ==
  ASSUME NEW S \in SUBSET Command
  PROVE  IsFiniteSet(S) /\ Cardinality(S) \in Nat
<1> QED
  BY PlanAssumption, FS_Subset, FS_CardinalityType

LEMMA InitFound == Init => VInv
<1> SUFFICES ASSUME Init PROVE VInv
  OBVIOUS
<1> USE PlanAssumption, InputsAssumption
<1>0. IInv
  BY InitInv
<1>1. in \in InputRecord /\ deps \in [Command -> SUBSET Command] /\ commands \in Seq(Plan)
  BY <1>0 DEF IInv, Shape
<1>2. TypeOK
  BY <1>1 DEF Init, TypeOK, Verdict
<1>3. Len(commands) = 0 /\ cmds = Plan /\ Cardinality(Plan) \in Nat
  BY FiniteParts DEF Init
<1>4. Found
  BY <1>3 DEF Init, Found, CheckFound, GeneratorsFound, EdgesFound, OrderFound, LinkFound,
              Done, Ordering
<1> QED
  BY <1>0, <1>2, <1>4 DEF VInv, VerdictRight, UnprocessedExact, Init

(* What makes prepare() throw is there in the build.                       *)
LEMMA ThrowFound ==
  ASSUME VInv, IInv', NEW c \in Plan,
         \/ RejectDuplicate(c) \/ RejectForeign(c)
         \/ RejectProducer(c) \/ RejectSelf(c)
  PROVE  VInv'
<1> USE DEF VInv
<1>1. PICK v \in Verdict \ {"none", "valid", "cyclic"} : Throw(v)
  BY DEF RejectDuplicate, RejectForeign, RejectProducer, RejectSelf, Verdict
<1>2. TypeOK'
  BY <1>1 DEF TypeOK, Throw, initVars, InputRecord
<1>3. Found'
  BY <1>1 DEF Found, CheckFound, GeneratorsFound, EdgesFound, OrderFound, LinkFound,
              Throw, Ordering
<1>4. UnprocessedExact'
  BY <1>1 DEF Throw, UnprocessedExact
<1>5. in' = in
  BY <1>1 DEF Throw
<1>6. VerdictRight'
  <2>1. CASE RejectDuplicate(c)
    <3>1. PICK d \in Done : in.hash[c] = in.hash[d]
      BY <2>1 DEF RejectDuplicate, Found, CheckFound
    <3>2. HasDuplicate
      BY <2>1, <3>1 DEF RejectDuplicate, HasDuplicate, Done
    <3> QED
      BY <2>1, <3>2, <1>5, SameBuild DEF RejectDuplicate, Throw, VerdictRight
  <2>2. CASE RejectForeign(c)
    <3>1. HasForeign
      BY <2>2 DEF RejectForeign, IsForeign, HasForeign, Found, CheckFound
    <3> QED
      BY <2>2, <3>1, <1>5, SameBuild DEF RejectForeign, Throw, VerdictRight
  <2>3. CASE RejectProducer(c)
    <3>1. PICK o \in in.outs[c] : generators[o] # {}
      BY <2>3 DEF RejectProducer, IsTaken
    <3>2. o \in File
      BY PlanAssumption DEF IInv, Shape, InputRecord
    <3>3. generators[o] = Writers(o, Done)
      BY <2>3, <3>2 DEF RejectProducer, Found, GeneratorsFound
    <3>4. PICK d \in Done : o \in in.outs[d]
      BY <3>1, <3>3 DEF Writers
    <3>5. HasTwoProducers
      BY <2>3, <3>1, <3>4 DEF RejectProducer, HasTwoProducers, Done
    <3>6. ~HasDuplicate /\ ~HasForeign
      BY <2>3 DEF RejectProducer, Found, CheckFound
    <3> QED
      BY <2>3, <3>5, <3>6, <1>5, SameBuild DEF RejectProducer, Throw, VerdictRight
  <2>4. CASE RejectSelf(c)
    <3>1. Reads(c, c)
      <4>1. CASE c \in UNION {generators[i] : i \in in.ins[c]}
        <5>1. PICK i \in in.ins[c] : c \in generators[i]
          BY <4>1
        <5>2. i \in File
          BY PlanAssumption DEF IInv, Shape, InputRecord
        <5>3. generators[i] = Writers(i, Plan)
          BY <2>4, <5>2 DEF RejectSelf, Found, GeneratorsFound
        <5> QED
          BY <5>1, <5>3 DEF Writers, Reads
      <4> QED
        BY <2>4, <4>1 DEF RejectSelf, Producers, Reads
    <3>2. HasSelf
      BY <3>1 DEF HasSelf
    <3>3. ~HasDuplicate /\ ~HasForeign /\ ~HasTwoProducers
      BY <2>4 DEF RejectSelf, Found, CheckFound, GeneratorsFound, Ordering
    <3> QED
      BY <2>4, <3>2, <3>3, <1>5, SameBuild DEF RejectSelf, Throw, VerdictRight
  <2> QED
    BY <2>1, <2>2, <2>3, <2>4
<1> QED
  BY <1>2, <1>3, <1>4, <1>6

(* The loops of prepare() add to what they found. *)
LEMMA CheckStepFound ==
  ASSUME VInv, IInv', NEW c \in Plan, CheckCommand(c)
  PROVE  VInv'
<1> USE DEF VInv
<1>1. /\ phase = "check" /\ c \in todo /\ in.hash[c] \notin hashes
      /\ hashes' = hashes \cup {in.hash[c]} /\ todo' = todo \ {c}
      /\ UNCHANGED <<in, phase, generators, deps, cmds, added, commands, unprocessed,
                     left, dependents, verdict>>
  BY DEF CheckCommand, initVars
<1>2. TypeOK'
  BY <1>1, PlanAssumption DEF TypeOK, InputRecord
<1>3. Done' = Done \cup {c}
  BY <1>1 DEF Done
<1>4. CheckFound'
  <2>1. \A d \in Done : in.hash[d] # in.hash[c]
    BY <1>1 DEF Found, CheckFound
  <2> QED
    BY <1>1, <1>3, <2>1 DEF Found, CheckFound
<1>5. GeneratorsFound' /\ EdgesFound'
  BY <1>1 DEF Found, GeneratorsFound, EdgesFound, Ordering, IInv, Taken
<1>6. OrderFound' /\ LinkFound'
  BY <1>1 DEF Found, OrderFound, LinkFound, IInv, Taken
<1>7. verdict' = "none"
  BY <1>1 DEF IInv, Taken
<1> QED
  BY <1>2, <1>4, <1>5, <1>6, <1>7, Undecided DEF Found

LEMMA GeneratorsStepFound ==
  ASSUME VInv, IInv', NEW c \in Plan, AddGenerators(c)
  PROVE  VInv'
<1> USE DEF VInv
<1>1. /\ phase = "generators" /\ c \in todo /\ ~IsTaken(c) /\ todo' = todo \ {c}
      /\ generators' = [o \in File |-> IF o \in in.outs[c] THEN {c} ELSE generators[o]]
      /\ UNCHANGED <<in, phase, hashes, deps, cmds, added, commands, unprocessed,
                     left, dependents, verdict>>
  BY DEF AddGenerators, initVars
<1>2. TypeOK'
  BY <1>1, PlanAssumption DEF TypeOK, InputRecord
<1>3. Done' = Done \cup {c} /\ c \notin Done
  BY <1>1 DEF Done
<1>4. CheckFound'
  BY <1>1, SameBuild DEF Found, CheckFound
<1>5. GeneratorsFound'
  <2>1. \A o \in in.outs[c] : o \in File /\ Writers(o, Done) = {}
    BY <1>1, PlanAssumption DEF Found, GeneratorsFound, IsTaken, IInv, Shape, InputRecord
  <2>2. \A o \in File : generators'[o] = Writers(o, Done)' 
    <3> SUFFICES ASSUME NEW o \in File PROVE generators'[o] = Writers(o, Done)'
      OBVIOUS
    <3>1. Writers(o, Done)' = {p \in Done \cup {c} : o \in in.outs[p]}
      BY <1>1, <1>3 DEF Writers
    <3>2. generators[o] = {p \in Done : o \in in.outs[p]}
      BY <1>1 DEF Found, GeneratorsFound, Writers
    <3> QED
      BY <1>1, <2>1, <3>1, <3>2 DEF Writers
  <2>3. \A d \in Done : in.outs[d] \cap in.outs[c] = {}
    BY <2>1 DEF Writers
  <2>4. \A a, b \in Done : a # b => in.outs[a] \cap in.outs[b] = {}
    BY <1>1 DEF Found, GeneratorsFound
  <2>5. \A a, b \in Done' : a # b => in'.outs[a] \cap in'.outs[b] = {}
    BY <1>1, <1>3, <2>3, <2>4
  <2> QED
    BY <1>1, <2>2, <2>5 DEF Found, GeneratorsFound, Ordering
<1>6. EdgesFound' /\ OrderFound' /\ LinkFound'
  BY <1>1 DEF Found, EdgesFound, OrderFound, LinkFound, Ordering, IInv, Taken
<1>7. verdict' = "none"
  BY <1>1 DEF IInv, Taken
<1> QED
  BY <1>2, <1>4, <1>5, <1>6, <1>7, Undecided DEF Found

(* A command gets as dependencies those that write what it reads. *)
LEMMA ProducersAreWriters ==
  ASSUME VInv, phase = "edges", NEW c \in Plan
  PROVE  Producers(c) = {p \in Plan : Reads(c, p)}
<1> USE DEF VInv
<1>1. in.ins[c] \subseteq File
  BY PlanAssumption DEF IInv, Shape, InputRecord
<1>2. \A o \in in.ins[c] : generators[o] = {p \in Plan : o \in in.outs[p]}
  BY <1>1 DEF Found, GeneratorsFound, Writers
<1>3. UNION {generators[i] : i \in in.ins[c]}
        = {p \in Plan : in.ins[c] \cap in.outs[p] # {}}
  BY <1>2
<1>4. \A p \in Plan : Reads(c, p) <=> \/ in.ins[c] \cap in.outs[p] # {}
                                     \/ in.ins[c] \cap in.simultaneous[p] # {}
  BY DEF Reads
<1> QED
  BY <1>3, <1>4 DEF Producers

LEMMA EdgesStepFound ==
  ASSUME VInv, IInv', NEW c \in Plan, AddEdges(c)
  PROVE  VInv'
<1> USE DEF VInv
<1>1. /\ phase = "edges" /\ c \in todo /\ c \notin Producers(c) /\ todo' = todo \ {c}
      /\ deps' = [deps EXCEPT ![c] = @ \cup Producers(c)]
      /\ UNCHANGED <<in, phase, hashes, generators, cmds, added, commands, unprocessed,
                     left, dependents, verdict>>
  BY DEF AddEdges, initVars
<1>2. TypeOK'
  <2>1. deps' \in [Command -> SUBSET Command] /\ \A d \in Plan : deps'[d] \subseteq Plan
    BY <1>1 DEF IInv, Shape, DepsInPlan
  <2> QED
    BY <1>1, <2>1, PlanAssumption DEF TypeOK, InputRecord
<1>3. Done' = Done \cup {c} /\ c \notin Done
  BY <1>1 DEF Done
<1>4. CheckFound' /\ GeneratorsFound'
  <2>1. \A o \in File : Writers(o, Plan)' = Writers(o, Plan)
    BY <1>1 DEF Writers
  <2> QED
    BY <1>1, <2>1, SameBuild DEF Found, CheckFound, GeneratorsFound, Ordering
<1>5. EdgesFound'
  <2>1. Producers(c) = {p \in Plan : Reads(c, p)}
    BY <1>1, ProducersAreWriters
  <2>2. deps'[c] = FullDeps[c] /\ ~Reads(c, c)
    BY <1>1, <2>1, PlanAssumption DEF Found, EdgesFound, FullDeps, IInv, Shape
  <2>3. \A d \in Plan \ {c} : deps'[d] = deps[d]
    BY <1>1, PlanAssumption DEF IInv, Shape
  <2>4. \A d \in Done' : deps'[d] = FullDeps[d] /\ ~Reads(d, d)
    BY <1>1, <1>3, <2>2, <2>3 DEF Found, EdgesFound, Done
  <2>5. \A d \in todo' : deps'[d] = in.explicit[d]
    BY <1>1, <2>3 DEF Found, EdgesFound, IInv, Shape
  <2>6. FullDeps' = FullDeps /\ \A d : Reads(d, d)' = Reads(d, d)
    BY <1>1, SameBuild
  <2>7. \A d \in Done' : deps'[d] = FullDeps'[d] /\ ~Reads(d, d)'
    BY <2>4, <2>6
  <2> QED
    BY <1>1, <2>5, <2>7 DEF EdgesFound, Ordering, IInv, Taken
<1>6. OrderFound' /\ LinkFound'
  BY <1>1 DEF Found, OrderFound, LinkFound, IInv, Taken
<1>7. verdict' = "none"
  BY <1>1 DEF IInv, Taken
<1> QED
  BY <1>2, <1>4, <1>5, <1>6, <1>7, Undecided DEF Found

LEMMA PassByFound ==
  ASSUME VInv, IInv', NEW c \in Plan, PassBy(c)
  PROVE  VInv'
<1> USE DEF VInv
<1>1. /\ phase = "order" /\ c \in todo /\ IsBlocked(c) /\ todo' = todo \ {c}
      /\ UNCHANGED <<in, phase, hashes, generators, deps, cmds, added, commands,
                     unprocessed, left, dependents, verdict>>
  BY DEF PassBy, initVars
<1>2. TypeOK'
  BY <1>1, PlanAssumption DEF TypeOK, InputRecord
<1>3. CheckFound' /\ GeneratorsFound' /\ LinkFound'
  BY <1>1, SameBuild DEF Found, CheckFound, GeneratorsFound, LinkFound, Ordering, IInv,
                         Taken
<1>4. EdgesFound'
  BY <1>1, SameBuild DEF Found, EdgesFound, Ordering
<1>5. OrderFound'
  BY <1>1 DEF Found, OrderFound, IsBlocked
<1>6. verdict' = "none"
  BY <1>1 DEF IInv, Taken
<1> QED
  BY <1>2, <1>3, <1>4, <1>5, <1>6, Undecided DEF Found

LEMMA TakeFound ==
  ASSUME VInv, IInv', NEW c \in Plan, Take(c)
  PROVE  VInv'
<1> USE DEF VInv
<1>1. /\ phase = "order" /\ c \in todo /\ todo' = todo \ {c} /\ added' = TRUE
      /\ commands' = Append(commands, c) /\ cmds' = cmds \ {c}
      /\ UNCHANGED <<in, phase, hashes, generators, deps, unprocessed, left, dependents,
                     verdict>>
  BY DEF Take
<1>2. TypeOK'
  <2>1. commands' \in Seq(Plan)
    BY DEF IInv, Shape
  <2> QED
    BY <1>1, <2>1, PlanAssumption DEF TypeOK, InputRecord
<1>3. CheckFound' /\ GeneratorsFound' /\ LinkFound'
  BY <1>1, SameBuild DEF Found, CheckFound, GeneratorsFound, LinkFound, Ordering, IInv,
                         Taken
<1>4. EdgesFound'
  BY <1>1, SameBuild DEF Found, EdgesFound, Ordering
<1>5. OrderFound'
  <2>1. c \in cmds
    BY <1>1 DEF Found, OrderFound
  <2>2. Cardinality(cmds \ {c}) = Cardinality(cmds) - 1
    BY <2>1, FiniteParts, FS_RemoveElement, PlanAssumption DEF IInv, Shape
  <2>3. Cardinality(cmds) \in Nat
    BY FiniteParts, PlanAssumption DEF IInv, Shape
  <2>4. Len(commands) \in Nat /\ Len(commands') = Len(commands) + 1
    BY <1>1, AppendElements, LenProperties DEF IInv, Shape
  <2>5. Len(commands) + Cardinality(cmds) = Cardinality(Plan)
    BY <1>1 DEF Found, OrderFound
  <2>6. Len(commands') + Cardinality(cmds') = Cardinality(Plan)
    BY <1>1, <2>2, <2>3, <2>4, <2>5
  <2> QED
    BY <1>1, <2>6 DEF Found, OrderFound
<1>6. verdict' = "none"
  BY <1>1 DEF IInv, Taken
<1> QED
  BY <1>2, <1>3, <1>4, <1>5, <1>6, Undecided DEF Found

(* At the end of a loop what it found holds of the whole plan.             *)
LEMMA NextLoopFound ==
  ASSUME VInv, IInv', NextLoop
  PROVE  VInv'
<1> USE DEF VInv
<1>1. /\ todo = {} /\ todo' = Plan /\ Done = Plan /\ Done' = {}
      /\ UNCHANGED <<in, hashes, generators, deps, cmds, added, commands, unprocessed,
                     left, dependents, verdict>>
  BY DEF NextLoop, initVars, Done
<1>2. \/ phase = "check" /\ phase' = "generators"
      \/ phase = "generators" /\ phase' = "edges"
      \/ phase = "edges" /\ phase' = "order"
  BY DEF NextLoop, After
<1>3. TypeOK'
  <2>1. \A c \in Plan : deps'[c] \subseteq Plan
    BY <1>2 DEF IInv, DepsInPlan
  <2> QED
    BY <1>1, <1>2, <2>1 DEF TypeOK, InputRecord
<1>4. CheckFound'
  <2>1. ~HasDuplicate /\ ~HasForeign
    <3>1. CASE phase = "check"
      <4>1. ~HasDuplicate
        BY <1>1, <3>1 DEF Found, CheckFound, HasDuplicate
      <4>2. deps = in.explicit /\ \A c \in Plan : deps[c] \subseteq Plan
        BY <1>1, <3>1 DEF Found, CheckFound, IInv, DepsInPlan
      <4> QED
        BY <4>1, <4>2 DEF HasForeign
    <3>2. CASE phase # "check"
      BY <1>2, <3>2 DEF Found, CheckFound
    <3> QED
      BY <3>1, <3>2
  <2> QED
    BY <1>1, <1>2, <2>1, SameBuild DEF CheckFound
<1>5. GeneratorsFound'
  <2>1. CASE phase = "check"
    <3>1. \A o \in File : generators[o] = {}
      BY <2>1 DEF Found, GeneratorsFound
    <3> QED
      BY <1>1, <1>2, <2>1, <3>1 DEF GeneratorsFound, Ordering, Writers, Found, CheckFound
  <2>2. CASE phase = "generators"
    <3>1. ~HasTwoProducers
      BY <1>1, <2>2 DEF Found, GeneratorsFound, HasTwoProducers
    <3>2. \A o \in File : generators'[o] = Writers(o, Plan)'
      BY <1>1, <2>2 DEF Found, GeneratorsFound, Writers
    <3> QED
      BY <1>1, <1>2, <2>2, <3>1, <3>2, SameBuild DEF GeneratorsFound, Ordering
  <2>3. CASE phase = "edges"
    BY <1>1, <1>2, <2>3, SameBuild DEF Found, GeneratorsFound, Ordering
  <2> QED
    BY <1>2, <2>1, <2>2, <2>3
<1>6. EdgesFound'
  <2>1. CASE phase = "check"
    BY <1>1, <1>2, <2>1 DEF EdgesFound, Ordering, IInv, Taken
  <2>2. CASE phase = "generators"
    <3>1. \A c \in Plan : deps'[c] = in'.explicit[c]
      BY <1>1, <2>2 DEF Found, GeneratorsFound
    <3> QED
      BY <1>1, <1>2, <2>2, <3>1 DEF EdgesFound, Ordering, IInv, Taken
  <2>3. CASE phase = "edges"
    <3>1. \A c \in Plan : deps[c] = FullDeps[c] /\ ~Reads(c, c)
      BY <1>1, <2>3 DEF Found, EdgesFound
    <3>2. FullDeps' = FullDeps /\ \A c : Reads(c, c)' = Reads(c, c)
      BY <1>1, SameBuild
    <3>3. \A c \in Plan : deps'[c] = FullDeps'[c] /\ ~Reads(c, c)'
      BY <1>1, <3>1, <3>2
    <3> QED
      BY <1>2, <2>3, <3>3 DEF EdgesFound
  <2> QED
    BY <1>2, <2>1, <2>2, <2>3
<1>7. OrderFound' /\ LinkFound'
  BY <1>1, <1>2 DEF Found, OrderFound, LinkFound, IInv, Taken
<1>8. verdict' = "none"
  BY <1>1, <1>2 DEF IInv, Taken
<1> QED
  BY <1>3, <1>4, <1>5, <1>6, <1>7, <1>8, Undecided DEF Found

(* What the passes of init() cannot order waits for itself, and whatever   *)
(* waits for itself cannot be ordered.                                     *)
LEMMA StuckIsLeft ==
  ASSUME VInv, phase \in Ordering, phase = "order" => todo = {} /\ ~added
  PROVE  Stuck \subseteq cmds /\ (phase = "order" => Stuck = cmds)
<1> USE DEF VInv
<1>1. \A c \in Plan : deps[c] = FullDeps[c]
  BY DEF Found, EdgesFound
<1>2. Stuck \subseteq cmds
  <2> SUFFICES ASSUME NEW S \in SUBSET Plan, \A c \in S : FullDeps[c] \cap S # {}
               PROVE  S \subseteq cmds
    BY DEF Stuck
  <2>1. Waits(S)
    BY <1>1 DEF Waits
  <2> QED
    BY <2>1 DEF IInv, StuckStay, Ordering
<1>3. ASSUME phase = "order" PROVE cmds \subseteq Stuck
  <2>1. cmds \in SUBSET Plan
    BY DEF IInv, Shape
  <2>2. \A c \in cmds : deps[c] \cap cmds # {}
    BY <1>3 DEF Found, OrderFound, IsBlocked
  <2>3. \A c \in cmds : FullDeps[c] \cap cmds # {}
    BY <1>1, <2>1, <2>2
  <2>4. cmds \in {S \in SUBSET Plan : \A c \in S : FullDeps[c] \cap S # {}}
    BY <2>1, <2>3
  <2> QED
    BY <2>4 DEF Stuck
<1> QED
  BY <1>2, <1>3

LEMMA PassFound ==
  ASSUME VInv, IInv', NextPass \/ AllOrdered
  PROVE  VInv'
<1> USE DEF VInv
<1>1. /\ phase = "order" /\ todo = {}
      /\ UNCHANGED <<in, hashes, generators, deps, cmds, commands, unprocessed, left,
                     dependents, verdict>>
      /\ \/ phase' = "order" /\ todo' = cmds /\ added' = FALSE
         \/ phase' = "link" /\ todo' = todo /\ added' = added
  BY DEF NextPass, AllOrdered, initVars
<1>2. \A c \in Plan : deps[c] \subseteq Plan
  BY <1>1 DEF IInv, DepsInPlan
<1>3. TypeOK'
  BY <1>1, <1>2 DEF TypeOK, InputRecord
<1>4. CheckFound' /\ GeneratorsFound' /\ EdgesFound'
  BY <1>1, SameBuild DEF Found, CheckFound, GeneratorsFound, EdgesFound, Ordering
<1>5. OrderFound' /\ LinkFound'
  BY <1>1 DEF Found, OrderFound, LinkFound, IInv, Taken
<1>6. verdict' = "none"
  BY <1>1 DEF IInv, Taken
<1> QED
  BY <1>3, <1>4, <1>5, <1>6, Undecided DEF Found

LEMMA GiveUpFound ==
  ASSUME VInv, IInv', GiveUp
  PROVE  VInv'
<1> USE DEF VInv
<1>1. /\ phase = "order" /\ todo = {} /\ cmds # {} /\ ~added
      /\ unprocessed' = cmds /\ phase' = "end" /\ verdict' = "cyclic"
      /\ UNCHANGED <<in, todo, hashes, generators, deps, cmds, added, commands, left,
                     dependents>>
  BY DEF GiveUp, GivesUp
<1>2. TypeOK'
  BY <1>1, PlanAssumption DEF TypeOK, InputRecord, Verdict
<1>3. Found'
  BY <1>1 DEF Found, CheckFound, GeneratorsFound, EdgesFound, OrderFound, LinkFound,
              Ordering
<1>4. Stuck = cmds
  BY <1>1, StuckIsLeft DEF Ordering
<1>5. ~HasDuplicate /\ ~HasForeign /\ ~HasTwoProducers /\ ~HasSelf
  BY <1>1 DEF Found, CheckFound, GeneratorsFound, EdgesFound, Ordering, HasSelf
<1>6. VerdictRight' /\ UnprocessedExact'
  BY <1>1, <1>4, <1>5, SameBuild DEF VerdictRight, UnprocessedExact
<1> QED
  BY <1>2, <1>3, <1>6

LEMMA LinkStepFound ==
  ASSUME VInv, IInv', Link
  PROVE  VInv'
<1> USE DEF VInv
<1>1. /\ phase = "link" /\ phase' = "sort"
      /\ left' = [c \in Command |->
                    IF c \in Elements(commands) THEN Cardinality(deps[c]) ELSE left[c]]
      /\ dependents' = [c \in Command |-> dependents[c] \cup LinkedTo(c)]
      /\ UNCHANGED <<in, todo, hashes, generators, deps, cmds, added, commands,
                     unprocessed, verdict>>
  BY DEF Link
<1>2. Elements(commands) = Plan
  <2>1. Elements(commands) \subseteq Plan
    BY LenProperties DEF IInv, Shape, Elements
  <2> QED
    BY <1>1, <2>1 DEF IInv, Taken
<1>3. \A c \in Command : deps[c] \subseteq Command /\ Cardinality(deps[c]) \in Nat
  BY FiniteParts DEF IInv, Shape
<1>4. \A c \in Plan : deps[c] \subseteq Plan
  BY <1>1 DEF IInv, DepsInPlan
<1>5. \A c \in Command : LinkedTo(c) = {d \in Plan : c \in deps[d]}
  BY <1>2 DEF LinkedTo
<1>6. TypeOK'
  <2>1. left' \in [Command -> Nat]
    BY <1>1, <1>3 DEF TypeOK
  <2>2. dependents' \in [Command -> SUBSET Command]
    BY <1>1, <1>5, PlanAssumption DEF TypeOK
  <2> QED
    BY <1>1, <1>4, <2>1, <2>2 DEF TypeOK, InputRecord
<1>7. CheckFound' /\ GeneratorsFound' /\ EdgesFound'
  BY <1>1, SameBuild DEF Found, CheckFound, GeneratorsFound, EdgesFound, Ordering
<1>8. OrderFound'
  BY <1>1 DEF Found, OrderFound
<1>9. LinkFound'
  <2>1. verdict' = "none"
    BY <1>1 DEF IInv, Taken
  <2>2. \A c \in Plan : left'[c] = Cardinality(deps[c])
    BY <1>1, <1>2, PlanAssumption
  <2>3. \A c \in Command : dependents'[c] = {d \in Plan : c \in deps[d]}
    BY <1>1, <1>5 DEF Found, LinkFound
  <2>4. deps' = deps
    BY <1>1
  <2> QED
    BY <1>1, <1>4, <2>1, <2>2, <2>3, <2>4 DEF LinkFound
<1>10. verdict' = "none"
  BY <1>1 DEF IInv, Taken
<1> QED
  BY <1>6, <1>7, <1>8, <1>9, <1>10, Undecided DEF Found

(* The sort puts commands with fewer dependencies first, so a command with *)
(* none cannot come after one that has some.                               *)
LEMMA SortFound ==
  ASSUME VInv, IInv', Sort
  PROVE  VInv'
<1> USE DEF VInv
<1>0. PICK s \in [1..Len(commands) -> Elements(commands)] :
        /\ Elements(s) = Elements(commands)
        /\ \A i, j \in 1..Len(commands) : i < j => ~Less(s[j], s[i])
        /\ commands' = s
  BY DEF Sort
<1>1. /\ phase = "sort" /\ phase' = "end" /\ verdict' = "valid"
      /\ UNCHANGED <<in, todo, hashes, generators, deps, cmds, added, unprocessed, left,
                     dependents>>
  BY DEF Sort
<1>2. Len(commands) \in Nat /\ Elements(commands) \subseteq Plan
  BY LenProperties DEF IInv, Shape, Elements
<1>3. commands' \in Seq(Plan) /\ Len(commands') = Len(commands)
  BY <1>0, <1>2
<1>4. \A c \in Plan : deps[c] \subseteq Plan
  BY <1>1 DEF IInv, DepsInPlan
<1>5. TypeOK'
  BY <1>1, <1>3, <1>4 DEF TypeOK, InputRecord, Verdict
<1>6. CheckFound' /\ GeneratorsFound' /\ EdgesFound'
  BY <1>1, SameBuild DEF Found, CheckFound, GeneratorsFound, EdgesFound, Ordering
<1>7. OrderFound'
  BY <1>1, <1>3 DEF Found, OrderFound
<1>8. RootsFirst'
  <2> SUFFICES ASSUME NEW i \in 1..Len(commands), NEW j \in 1..Len(commands), i < j,
                      deps[s[j]] = {}
               PROVE  deps[s[i]] = {}
    BY <1>0, <1>1, <1>3 DEF RootsFirst
  <2>1. s[i] \in Plan /\ s[j] \in Plan
    BY <1>0, <1>2
  <2>2. ~(Cardinality(deps[s[j]]) < Cardinality(deps[s[i]]))
    BY <1>0 DEF Less
  <2>3. IsFiniteSet(deps[s[i]]) /\ Cardinality(deps[s[i]]) \in Nat
    BY <1>4, <2>1, FiniteParts, PlanAssumption
  <2>4. Cardinality(deps[s[j]]) = 0
    BY FS_EmptySet
  <2>5. Cardinality(deps[s[i]]) = 0
    BY <2>2, <2>3, <2>4
  <2> QED
    BY <2>3, <2>5, FS_EmptySet
<1>9. LinkFound'
  BY <1>1, <1>8 DEF Found, LinkFound
<1>10. VerdictRight'
  <2>1. ~HasDuplicate /\ ~HasForeign /\ ~HasTwoProducers /\ ~HasSelf
    BY <1>1 DEF Found, CheckFound, GeneratorsFound, EdgesFound, Ordering, HasSelf
  <2>2. cmds = {} /\ Stuck \subseteq cmds
    BY <1>1, StuckIsLeft DEF Ordering, IInv, Taken
  <2> QED
    BY <1>1, <2>1, <2>2, SameBuild DEF VerdictRight
<1>11. UnprocessedExact'
  BY <1>1 DEF UnprocessedExact
<1> QED
  BY <1>5, <1>6, <1>7, <1>9, <1>10, <1>11 DEF Found

LEMMA StutterFound ==
  ASSUME VInv, IInv', UNCHANGED vars
  PROVE  VInv'
<1> USE DEF VInv
<1>1. UNCHANGED <<in, phase, todo, hashes, generators, deps, cmds, added, commands,
                  unprocessed, left, dependents, verdict>>
  BY DEF vars
<1>2. TypeOK'
  BY <1>1 DEF TypeOK, InputRecord, Verdict
<1>3. CheckFound' /\ GeneratorsFound' /\ EdgesFound'
  BY <1>1, SameBuild DEF Found, CheckFound, GeneratorsFound, EdgesFound, Ordering,
                         Done, Writers
<1>4. OrderFound' /\ LinkFound'
  BY <1>1 DEF Found, OrderFound, LinkFound, IsBlocked, RootsFirst
<1>5. VerdictRight' /\ UnprocessedExact'
  BY <1>1, SameBuild DEF VerdictRight, UnprocessedExact
<1> QED
  BY <1>2, <1>3, <1>4, <1>5 DEF Found

LEMMA NextFound == VInv /\ [Next]_vars => VInv'
<1> SUFFICES ASSUME VInv, [Next]_vars PROVE VInv'
  OBVIOUS
<1>1. IInv'
  BY NextStep DEF VInv
<1> QED
  BY <1>1, ThrowFound, CheckStepFound, GeneratorsStepFound, EdgesStepFound, PassByFound,
     TakeFound, NextLoopFound, PassFound, GiveUpFound, LinkStepFound, SortFound,
     StutterFound DEF Next, Ended

LEMMA FoundInvariant == Spec => []VInv
  BY InitFound, NextFound, PTL DEF Spec

(* create() accepts exactly the builds that can be executed, names what is *)
(* wrong with the others, and of a cyclic one reports exactly the commands *)
(* that wait for themselves and those that wait for them - whatever order  *)
(* the hash tables hand commands out in.                                   *)
THEOREM VerdictIsExact == Spec => []VerdictExact
<1>1. VInv => VerdictExact
  BY DEF VInv, VerdictExact
<1> QED
  BY <1>1, FoundInvariant, PTL

(* What execute() is handed can be executed as it stands: all commands,    *)
(* counters that agree with the dependents that will count them down,      *)
(* roots first, and every reader of a file among the dependents of each of *)
(* its writers.                                                            *)
THEOREM HandedOverIsReady == Spec => []HandedOverReady
<1>1. VInv => HandedOverReady
  <2> SUFFICES ASSUME VInv, verdict = "valid" PROVE HandedOverReady
    BY DEF HandedOverReady, ReadyToExecute, ReadersWait
  <2> USE DEF VInv
  <2>1. /\ \A c \in Plan : left[c] = Cardinality(deps[c]) /\ deps[c] \subseteq Plan
        /\ \A c \in Command : dependents[c] = {d \in Plan : c \in deps[d]}
        /\ RootsFirst
    BY DEF Found, LinkFound
  <2>2. CountersAgree
    <3> SUFFICES ASSUME NEW c \in Plan
                 PROVE  left[c] = Cardinality({d \in Plan : c \in dependents[d]})
      BY DEF CountersAgree
    <3>1. {d \in Plan : c \in dependents[d]} = deps[c]
      BY <2>1, PlanAssumption
    <3> QED
      BY <2>1, <3>1
  <2>3. cmds = {} /\ Elements(commands) = Plan
    BY LenProperties DEF IInv, Shape, Taken, Elements
  <2>4. Len(commands) = Cardinality(Plan)
    BY <2>3, FS_EmptySet, LenProperties DEF Found, OrderFound, IInv, Shape
  <2>5. ASSUME NEW c \in Plan, NEW p \in Plan, Reads(c, p) PROVE c \in dependents[p]
    <3>1. p \in deps[c]
      BY <2>5 DEF Found, EdgesFound, FullDeps
    <3> QED
      BY <2>1, <3>1, PlanAssumption
  <2> QED
    BY <2>1, <2>2, <2>3, <2>4, <2>5 DEF HandedOverReady, ReadyToExecute, ReadersWait
<1> QED
  BY <1>1, FoundInvariant, PTL
=============================================================================
