------------------------ MODULE ExecutionPlanProofs ------------------------
(***************************************************************************)
(* Proofs about ExecutionPlan for every plan, number of threads and choice *)
(* of options: type correctness, exactness of the countdown counters,      *)
(* dependency order, that no command is performed twice, that the main     *)
(* loop ends no sooner than the work does, that the outcome is what        *)
(* happened, and that ExecutionPlan implements BuildDag.                   *)
(***************************************************************************)
EXTENDS ExecutionPlanRefinement, FiniteSetTheorems, TLAPS

(* The types that hold without an argument about the counters. *)
Shape ==
  /\ deps \in [Command -> SUBSET Command]
  /\ throw_on_errors \in BOOLEAN
  /\ left \in [Command -> Int]
  /\ job \in [Command -> JobState]
  /\ releases \in [Command -> SUBSET Command]
  /\ exit \in [Command -> {"none", "ok", "error"}]
  /\ running \in Int
  /\ stopped \in BOOLEAN
  /\ interrupted \in BOOLEAN
  /\ late \in BOOLEAN
  /\ askip_errors \in Int
  /\ main \in {"start", "loop", "wait", "drain", "gather", "returned"}
  /\ fs \in SUBSET Command
  /\ fs2 \in SUBSET Command
  /\ waited \in Nat
  /\ outcome \in Outcome

(* What the station of a job says of its command. *)
StationInv ==
  \A c \in Command :
    /\ job[c] \in {"idle", "queued", "checked", "running"} => exit[c] = "none"
    /\ job[c] = "failed" => exit[c] = "error"
    /\ job[c] = "throwing" => exit[c] = "error" /\ throw_on_errors
    /\ job[c] = "releasing" => Performed(c)
    /\ releases[c] # {} => job[c] = "releasing"
    /\ releases[c] \subseteq Dependents(c)

(* A command with dependencies has a job exactly when the last of them     *)
(* counted it down; before the start nothing has one.                      *)
PushInv ==
  /\ main = "start" => \A c \in Command : job[c] = "idle"
  /\ \A d \in Command : (deps[d] # {} /\ job[d] # "idle") <=>
        (deps[d] # {} /\ \A c \in deps[d] : CountedDown(c, d))

Inside == {c \in Command : job[c] = "running"}

RunningExact == running = Cardinality(Inside)

IInv == Shape /\ StationInv /\ PushInv /\ CountersExact /\ RunningExact
-----------------------------------------------------------------------------
(* Initially every counter is the number of dependencies and nothing runs. *)
LEMMA InitInv == Init => IInv
<1> SUFFICES ASSUME Init PROVE IInv
  OBVIOUS
<1> USE CommandAssumption, GraphsAssumption, OptionsAssumption
<1>1. deps \in [Command -> SUBSET Command]
  BY DEF Init
<1>2. \A d \in Command : IsFiniteSet(deps[d]) /\ Cardinality(deps[d]) \in Nat
  BY <1>1, FS_Subset, FS_CardinalityType
<1>3. Shape
  <2>1. left \in [Command -> Int]
    BY <1>2 DEF Init
  <2>2. job \in [Command -> JobState] /\ exit \in [Command -> {"none", "ok", "error"}]
    BY DEF Init, JobState
  <2>3. releases \in [Command -> SUBSET Command]
    BY DEF Init
  <2>4. /\ running \in Int /\ waited \in Nat /\ askip_errors \in Int
        /\ fs \in SUBSET Command /\ fs2 \in SUBSET Command
    BY DEF Init
  <2>5. /\ stopped \in BOOLEAN /\ interrupted \in BOOLEAN /\ late \in BOOLEAN
    BY DEF Init
  <2>6. /\ main \in {"start", "loop", "wait", "drain", "gather", "returned"}
        /\ outcome \in Outcome
    BY DEF Init, Outcome
  <2> QED
    BY <1>1, <2>1, <2>2, <2>3, <2>4, <2>5, <2>6, OptionsAssumption DEF Init, Shape
<1>4. StationInv
  BY <1>1 DEF Init, StationInv, Dependents
<1>5. \A c, d \in Command : ~CountedDown(c, d)
  BY DEF Init, CountedDown, Performed
<1>6. PushInv
  BY <1>1, <1>5 DEF Init, PushInv
<1>7. CountersExact
  <2> SUFFICES ASSUME NEW d \in Command
               PROVE  left[d] = Cardinality({c \in deps[d] : ~CountedDown(c, d)})
    BY DEF CountersExact
  <2>1. {c \in deps[d] : ~CountedDown(c, d)} = deps[d]
    BY <1>1, <1>5
  <2> QED
    BY <2>1 DEF Init
<1>8. RunningExact
  <2>1. Inside = {}
    BY DEF Init, Inside
  <2> QED
    BY <2>1, FS_EmptySet DEF Init, RunningExact
<1> QED
  BY <1>3, <1>4, <1>6, <1>7, <1>8 DEF IInv

(* No step takes a variable out of its shape. *)
LEMMA ShapeStep == Shape /\ [Next]_vars => Shape'
<1> SUFFICES ASSUME Shape, [Next]_vars PROVE Shape'
  OBVIOUS
<1> USE OptionsAssumption DEF Shape, JobState, Outcome, workerVars, mainVars
<1>1. CASE RejectPlan
  BY <1>1 DEF planVars, RejectPlan
<1>2. CASE PushRoots
  BY <1>2 DEF planVars, PushRoots
<1>3. CASE Snapshot
  BY <1>3 DEF planVars, Snapshot
<1>4. CASE AllPerformed
  BY <1>4 DEF planVars, AllPerformed
<1>5. CASE WaitRound
  <2>1. Cardinality(fs2) \in Nat
    BY CommandAssumption, FS_Subset, FS_CardinalityType
  <2> QED
    BY <1>5, <2>1 DEF planVars, WaitRound
<1>6. CASE WaitRunning
  BY <1>6 DEF planVars, WaitRunning
<1>7. CASE Return
  BY <1>7 DEF planVars, Return, Conclusion
<1>8. ASSUME NEW c \in Command, JobStep(c) PROVE Shape'
  <2>1. CASE Skip(c) \/ PassCheck(c) \/ Rethrow(c)
    BY <2>1 DEF planVars, Skip, PassCheck, Rethrow
  <2>2. CASE EnterCommand(c) \/ Fail(c)
    BY <2>2 DEF planVars, EnterCommand, RunningUp, Fail, RunningDown
  <2>3. CASE Succeed(c)
    BY <2>3 DEF planVars, Succeed, RunningDown, Dependents
  <2>4. CASE CountError(c)
    BY <2>4 DEF planVars, CountError, Exhausted, Dependents
  <2>5. ASSUME NEW d \in Command, Release(c, d) PROVE Shape'
    BY <2>5 DEF planVars, Release, CountDown, IsLast, AddFuture
  <2>6. CASE FinishJob(c)
    BY <2>6 DEF planVars, FinishJob
  <2> QED
    BY <1>8, <2>1, <2>2, <2>3, <2>4, <2>5, <2>6 DEF JobStep
<1>9. CASE TimeLimitPasses \/ Stop \/ Idle
  BY <1>9 DEF planVars, TimeLimitPasses, Stop, Idle, vars
<1>10. CASE UNCHANGED vars
  BY <1>10 DEF vars
<1> QED
  BY <1>1, <1>2, <1>3, <1>4, <1>5, <1>6, <1>7, <1>8, <1>9, <1>10 DEF Next, MainStep
-----------------------------------------------------------------------------
(* The dependencies of d that have yet to count it down. *)
Pending(d) == {c \in deps[d] : ~CountedDown(c, d)}

LEMMA PendingFinite ==
  ASSUME Shape, NEW d \in Command
  PROVE  IsFiniteSet(Pending(d)) /\ Cardinality(Pending(d)) \in Nat
<1>1. Pending(d) \in SUBSET Command
  BY DEF Shape, Pending
<1> QED
  BY <1>1, CommandAssumption, FS_Subset, FS_CardinalityType

(* The job that takes the counter of d to zero is the last dependency of d *)
(* to finish, and d has no job yet.                                        *)
LEMMA LastRelease ==
  ASSUME IInv, NEW c \in Command, NEW d \in Command, Release(c, d)
  PROVE  /\ c \in Pending(d)
         /\ job[d] = "idle"
         /\ exit[d] = "none"
         /\ IsLast(d) <=> Pending(d) = {c}
<1> USE DEF IInv
<1>1. c \in deps[d] /\ d \in releases[c]
  BY DEF Release, StationInv, Dependents
<1>2. c \in Pending(d)
  BY <1>1 DEF Pending, CountedDown
<1>3. job[d] = "idle"
  BY <1>2 DEF PushInv, Pending
<1>4. exit[d] = "none"
  BY <1>3 DEF StationInv
<1>5. left[d] = Cardinality(Pending(d))
  BY DEF CountersExact, Pending
<1>6. ASSUME IsLast(d) PROVE Pending(d) = {c}
  <2>1. Cardinality(Pending(d)) = 1
    BY <1>5, <1>6 DEF IsLast
  <2>2. PICK x : Pending(d) = {x}
    BY <2>1, PendingFinite, FS_Singleton
  <2> QED
    BY <1>2, <2>2
<1>7. ASSUME Pending(d) = {c} PROVE IsLast(d)
  BY <1>5, <1>7, FS_Singleton DEF IsLast
<1> QED
  BY <1>2, <1>3, <1>4, <1>6, <1>7

(* The plan and its options are never changed.                             *)
LEMMA PlanKept == [Next]_vars => deps' = deps /\ throw_on_errors' = throw_on_errors
  BY DEF planVars, Next, MainStep, RejectPlan, PushRoots, Snapshot, AllPerformed, WaitRound,
         WaitRunning, Return, JobStep, Skip, PassCheck, EnterCommand, Succeed, Fail, CountError,
         Rethrow, Release, FinishJob, TimeLimitPasses, Stop, Idle, vars

(* What a step other than a release leaves alone: nobody counts a          *)
(* dependent down, no counter moves.                                       *)
LEMMA QuietStep ==
  ASSUME IInv, [Next]_vars,
         \A c, d \in Command : ~Release(c, d)
  PROVE  /\ deps' = deps
         /\ left' = left
         /\ \A d \in Command : \A c \in deps[d] : CountedDown(c, d)' <=> CountedDown(c, d)
         /\ \A d \in Command : deps[d] # {} => (job'[d] = "idle" <=> job[d] = "idle")
<1> USE DEF IInv, Shape, JobState, workerVars, mainVars, CountedDown, Performed
<1>1. CASE RejectPlan \/ Snapshot \/ AllPerformed \/ WaitRound \/ WaitRunning \/ Return
  BY <1>1 DEF planVars, RejectPlan, Snapshot, AllPerformed, WaitRound, WaitRunning, Return
<1>2. CASE PushRoots
  BY <1>2 DEF planVars, PushRoots, PushInv
<1>3. ASSUME NEW c \in Command, JobStep(c)
      PROVE  /\ deps' = deps
             /\ left' = left
             /\ \A y \in Command : \A x \in deps[y] : CountedDown(x, y)' <=> CountedDown(x, y)
             /\ \A d \in Command : job'[d] = "idle" <=> job[d] = "idle"
  <2>1. CASE Skip(c) \/ PassCheck(c)
    BY <2>1 DEF planVars, Skip, PassCheck
  <2>2. CASE EnterCommand(c)
    BY <2>2 DEF planVars, EnterCommand
  <2>3. CASE Succeed(c)
    BY <2>3 DEF planVars, Succeed, Dependents, StationInv
  <2>4. CASE Fail(c)
    BY <2>4 DEF planVars, Fail, StationInv
  <2>5. CASE CountError(c)
    BY <2>5 DEF planVars, CountError, Dependents, StationInv
  <2>6. CASE Rethrow(c) \/ FinishJob(c)
    BY <2>6 DEF planVars, Rethrow, FinishJob
  <2> QED
    BY <1>3, <2>1, <2>2, <2>3, <2>4, <2>5, <2>6 DEF JobStep
<1>4. CASE TimeLimitPasses \/ Stop \/ Idle \/ UNCHANGED vars
  BY <1>4 DEF planVars, TimeLimitPasses, Stop, Idle, vars
<1> QED
  BY <1>1, <1>2, <1>3, <1>4 DEF Next, MainStep

(* A release counts one dependent down for one dependency, nothing else.   *)
LEMMA ReleaseStep ==
  ASSUME IInv, NEW c \in Command, NEW d \in Command, Release(c, d)
  PROVE  /\ deps' = deps
         /\ \A x, y \in Command :
              CountedDown(x, y)' <=> (CountedDown(x, y) \/ (x = c /\ y = d))
         /\ Pending(d)' = Pending(d) \ {c}
         /\ \A y \in Command : y # d => Pending(y)' = Pending(y) /\ job'[y] = job[y]
<1> USE DEF IInv, Shape
<1>1. /\ deps' = deps /\ throw_on_errors' = throw_on_errors
      /\ exit' = exit /\ job[c] = "releasing" /\ Performed(c)
  BY DEF planVars, Release, StationInv
<1>2. /\ job[d] = "idle" /\ exit[d] = "none"
      /\ \A y \in Command : y # d => job'[y] = job[y]
      /\ job'[d] \in {"idle", "queued"}
  BY LastRelease DEF Release
<1>3. \A x, y \in Command : y \in releases'[x] <=> (y \in releases[x] /\ ~(x = c /\ y = d))
  BY DEF Release
<1>4. \A x, y \in Command :
         CountedDown(x, y)' <=> (CountedDown(x, y) \/ (x = c /\ y = d))
  BY <1>1, <1>2, <1>3 DEF CountedDown, Performed
<1>5. Pending(d)' = Pending(d) \ {c}
  BY <1>1, <1>4 DEF Pending
<1>6. \A y \in Command : y # d => Pending(y)' = Pending(y)
  BY <1>1, <1>4 DEF Pending
<1> QED
  BY <1>1, <1>2, <1>4, <1>5, <1>6
-----------------------------------------------------------------------------
LEMMA StationStep == IInv /\ [Next]_vars => StationInv'
<1> SUFFICES ASSUME IInv, [Next]_vars PROVE StationInv'
  OBVIOUS
<1> USE DEF IInv, Shape, JobState, workerVars, mainVars, StationInv, Performed
<1>1. CASE RejectPlan \/ Snapshot \/ AllPerformed \/ WaitRound \/ WaitRunning \/ Return
  BY <1>1 DEF planVars, RejectPlan, Snapshot, AllPerformed, WaitRound, WaitRunning, Return,
              Dependents
<1>2. CASE PushRoots
  BY <1>2 DEF PushRoots, PushInv, Dependents
<1>3. ASSUME NEW c \in Command, JobStep(c) PROVE StationInv'
  <2>1. CASE Skip(c) \/ PassCheck(c) \/ EnterCommand(c)
    BY <2>1 DEF planVars, Skip, PassCheck, EnterCommand, Dependents
  <2>2. CASE Succeed(c)
    BY <2>2 DEF planVars, Succeed, Dependents
  <2>3. CASE Fail(c)
    BY <2>3 DEF planVars, Fail, Dependents
  <2>4. CASE CountError(c)
    BY <2>4 DEF planVars, CountError, Dependents
  <2>5. CASE Rethrow(c) \/ FinishJob(c)
    BY <2>5 DEF planVars, Rethrow, FinishJob, Dependents
  <2>6. ASSUME NEW d \in Command, Release(c, d) PROVE StationInv'
    <3>1. job[d] = "idle" /\ exit[d] = "none"
      BY <2>6, LastRelease
    <3>2. /\ exit' = exit /\ deps' = deps /\ job[c] = "releasing"
          /\ throw_on_errors' = throw_on_errors
          /\ releases' = [releases EXCEPT ![c] = @ \ {d}]
          /\ job' = job \/ job' = [job EXCEPT ![d] = "queued"]
      BY <2>6 DEF planVars, Release
    <3> QED
      BY <3>1, <3>2 DEF Dependents
  <2> QED
    BY <1>3, <2>1, <2>2, <2>3, <2>4, <2>5, <2>6 DEF JobStep
<1>4. CASE TimeLimitPasses \/ Stop \/ Idle \/ UNCHANGED vars
  BY <1>4 DEF planVars, TimeLimitPasses, Stop, Idle, vars, Dependents
<1> QED
  BY <1>1, <1>2, <1>3, <1>4 DEF Next, MainStep

(* Before the start nothing has a job, and only PushRoots ends this.       *)
LEMMA StartStep ==
  ASSUME IInv, [Next]_vars, main' = "start"
  PROVE  \A c \in Command : job'[c] = "idle"
<1> USE DEF IInv, Shape, JobState, workerVars, mainVars
<1>1. CASE MainStep
  BY <1>1 DEF MainStep, RejectPlan, PushRoots, Snapshot, AllPerformed, WaitRound,
              WaitRunning, Return
<1>2. ASSUME NEW c \in Command, JobStep(c) PROVE FALSE
  <2>1. main' = main /\ job[c] # "idle"
    BY <1>2 DEF JobStep, Skip, PassCheck, EnterCommand, Succeed, Fail, CountError,
                Rethrow, Release, FinishJob
  <2> QED
    BY <2>1 DEF PushInv
<1>3. CASE TimeLimitPasses \/ Stop \/ Idle \/ UNCHANGED vars
  BY <1>3 DEF TimeLimitPasses, Stop, Idle, vars, PushInv
<1> QED
  BY <1>1, <1>2, <1>3 DEF Next

LEMMA PushStep == IInv /\ [Next]_vars => PushInv'
<1> SUFFICES ASSUME IInv, [Next]_vars PROVE PushInv'
  OBVIOUS
<1>1. main' = "start" => \A c \in Command : job'[c] = "idle"
  BY StartStep
<1>2. CASE \A c, d \in Command : ~Release(c, d)
  <2>1. /\ deps' = deps
        /\ \A d \in Command : Pending(d)' = Pending(d)
        /\ \A d \in Command : deps[d] # {} => (job'[d] = "idle" <=> job[d] = "idle")
    BY <1>2, QuietStep DEF Pending
  <2>2. \A y \in Command : (\A x \in deps[y] : CountedDown(x, y)) <=> Pending(y) = {}
    BY DEF Pending
  <2>3. \A y \in Command : (\A x \in deps'[y] : CountedDown(x, y)') <=> Pending(y)' = {}
    BY DEF Pending
  <2> QED
    BY <1>1, <2>1, <2>2, <2>3 DEF IInv, PushInv
<1>3. ASSUME NEW c \in Command, NEW d \in Command, Release(c, d)
      PROVE  PushInv'
  <2>1. /\ c \in Pending(d) /\ job[d] = "idle"
        /\ IsLast(d) <=> Pending(d) = {c}
        /\ deps' = deps
        /\ Pending(d)' = Pending(d) \ {c}
        /\ \A y \in Command : y # d => Pending(y)' = Pending(y) /\ job'[y] = job[y]
    BY <1>3, LastRelease, ReleaseStep
  <2>2. \A y \in Command : (\A x \in deps[y] : CountedDown(x, y)) <=> Pending(y) = {}
    BY DEF Pending
  <2>3. \A y \in Command : (\A x \in deps'[y] : CountedDown(x, y)') <=> Pending(y)' = {}
    BY DEF Pending
  <2>4. job'[d] # "idle" <=> IsLast(d)
    BY <1>3, <2>1 DEF Release, IInv, Shape
  <2>5. job'[d] # "idle" <=> Pending(d)' = {}
    BY <2>1, <2>4
  <2>6. \A y \in Command : (deps[y] # {} /\ job'[y] # "idle")
                              <=> (deps[y] # {} /\ Pending(y)' = {})
    BY <2>1, <2>2, <2>5 DEF IInv, PushInv
  <2> QED
    BY <1>1, <2>1, <2>3, <2>6 DEF PushInv
<1> QED
  BY <1>2, <1>3

LEMMA CountersStep == IInv /\ [Next]_vars => CountersExact'
<1> SUFFICES ASSUME IInv, [Next]_vars PROVE CountersExact'
  OBVIOUS
<1>0. CountersExact <=> \A d \in Command : left[d] = Cardinality(Pending(d))
  BY DEF CountersExact, Pending
<1>1. CountersExact' <=> \A d \in Command : left'[d] = Cardinality(Pending(d)')
  BY DEF CountersExact, Pending
<1>2. CASE \A c, d \in Command : ~Release(c, d)
  <2>1. left' = left /\ \A d \in Command : Pending(d)' = Pending(d)
    BY <1>2, QuietStep DEF Pending
  <2> QED
    BY <1>0, <1>1, <2>1 DEF IInv
<1>3. ASSUME NEW c \in Command, NEW d \in Command, Release(c, d)
      PROVE  CountersExact'
  <2>1. /\ c \in Pending(d)
        /\ Pending(d)' = Pending(d) \ {c}
        /\ \A y \in Command : y # d => Pending(y)' = Pending(y)
    BY <1>3, LastRelease, ReleaseStep
  <2>2. left' = [left EXCEPT ![d] = @ - 1]
    BY <1>3 DEF Release, CountDown
  <2>3. Cardinality(Pending(d)') = Cardinality(Pending(d)) - 1
    BY <2>1, PendingFinite, FS_RemoveElement DEF IInv
  <2> QED
    BY <1>0, <1>1, <2>1, <2>2, <2>3 DEF IInv, Shape
<1> QED
  BY <1>2, <1>3

LEMMA RunningStep == IInv /\ [Next]_vars => RunningExact'
<1> SUFFICES ASSUME IInv, [Next]_vars PROVE RunningExact'
  OBVIOUS
<1> USE DEF IInv, Shape, RunningExact, Inside
<1>1. IsFiniteSet(Inside)
  BY CommandAssumption, FS_Subset
<1>2. CASE UNCHANGED running /\ Inside' = Inside
  BY <1>2
<1>3. CASE MainStep
  <2>1. UNCHANGED running /\ Inside' = Inside
    BY <1>3 DEF MainStep, workerVars, RejectPlan, PushRoots, PushInv, Snapshot,
                AllPerformed, WaitRound, WaitRunning, Return
  <2> QED
    BY <1>2, <2>1
<1>4. ASSUME NEW c \in Command, JobStep(c) PROVE RunningExact'
  <2>1. CASE EnterCommand(c)
    <3>1. c \notin Inside /\ Inside' = Inside \cup {c} /\ running' = running + 1
      BY <2>1 DEF EnterCommand, RunningUp
    <3> QED
      BY <1>1, <3>1, FS_AddElement
  <2>2. CASE Succeed(c) \/ Fail(c)
    <3>1. c \in Inside /\ Inside' = Inside \ {c} /\ running' = running - 1
      BY <2>2 DEF Succeed, Fail, RunningDown
    <3>2. Cardinality(Inside \ {c}) = Cardinality(Inside) - 1
      <4> HIDE DEF Inside
      <4> QED
        BY <1>1, <3>1, FS_RemoveElement
    <3> QED
      <4> HIDE DEF Inside
      <4> QED
        BY <3>1, <3>2
  <2>3. ASSUME NEW d \in Command, Release(c, d) PROVE RunningExact'
    <3>1. job[d] = "idle"
      BY <2>3, LastRelease
    <3>2. UNCHANGED running /\ Inside' = Inside
      BY <2>3, <3>1 DEF Release
    <3> QED
      BY <1>2, <3>2
  <2>4. CASE Skip(c) \/ PassCheck(c) \/ CountError(c) \/ Rethrow(c) \/ FinishJob(c)
    <3>1. UNCHANGED running /\ Inside' = Inside
      BY <2>4 DEF Skip, PassCheck, CountError, Rethrow, FinishJob
    <3> QED
      BY <1>2, <3>1
  <2> QED
    BY <1>4, <2>1, <2>2, <2>3, <2>4 DEF JobStep
<1>5. CASE TimeLimitPasses \/ Stop \/ Idle \/ UNCHANGED vars
  <2>1. UNCHANGED running /\ Inside' = Inside
    BY <1>5 DEF TimeLimitPasses, Stop, Idle, vars, workerVars
  <2> QED
    BY <1>2, <2>1
<1> QED
  BY <1>3, <1>4, <1>5 DEF Next
-----------------------------------------------------------------------------
(* The strengthening is inductive: counters, stations and pushes support   *)
(* each other, none of them is preserved alone.                            *)
THEOREM InductiveInvariant == Spec => []IInv
<1>1. IInv /\ [Next]_vars => IInv'
  BY ShapeStep, StationStep, PushStep, CountersStep, RunningStep DEF IInv
<1> QED
  BY InitInv, <1>1, PTL DEF Spec

(* The variables keep their types; dependencies_left and running in        *)
(* particular, decremented by many threads, are never negative.            *)
THEOREM TypeCorrect == Spec => []TypeOK
<1>1. IInv => TypeOK
  <2> SUFFICES ASSUME IInv PROVE TypeOK
    OBVIOUS
  <2>1. \A d \in Command : left[d] \in Nat
    BY PendingFinite DEF IInv, CountersExact, Pending
  <2>2. running \in Nat
    <3>1. Inside \in SUBSET Command
      BY DEF Inside
    <3> QED
      BY <3>1, CommandAssumption, FS_Subset, FS_CardinalityType DEF IInv, RunningExact
  <2>3. left \in [Command -> Nat]
    BY <2>1 DEF IInv, Shape
  <2> QED
    BY <2>2, <2>3 DEF IInv, Shape, TypeOK
<1> QED
  BY <1>1, InductiveInvariant, PTL

(* dependencies_left of a command is the number of its dependencies that   *)
(* have not counted it down.                                               *)
THEOREM CountersAreExact == Spec => []CountersExact
<1>1. IInv => CountersExact
  BY DEF IInv
<1> QED
  BY <1>1, InductiveInvariant, PTL

(* A command gets its job only after all commands it depends on were       *)
(* performed, in every plan and with any number of threads.                *)
THEOREM DependenciesFirst == Spec => []DependencyOrder
<1>1. IInv => DependencyOrder
  BY DEF IInv, PushInv, DependencyOrder, CountedDown
<1> QED
  BY <1>1, InductiveInvariant, PTL

(* No job of a command is pushed twice and no result changes.              *)
THEOREM CommandsPerformedOnce == Spec => PerformedOnce
<1>1. IInv /\ [Next]_vars =>
        [\A c \in Command :
           /\ job'[c] = "queued" => job[c] \in {"idle", "queued"}
           /\ exit[c] # "none" => exit'[c] = exit[c]]_vars
  <2> SUFFICES ASSUME IInv, [Next]_vars, NEW c \in Command
               PROVE  /\ job'[c] = "queued" => job[c] \in {"idle", "queued"}
                      /\ exit[c] # "none" => exit'[c] = exit[c]
    OBVIOUS
  <2> USE DEF IInv, Shape, JobState, workerVars, mainVars
  <2>1. CASE MainStep
    BY <2>1 DEF MainStep, RejectPlan, PushRoots, PushInv, Snapshot, AllPerformed,
                WaitRound, WaitRunning, Return
  <2>2. ASSUME NEW b \in Command, JobStep(b)
        PROVE  /\ job'[c] = "queued" => job[c] \in {"idle", "queued"}
               /\ exit[c] # "none" => exit'[c] = exit[c]
    <3>1. CASE Skip(b) \/ PassCheck(b) \/ EnterCommand(b) \/ CountError(b)
                 \/ Rethrow(b) \/ FinishJob(b)
      BY <3>1 DEF Skip, PassCheck, EnterCommand, CountError, Rethrow, FinishJob
    <3>2. CASE Succeed(b) \/ Fail(b)
      BY <3>2 DEF Succeed, Fail, StationInv
    <3>3. ASSUME NEW d \in Command, Release(b, d)
          PROVE  /\ job'[c] = "queued" => job[c] \in {"idle", "queued"}
                 /\ exit[c] # "none" => exit'[c] = exit[c]
      BY <3>3, LastRelease DEF Release
    <3> QED
      BY <2>2, <3>1, <3>2, <3>3 DEF JobStep
  <2>3. CASE TimeLimitPasses \/ Stop \/ Idle \/ UNCHANGED vars
    BY <2>3 DEF TimeLimitPasses, Stop, Idle, vars
  <2> QED
    BY <2>1, <2>2, <2>3 DEF Next
<1> QED
  BY <1>1, InductiveInvariant, PTL DEF Spec, PerformedOnce
-----------------------------------------------------------------------------
(* The bookkeeping of the main thread. An empty round can only follow from  *)
(* the end of all jobs: who could push another is itself in fs or fs2.      *)
LoopInv ==
  /\ FuturesTracked
  /\ fs \cup fs2 \subseteq Pushed
  /\ main = "loop" => fs2 = {}
  /\ main = "wait" /\ fs2 = {} => fs = {}
  /\ QuietUnlessStopped

LEMMA Finite ==
  ASSUME NEW S \in SUBSET Command
  PROVE  IsFiniteSet(S) /\ Cardinality(S) \in Nat /\ Cardinality(S) <= Cardinality(Command)
  BY CommandAssumption, FS_Subset, FS_CardinalityType

(* Nothing is pushed before the start. *)
LEMMA BeforeStart ==
  ASSUME IInv, LoopInv, main = "start"
  PROVE  Pushed = {} /\ fs = {} /\ fs2 = {} /\ waited = 0
<1>1. Pushed = {}
  BY DEF IInv, PushInv, Pushed
<1>2. fs = {} /\ fs2 = {}
  BY <1>1 DEF LoopInv
<1> QED
  BY <1>1, <1>2, FS_EmptySet DEF LoopInv, FuturesTracked, IInv, Shape

LEMMA InitLoop == Init => LoopInv
<1> SUFFICES ASSUME Init PROVE LoopInv
  OBVIOUS
<1>1. Pushed = {} /\ fs = {} /\ fs2 = {} /\ waited = 0
  BY DEF Init, Pushed
<1>2. FuturesTracked
  BY <1>1, FS_EmptySet DEF FuturesTracked
<1> QED
  BY <1>1, <1>2 DEF LoopInv, QuietUnlessStopped, Init

(* A step that pushes nothing and takes no future.                          *)
LEMMA KeepsFutures ==
  ASSUME IInv, LoopInv, UNCHANGED <<fs, fs2, waited, main>>,
         \A c \in Command : job'[c] = "idle" <=> job[c] = "idle",
         \A c \in Command : job[c] \in {"idle", "done"} => job'[c] \in {"idle", "done"},
         stopped => stopped', interrupted => interrupted'
  PROVE  LoopInv'
<1>1. Pushed' = Pushed
  BY DEF Pushed
<1>2. FuturesTracked'
  BY <1>1 DEF LoopInv, FuturesTracked, Pushed
<1>3. QuietUnlessStopped'
  BY DEF LoopInv, QuietUnlessStopped
<1> QED
  BY <1>1, <1>2, <1>3 DEF LoopInv

LEMMA LoopStep == IInv /\ LoopInv /\ [Next]_vars => LoopInv'
<1> SUFFICES ASSUME IInv, LoopInv, [Next]_vars PROVE LoopInv'
  OBVIOUS
<1> USE DEF IInv, Shape, workerVars, mainVars
<1>1. CASE RejectPlan
  <2>1. \A c \in Command : job[c] = "idle"
    BY <1>1 DEF RejectPlan, PushInv
  <2>2. Pushed' = Pushed
    BY <1>1 DEF RejectPlan, Pushed
  <2> QED
    BY <1>1, <2>1, <2>2 DEF RejectPlan, LoopInv, FuturesTracked, QuietUnlessStopped, Pushed
<1>2. CASE PushRoots
  <2>1. Pushed = {} /\ fs2 = {} /\ waited = 0
    BY <1>2, BeforeStart DEF PushRoots
  <2>2. fs' = Pushed' /\ fs2' = {} /\ waited' = 0
    BY <1>2, <2>1 DEF PushRoots, Pushed
  <2>3. Cardinality(Pushed') \in Nat
    BY Finite DEF Pushed
  <2>4. FuturesTracked'
    BY <2>2, <2>3, FS_EmptySet DEF FuturesTracked
  <2> QED
    BY <1>2, <2>2, <2>4 DEF PushRoots, LoopInv, QuietUnlessStopped
<1>3. CASE Snapshot
  <2>1. fs2 = {} /\ fs2' = fs /\ fs' = {} /\ Pushed' = Pushed
    BY <1>3 DEF Snapshot, LoopInv, Pushed
  <2>2. FuturesTracked'
    <3>1. waited' + Cardinality(fs') + Cardinality(fs2') = Cardinality(Pushed')
      BY <1>3, <2>1, Finite, FS_EmptySet DEF Snapshot, LoopInv, FuturesTracked
    <3>2. {c \in Pushed' : job'[c] # "done"} \subseteq fs' \cup fs2'
      BY <1>3, <2>1 DEF Snapshot, LoopInv, FuturesTracked
    <3> QED
      BY <2>1, <3>1, <3>2 DEF FuturesTracked
  <2> QED
    BY <1>3, <2>1, <2>2 DEF Snapshot, LoopInv, QuietUnlessStopped
<1>4. CASE AllPerformed
  <2>1. Pushed' = Pushed
    BY <1>4 DEF AllPerformed, Pushed
  <2>2. /\ IsFiniteSet(fs) /\ Cardinality(fs) \in Nat /\ Cardinality(fs2) \in Nat
        /\ Cardinality(Pushed) \in Nat /\ Cardinality(Pushed) <= Cardinality(Command)
        /\ Cardinality(Command) \in Nat
    BY Finite DEF Pushed
  <2>3. Cardinality(fs) = 0
    BY <1>4, <2>2 DEF AllPerformed, LoopInv, FuturesTracked
  <2>4. fs = {} /\ fs2 = {}
    BY <1>4, <2>2, <2>3, FS_EmptySet DEF AllPerformed, LoopInv
  <2>5. \A c \in Command : job[c] \in {"idle", "done"}
    BY <2>4 DEF LoopInv, FuturesTracked, Pushed
  <2>6. FuturesTracked' /\ QuietUnlessStopped'
    BY <1>4, <2>1, <2>5 DEF AllPerformed, LoopInv, FuturesTracked, QuietUnlessStopped
  <2> QED
    BY <1>4, <2>1, <2>6 DEF AllPerformed, LoopInv
<1>5. CASE WaitRound
  <2>1. Pushed' = Pushed /\ fs' = fs /\ fs2' = {} /\ waited' = waited + Cardinality(fs2)
    BY <1>5 DEF WaitRound, Pushed
  <2>2. Cardinality(fs) \in Nat /\ Cardinality(fs2) \in Nat /\ Cardinality(fs2') = 0
    BY <2>1, Finite, FS_EmptySet
  <2>3. \A c \in Pushed : job[c] # "done" => c \in fs
    BY <1>5 DEF WaitRound, LoopInv, FuturesTracked
  <2>4. FuturesTracked'
    BY <1>5, <2>1, <2>2, <2>3 DEF WaitRound, LoopInv, FuturesTracked, Pushed
  <2>5. QuietUnlessStopped'
    <3>1. CASE fs2 = {}
      BY <1>5, <2>3, <3>1 DEF WaitRound, LoopInv, QuietUnlessStopped, Pushed
    <3>2. CASE fs2 # {}
      BY <1>5, <3>2 DEF WaitRound, LeavesLoop, QuietUnlessStopped
    <3> QED
      BY <3>1, <3>2
  <2> QED
    BY <1>5, <2>1, <2>4, <2>5 DEF WaitRound, LoopInv
<1>6. CASE WaitRunning \/ Return
  <2>1. Pushed' = Pushed
    BY <1>6 DEF WaitRunning, Return, Pushed
  <2> QED
    BY <1>6, <2>1 DEF WaitRunning, Return, LoopInv, FuturesTracked, QuietUnlessStopped, Pushed
<1>7. ASSUME NEW c \in Command, JobStep(c) PROVE LoopInv'
  <2>1. CASE Skip(c) \/ PassCheck(c) \/ EnterCommand(c) \/ Succeed(c) \/ Fail(c)
             \/ Rethrow(c) \/ FinishJob(c)
    BY <2>1, KeepsFutures
    DEF Skip, PassCheck, EnterCommand, Succeed, Fail, Rethrow, FinishJob
  <2>2. CASE CountError(c)
    BY <2>2, KeepsFutures DEF CountError
  <2>3. ASSUME NEW d \in Command, Release(c, d) PROVE LoopInv'
    <3>1. c \in fs \cup fs2 /\ job[c] = "releasing" /\ job[d] = "idle"
      BY <2>3, LastRelease DEF Release, LoopInv, FuturesTracked, Pushed
    <3>2. CASE ~IsLast(d)
      BY <2>3, <3>2, KeepsFutures DEF Release
    <3>3. CASE IsLast(d)
      <4>1. /\ fs' = fs \cup {d} /\ job' = [job EXCEPT ![d] = "queued"]
            /\ UNCHANGED <<fs2, waited, main, stopped, interrupted>>
        BY <2>3, <3>3 DEF Release, AddFuture
      <4>2. Pushed' = Pushed \cup {d} /\ d \notin Pushed
        BY <3>1, <4>1 DEF Pushed
      <4>3. d \notin fs /\ d \notin fs2
        BY <4>2 DEF LoopInv
      <4>4. /\ Cardinality(fs') = Cardinality(fs) + 1
            /\ Cardinality(Pushed') = Cardinality(Pushed) + 1
            /\ Cardinality(fs) \in Nat /\ Cardinality(fs2) \in Nat /\ Cardinality(Pushed) \in Nat
        <5>1. Pushed \in SUBSET Command
          BY DEF Pushed
        <5> QED
          BY <4>1, <4>2, <4>3, <5>1, Finite, FS_AddElement
      <4>5. FuturesTracked'
        <5>1. {b \in Pushed' : job'[b] # "done"} \subseteq fs' \cup fs2'
          BY <4>1, <4>2 DEF LoopInv, FuturesTracked
        <5>2. fs' \cap fs2' = {}
          BY <4>1, <4>3 DEF LoopInv, FuturesTracked
        <5>3. waited' + Cardinality(fs') + Cardinality(fs2') = Cardinality(Pushed')
          BY <4>1, <4>4 DEF LoopInv, FuturesTracked
        <5> QED
          BY <5>1, <5>2, <5>3 DEF FuturesTracked
      <4>6. QuietUnlessStopped'
        BY <3>1, <4>1 DEF LoopInv, QuietUnlessStopped
      <4> QED
        BY <3>1, <4>1, <4>2, <4>5, <4>6 DEF LoopInv
    <3> QED
      BY <3>2, <3>3
  <2> QED
    BY <1>7, <2>1, <2>2, <2>3 DEF JobStep
<1>8. CASE TimeLimitPasses \/ Stop \/ Idle \/ UNCHANGED vars
  BY <1>8, KeepsFutures DEF TimeLimitPasses, Stop, Idle, vars
<1> QED
  BY <1>1, <1>2, <1>3, <1>4, <1>5, <1>6, <1>7, <1>8 DEF Next, MainStep

(* When the main thread finds a round empty, or has counted all commands,   *)
(* no job is left that could push another, in every plan and with any       *)
(* number of threads; jobs are left behind only by a stop.                  *)
THEOREM LoopEndIsEndOfWork == Spec => []LoopEndsWork
<1>1. IInv /\ LoopInv /\ [Next]_vars => LoopInv'
  BY LoopStep
<1>2. LoopInv => LoopEndsWork
  BY DEF LoopInv, LoopEndsWork
<1> QED
  BY InductiveInvariant, InitLoop, <1>1, <1>2, PTL DEF Spec
-----------------------------------------------------------------------------
Failed == \E c \in Command : exit[c] = "error"

(* A job is skipped for a cause: the time limit, stop(), or a failure.      *)
CauseInv ==
  /\ outcome # "none" => main = "returned"
  /\ stopped => late \/ Failed
  /\ main \in {"loop", "wait", "drain", "gather"} /\ ~interrupted =>
       \A c \in Command : job[c] = "done" /\ exit[c] = "none" => stopped
  /\ main = "start" => ~stopped /\ \A c \in Command : job[c] = "idle"

LEMMA InitCause == Init => CauseInv
  BY DEF Init, CauseInv

LEMMA CauseStep == IInv /\ CauseInv /\ [Next]_vars => CauseInv'
<1> SUFFICES ASSUME IInv, CauseInv, [Next]_vars PROVE CauseInv'
  OBVIOUS
<1> USE DEF IInv, Shape, CauseInv, workerVars, mainVars
<1>1. CASE RejectPlan
  BY <1>1 DEF RejectPlan, Failed
<1>2. CASE PushRoots
  BY <1>2 DEF PushRoots, Failed
<1>3. CASE Snapshot \/ AllPerformed \/ WaitRound \/ WaitRunning
  BY <1>3 DEF Snapshot, AllPerformed, WaitRound, WaitRunning, Failed
<1>4. CASE Return
  BY <1>4 DEF Return, Failed
<1>5. ASSUME NEW c \in Command, JobStep(c) PROVE CauseInv'
  <2>1. CASE Skip(c)
    BY <2>1 DEF Skip, Failed
  <2>2. CASE PassCheck(c) \/ EnterCommand(c)
    BY <2>2 DEF PassCheck, EnterCommand, Failed
  <2>3. CASE Succeed(c)
    <3>1. Failed' <=> Failed
      BY <2>3 DEF Succeed, Failed, StationInv
    <3> QED
      BY <2>3, <3>1 DEF Succeed
  <2>4. CASE Fail(c)
    <3>1. Failed'
      BY <2>4 DEF Fail, Failed
    <3> QED
      BY <2>4, <3>1 DEF Fail
  <2>5. CASE CountError(c)
    <3>1. Failed' /\ exit' = exit
      BY <2>5 DEF CountError, Failed, StationInv
    <3> QED
      BY <2>5, <3>1 DEF CountError
  <2>6. CASE Rethrow(c)
    <3>1. Failed' /\ exit' = exit /\ exit[c] = "error"
      BY <2>6 DEF Rethrow, Failed, StationInv
    <3> QED
      BY <2>6, <3>1 DEF Rethrow
  <2>7. ASSUME NEW d \in Command, Release(c, d) PROVE CauseInv'
    <3>1. job[d] = "idle"
      BY <2>7, LastRelease
    <3> QED
      BY <2>7, <3>1 DEF Release, Failed
  <2>8. CASE FinishJob(c)
    <3>1. exit[c] # "none"
      BY <2>8 DEF FinishJob, StationInv, Performed
    <3> QED
      BY <2>8, <3>1 DEF FinishJob, Failed
  <2> QED
    BY <1>5, <2>1, <2>2, <2>3, <2>4, <2>5, <2>6, <2>7, <2>8 DEF JobStep
<1>6. CASE TimeLimitPasses \/ Stop \/ Idle \/ UNCHANGED vars
  BY <1>6 DEF TimeLimitPasses, Stop, Idle, vars, Failed
<1> QED
  BY <1>1, <1>2, <1>3, <1>4, <1>5, <1>6 DEF Next, MainStep
-----------------------------------------------------------------------------
(* When the counter i has reached the number of commands every job ended.   *)
LEMMA AllEnded ==
  ASSUME IInv, LoopInv, waited = Cardinality(Command)
  PROVE  \A c \in Command : job[c] = "done"
<1>1. Pushed \in SUBSET Command /\ fs \in SUBSET Command /\ fs2 \in SUBSET Command
  BY DEF Pushed, IInv, Shape
<1>2. /\ IsFiniteSet(fs) /\ IsFiniteSet(fs2) /\ IsFiniteSet(Pushed)
      /\ Cardinality(fs) \in Nat /\ Cardinality(fs2) \in Nat
      /\ Cardinality(Pushed) \in Nat /\ Cardinality(Pushed) <= Cardinality(Command)
      /\ Cardinality(Command) \in Nat
  BY <1>1, Finite
<1>3. /\ Cardinality(fs) = 0 /\ Cardinality(fs2) = 0
      /\ Cardinality(Pushed) = Cardinality(Command)
  BY <1>2 DEF LoopInv, FuturesTracked
<1>4. fs = {} /\ fs2 = {}
  BY <1>2, <1>3, FS_EmptySet
<1>5. Pushed = Command
  BY <1>1, <1>3, CommandAssumption, FS_Subset
<1> QED
  BY <1>4, <1>5 DEF LoopInv, FuturesTracked, Pushed

(* A build that nobody disturbed is called good only when it is.            *)
LEMMA VerdictIsTrue ==
  ASSUME IInv, LoopInv, CauseInv, Return, ~disturbedBar, resultBar' = "ok"
  PROVE  \/ \A c \in Command : statusBar[c] = "succeeded"
         \/ ~throw_on_errors /\ \E c \in Command : statusBar[c] = "failed"
<1>1. waited = Cardinality(Command) /\ Exceptions = {}
  BY DEF Return, Conclusion, resultBar
<1>2. \A c \in Command : job[c] = "done"
  BY <1>1, AllEnded
<1>3. main = "gather" /\ outcome = "none"
  BY DEF Return, CauseInv
<1>4. ~late /\ ~interrupted
  BY <1>3 DEF disturbedBar
<1>5. CASE Failed
  <2>1. PICK c \in Command : exit[c] = "error"
    BY <1>5 DEF Failed
  <2>2. ~throw_on_errors
    BY <1>1, <1>2, <2>1 DEF Exceptions
  <2>3. statusBar[c] = "failed"
    BY <2>1 DEF statusBar
  <2> QED
    BY <2>2, <2>3
<1>6. CASE ~Failed
  <2>1. \A c \in Command : exit[c] = "ok"
    BY <1>2, <1>3, <1>4, <1>6 DEF CauseInv, Failed, IInv, Shape
  <2> QED
    BY <2>1 DEF statusBar
<1> QED
  BY <1>5, <1>6
-----------------------------------------------------------------------------
(* The errors counted so far are the ones taken from askip_errors. *)
Counted == {c \in Command : exit[c] = "error" /\ job[c] # "failed"}

BudgetInv == askip_errors = SkipErrors - Cardinality(Counted) /\ ErrorBudget

LEMMA BudgetDefinition ==
  ErrorBudget <=>
    LET spent == Cardinality(Counted) > 0 /\ Cardinality(Counted) >= SkipErrors
    IN  (spent => stopped) /\ (stopped => spent \/ late)
  BY DEF ErrorBudget, Counted

LEMMA InitBudget == Init => BudgetInv
<1> SUFFICES ASSUME Init PROVE BudgetInv
  OBVIOUS
<1>1. Counted = {}
  BY DEF Init, Counted
<1>2. Cardinality(Counted) = 0
  BY <1>1, FS_EmptySet
<1> QED
  BY <1>2, BudgetDefinition, OptionsAssumption DEF Init, BudgetInv

(* Steps that count no error; the time limit may be looked at.              *)
LEMMA KeepsBudget ==
  ASSUME IInv, BudgetInv, Counted' = Counted, askip_errors' = askip_errors,
         late => late', stopped' = stopped \/ stopped' = (stopped \/ late)
  PROVE  BudgetInv'
<1>1. stopped' \in BOOLEAN /\ (stopped => stopped') /\ (stopped' => stopped \/ late')
  BY DEF IInv, Shape
<1> QED
  BY <1>1, BudgetDefinition DEF BudgetInv, ErrorBudget, Counted

LEMMA BudgetStep == IInv /\ BudgetInv /\ [Next]_vars => BudgetInv'
<1> SUFFICES ASSUME IInv, BudgetInv, [Next]_vars PROVE BudgetInv'
  OBVIOUS
<1> USE DEF workerVars, mainVars
<1>1. CASE MainStep
  <2>1. UNCHANGED <<exit, stopped, late, askip_errors>>
    BY <1>1 DEF MainStep, RejectPlan, PushRoots, Snapshot, AllPerformed, WaitRound,
                WaitRunning, Return
  <2>2. \A c \in Command : job'[c] = "failed" <=> job[c] = "failed"
    <3>1. CASE PushRoots
      BY <3>1 DEF PushRoots, IInv, PushInv, Shape
    <3>2. CASE ~PushRoots
      BY <1>1, <3>2 DEF MainStep, RejectPlan, Snapshot, AllPerformed, WaitRound,
                        WaitRunning, Return
    <3> QED
      BY <3>1, <3>2
  <2>3. Counted' = Counted
    BY <2>1, <2>2 DEF Counted
  <2> QED
    BY <2>1, <2>3, KeepsBudget
<1>2. ASSUME NEW c \in Command, JobStep(c) PROVE BudgetInv'
  <2>1. CASE Skip(c) \/ PassCheck(c) \/ EnterCommand(c) \/ Rethrow(c) \/ FinishJob(c)
    <3>1. /\ UNCHANGED <<exit, late, askip_errors>>
          /\ stopped' = stopped \/ stopped' = (stopped \/ late)
      BY <2>1 DEF Skip, PassCheck, EnterCommand, Rethrow, FinishJob
    <3>2. \A d \in Command : job'[d] = "failed" <=> job[d] = "failed"
      BY <2>1 DEF Skip, PassCheck, EnterCommand, Rethrow, FinishJob, IInv, Shape
    <3>3. Counted' = Counted
      BY <3>1, <3>2 DEF Counted
    <3> QED
      BY <3>1, <3>3, KeepsBudget
  <2>2. CASE Succeed(c) \/ Fail(c)
    <3>1. UNCHANGED <<stopped, late, askip_errors>> /\ exit[c] = "none"
      BY <2>2 DEF Succeed, Fail, IInv, StationInv
    <3>2. /\ \A d \in Command \ {c} : job'[d] = job[d] /\ exit'[d] = exit[d]
          /\ exit'[c] # "error" \/ job'[c] = "failed"
      BY <2>2 DEF Succeed, Fail, IInv, Shape
    <3>3. Counted' = Counted
      BY <3>1, <3>2 DEF Counted
    <3> QED
      BY <3>1, <3>3, KeepsBudget
  <2>3. CASE CountError(c)
    <3>1. /\ job[c] = "failed" /\ exit' = exit /\ late' = late /\ exit[c] = "error"
          /\ askip_errors' = askip_errors - 1
          /\ stopped' = (stopped \/ askip_errors - 1 < 1)
      BY <2>3 DEF CountError, Exhausted, IInv, StationInv
    <3>2. job'[c] # "failed" /\ \A d \in Command \ {c} : job'[d] = job[d]
      BY <2>3 DEF CountError, IInv, Shape
    <3>3. Counted' = Counted \cup {c} /\ c \notin Counted /\ Counted \in SUBSET Command
      BY <3>1, <3>2 DEF Counted
    <3>4. Cardinality(Counted') = Cardinality(Counted) + 1 /\ Cardinality(Counted) \in Nat
      BY <3>3, Finite, FS_AddElement
    <3>5. askip_errors' = SkipErrors - Cardinality(Counted')
      BY <3>1, <3>4, OptionsAssumption DEF BudgetInv
    <3>6. ErrorBudget'
      <4> DEFINE n == Cardinality(Counted)
                 m == Cardinality(Counted')
      <4>1. ErrorBudget' <=>
              /\ m > 0 /\ m >= SkipErrors => stopped'
              /\ stopped' => (m > 0 /\ m >= SkipErrors) \/ late'
        BY DEF ErrorBudget, Counted
      <4>2. /\ n > 0 /\ n >= SkipErrors => stopped
            /\ stopped => (n > 0 /\ n >= SkipErrors) \/ late
        BY BudgetDefinition DEF BudgetInv
      <4>3. m = n + 1 /\ n \in Nat /\ askip_errors = SkipErrors - n /\ SkipErrors \in Int
        BY <3>4, OptionsAssumption DEF BudgetInv
      <4>4. stopped \in BOOLEAN /\ (stopped' <=> stopped \/ SkipErrors - n - 1 < 1)
        BY <3>1, <4>3 DEF IInv, Shape
      <4> HIDE DEF n, m
      <4>5. m > 0 /\ (m >= SkipErrors <=> SkipErrors - n - 1 < 1) /\ (n >= SkipErrors => m >= SkipErrors)
        BY <4>3
      <4> QED
        BY <3>1, <4>1, <4>2, <4>4, <4>5
    <3> QED
      BY <3>5, <3>6 DEF BudgetInv
  <2>4. ASSUME NEW d \in Command, Release(c, d) PROVE BudgetInv'
    <3>1. job[d] = "idle" /\ exit[d] = "none"
      BY <2>4, LastRelease DEF IInv, StationInv
    <3>2. UNCHANGED <<exit, stopped, late, askip_errors>>
      BY <2>4 DEF Release
    <3>3. \A b \in Command \ {d} : job'[b] = job[b]
      BY <2>4 DEF Release, IInv, Shape
    <3>4. Counted' = Counted
      BY <3>1, <3>2, <3>3 DEF Counted
    <3> QED
      BY <3>2, <3>4, KeepsBudget
  <2> QED
    BY <1>2, <2>1, <2>2, <2>3, <2>4 DEF JobStep
<1>3. CASE TimeLimitPasses \/ Stop \/ Idle \/ UNCHANGED vars
  <2>1. UNCHANGED <<job, exit, stopped, askip_errors>> /\ (late => late')
    BY <1>3 DEF TimeLimitPasses, Stop, Idle, vars
  <2>2. Counted' = Counted
    BY <2>1 DEF Counted
  <2> QED
    BY <2>1, <2>2, KeepsBudget
<1> QED
  BY <1>1, <1>2, <1>3 DEF Next
-----------------------------------------------------------------------------
(* The plan that is performed is valid, what has no dependencies was pushed, *)
(* and the loop is not left, unless a stop was asked for, while a future     *)
(* waits.                                                                    *)
WorkInv ==
  /\ main \in {"loop", "wait", "drain", "gather"} =>
       IsValid /\ \A c \in Command : deps[c] = {} => job[c] # "idle"
  /\ main \in {"drain", "gather"} /\ ~stopped /\ ~interrupted => fs = {} /\ fs2 = {}

LEMMA InitWork == Init => WorkInv
  BY DEF Init, WorkInv

LEMMA WorkStep == IInv /\ LoopInv /\ WorkInv /\ [Next]_vars => WorkInv'
<1> SUFFICES ASSUME IInv, LoopInv, WorkInv, [Next]_vars PROVE WorkInv'
  OBVIOUS
<1> USE DEF workerVars, mainVars
<1>0. deps' = deps
  BY PlanKept
<1>1. IsValid' <=> IsValid
  BY <1>0 DEF IsValid
<1>2. CASE RejectPlan \/ Return
  BY <1>2 DEF RejectPlan, Return, WorkInv
<1>3. CASE PushRoots
  BY <1>0, <1>1, <1>3 DEF PushRoots, WorkInv
<1>4. CASE Snapshot
  BY <1>0, <1>1, <1>4 DEF Snapshot, WorkInv
<1>5. CASE AllPerformed
  <2>1. Cardinality(fs) = 0 /\ fs2 = {}
    <3>1. /\ Cardinality(fs) \in Nat /\ Cardinality(fs2) \in Nat
          /\ Cardinality(Pushed) \in Nat /\ Cardinality(Pushed) <= Cardinality(Command)
          /\ Cardinality(Command) \in Nat
      BY Finite DEF Pushed, IInv, Shape
    <3> QED
      BY <1>5, <3>1 DEF AllPerformed, LoopInv, FuturesTracked
  <2>2. fs = {}
    BY <2>1, Finite, FS_EmptySet DEF IInv, Shape
  <2> QED
    BY <1>0, <1>1, <1>5, <2>1, <2>2 DEF AllPerformed, WorkInv
<1>6. CASE WaitRound
  BY <1>0, <1>1, <1>6 DEF WaitRound, LeavesLoop, WorkInv, LoopInv
<1>7. CASE WaitRunning
  BY <1>0, <1>1, <1>7 DEF WaitRunning, WorkInv
<1>8. ASSUME NEW c \in Command, JobStep(c) PROVE WorkInv'
  <2>1. UNCHANGED <<main, fs2, interrupted>> /\ (stopped => stopped')
    BY <1>8 DEF JobStep, Skip, PassCheck, EnterCommand, Succeed, Fail, CountError, Rethrow,
                Release, FinishJob, IInv, Shape
  <2>2. \A d \in Command : job[d] # "idle" => job'[d] # "idle"
    BY <1>8 DEF JobStep, Skip, PassCheck, EnterCommand, Succeed, Fail, CountError, Rethrow,
                Release, FinishJob, IInv, Shape
  <2>3. main \in {"drain", "gather"} /\ ~stopped /\ ~interrupted => fs' = fs
    <3>1. main \in {"drain", "gather"} /\ ~stopped /\ ~interrupted => job[c] \in {"idle", "done"}
      BY DEF LoopInv, QuietUnlessStopped
    <3> QED
      BY <1>8, <3>1 DEF JobStep, Skip, PassCheck, EnterCommand, Succeed, Fail, CountError,
                        Rethrow, Release, FinishJob
  <2> QED
    BY <1>0, <1>1, <2>1, <2>2, <2>3 DEF WorkInv, IInv, Shape
<1>9. CASE TimeLimitPasses \/ Stop \/ Idle \/ UNCHANGED vars
  <2>1. UNCHANGED <<main, job, fs, fs2, stopped>> /\ (interrupted => interrupted')
    BY <1>9 DEF TimeLimitPasses, Stop, Idle, vars
  <2> QED
    BY <1>0, <1>1, <2>1 DEF WorkInv
<1> QED
  BY <1>2, <1>3, <1>4, <1>5, <1>6, <1>7, <1>8, <1>9 DEF Next, MainStep

(* When nothing failed and nothing stopped the build, the end of the loop is *)
(* the end of the plan: a command that was not pushed would have to wait for *)
(* another that was not, in a valid plan.                                    *)
LEMMA NothingLeft ==
  ASSUME IInv, LoopInv, CauseInv, WorkInv, main = "gather", ~stopped, ~interrupted, ~Failed
  PROVE  waited = Cardinality(Command)
<1> DEFINE S == {c \in Command : job[c] = "idle"}
<1>1. \A c \in Command : job[c] \in {"idle", "done"}
  BY DEF LoopInv, QuietUnlessStopped
<1>2. \A c \in Command : job[c] = "done" => exit[c] = "ok" /\ releases[c] = {}
  BY DEF CauseInv, Failed, IInv, Shape, StationInv
<1>3. S = {}
  <2> SUFFICES ASSUME S # {} PROVE FALSE
    OBVIOUS
  <2>1. PICK c \in S : deps[c] \cap S = {}
    BY DEF WorkInv, IsValid
  <2>2. deps[c] # {}
    BY <2>1 DEF WorkInv
  <2>3. \A d \in deps[c] : CountedDown(d, c)
    BY <1>1, <1>2, <2>1 DEF CountedDown, Performed, IInv, Shape
  <2> QED
    BY <2>1, <2>2, <2>3 DEF IInv, PushInv
<1>4. Pushed = Command /\ fs = {} /\ fs2 = {}
  BY <1>3 DEF Pushed, WorkInv
<1> QED
  BY <1>4, FS_EmptySet DEF LoopInv, FuturesTracked, IInv, Shape

VerdictInv == SuccessUndisturbed /\ IncompleteHasCause

LEMMA VerdictStep ==
  IInv /\ LoopInv /\ CauseInv /\ WorkInv /\ VerdictInv /\ [Next]_vars => VerdictInv'
<1> SUFFICES ASSUME IInv, LoopInv, CauseInv, WorkInv, VerdictInv, [Next]_vars
             PROVE  VerdictInv'
  OBVIOUS
<1>0. throw_on_errors' = throw_on_errors
  BY PlanKept
<1> USE <1>0 DEF workerVars, mainVars
<1>1. CASE Return
  <2>1. main = "gather" /\ UNCHANGED <<exit, stopped, late, interrupted, waited>>
    BY <1>1 DEF Return
  <2>2. ASSUME outcome' = "ok", ~late, ~interrupted, throw_on_errors \/ ~stopped,
               NEW c \in Command
        PROVE  exit[c] # "none"
    <3>1. waited = Cardinality(Command) /\ Exceptions = {}
      BY <1>1, <2>2 DEF Return, Conclusion
    <3>2. \A d \in Command : job[d] = "done"
      BY <3>1, AllEnded
    <3>3. throw_on_errors => ~Failed
      BY <3>1, <3>2 DEF Exceptions, Failed
    <3>4. ~stopped
      BY <2>2, <3>3 DEF CauseInv
    <3> QED
      BY <2>1, <2>2, <3>2, <3>4 DEF CauseInv
  <2>3. ASSUME outcome' = "incomplete" PROVE Failed
    <3>1. waited # Cardinality(Command) /\ ~(late /\ stopped) /\ ~interrupted
      BY <1>1, <2>3 DEF Return, Conclusion
    <3> QED
      BY <2>1, <3>1, NothingLeft DEF CauseInv
  <2> QED
    BY <2>1, <2>2, <2>3
    DEF VerdictInv, SuccessUndisturbed, SuccessMeansAllExecuted, IncompleteHasCause, Failed
<1>2. CASE RejectPlan
  BY <1>2 DEF RejectPlan, VerdictInv, SuccessUndisturbed, SuccessMeansAllExecuted,
              IncompleteHasCause
<1>3. CASE PushRoots
  <2>1. outcome = "none"
    BY <1>3 DEF PushRoots, CauseInv
  <2> QED
    BY <1>3, <2>1 DEF PushRoots, VerdictInv, SuccessUndisturbed, SuccessMeansAllExecuted,
                      IncompleteHasCause
<1>4. CASE ~(Return \/ RejectPlan \/ PushRoots)
  <2>1. /\ outcome' = outcome /\ (stopped => stopped') /\ (late => late')
        /\ interrupted => interrupted'
    BY <1>4 DEF Next, MainStep, Snapshot, AllPerformed, WaitRound, WaitRunning,
                JobStep, Skip, PassCheck, EnterCommand, Succeed, Fail, CountError, Rethrow,
                Release, FinishJob, TimeLimitPasses, Stop, Idle, vars, IInv, Shape
  <2>2. \A c \in Command : exit[c] # "none" => exit'[c] = exit[c]
    BY <1>4 DEF Next, MainStep, Snapshot, AllPerformed, WaitRound, WaitRunning,
                JobStep, Skip, PassCheck, EnterCommand, Succeed, Fail, CountError, Rethrow,
                Release, FinishJob, TimeLimitPasses, Stop, Idle, vars, IInv, Shape, StationInv
  <2> QED
    BY <2>1, <2>2 DEF VerdictInv, SuccessUndisturbed, SuccessMeansAllExecuted,
                      IncompleteHasCause
<1> QED
  BY <1>1, <1>2, <1>3, <1>4

(* What execute() reports is what happened, in every plan, with any number   *)
(* of threads and any options: success only when all commands were executed, *)
(* missing steps only after a failure, and the stop at the failure that      *)
(* exhausts skip_errors.                                                     *)
THEOREM OutcomeIsTold == Spec => []OutcomeTold
<1>1. Init => VerdictInv
  BY DEF Init, VerdictInv, SuccessUndisturbed, SuccessMeansAllExecuted, IncompleteHasCause
<1>2. IInv /\ LoopInv /\ CauseInv /\ WorkInv /\ VerdictInv /\ BudgetInv /\ [Next]_vars
        => LoopInv' /\ CauseInv' /\ WorkInv' /\ VerdictInv' /\ BudgetInv'
  BY LoopStep, CauseStep, WorkStep, VerdictStep, BudgetStep
<1>3. VerdictInv /\ BudgetInv => OutcomeTold
  BY DEF VerdictInv, BudgetInv, OutcomeTold
<1> QED
  BY InductiveInvariant, InitLoop, InitCause, InitWork, InitBudget, <1>1, <1>2, <1>3, PTL
  DEF Spec
-----------------------------------------------------------------------------
LEMMA InitRefines == Init => Dag!DagInit
<1> SUFFICES ASSUME Init PROVE Dag!DagInit
  OBVIOUS
<1>1. deps \in [Command -> SUBSET Command] /\ (~throw_on_errors) \in BOOLEAN
  BY GraphsAssumption DEF Init
<1>2. statusBar = [c \in Command |-> "waiting"]
  BY DEF Init, statusBar
<1>3. disturbedBar = FALSE /\ resultBar = "none"
  BY DEF Init, disturbedBar, resultBar
<1> QED
  BY <1>1, <1>2, <1>3 DEF Dag!DagInit

(* The status of every command is a function of its job and its result.     *)
LEMMA SameStatus ==
  ASSUME \A c \in Command :
           /\ exit'[c] = exit[c]
           /\ job'[c] \in {"checked", "running"} <=> job[c] \in {"checked", "running"}
  PROVE  statusBar' = statusBar
  BY DEF statusBar

LEMMA StepRefines ==
  ASSUME IInv, LoopInv, CauseInv, [Next]_vars
  PROVE  [Dag!DagNext]_(Dag!dagVars)
<1>0. throw_on_errors' = throw_on_errors
  BY PlanKept
<1> USE <1>0 DEF workerVars, mainVars
<1>1. CASE RejectPlan
  <2>1. deps' = deps /\ statusBar' = statusBar
    BY <1>1, SameStatus DEF planVars, RejectPlan
  <2>2. disturbedBar' <=> disturbedBar
    BY <1>1 DEF RejectPlan, disturbedBar
  <2>3. resultBar = "none" /\ resultBar' = "error"
    BY <1>1 DEF RejectPlan, resultBar, CauseInv
  <2>4. Dag!Conclude
    BY <2>1, <2>2, <2>3 DEF Dag!Conclude, disturbedBar
  <2> QED
    BY <2>4 DEF Dag!DagNext
<1>2. CASE PushRoots
  <2>1. deps' = deps /\ outcome' = outcome /\ late' = late /\ main = "start" /\ interrupted' = FALSE
    BY <1>2 DEF planVars, PushRoots
  <2>2. statusBar' = statusBar
    <3>1. \A c \in Command : job[c] = "idle" /\ job'[c] \in {"idle", "queued"} /\ exit' = exit
      BY <1>2 DEF PushRoots, CauseInv
    <3> QED
      BY <3>1, SameStatus
  <2>3. disturbedBar' = disturbedBar /\ resultBar' = resultBar
    BY <2>1 DEF disturbedBar, resultBar
  <2> QED
    BY <2>1, <2>2, <2>3 DEF Dag!dagVars
<1>3. CASE Snapshot \/ AllPerformed \/ WaitRound \/ WaitRunning
  <2>1. /\ UNCHANGED <<deps, job, exit, late, interrupted, outcome>>
        /\ main # "start" /\ main' # "start"
    BY <1>3 DEF planVars, Snapshot, AllPerformed, WaitRound, WaitRunning
  <2>2. statusBar' = statusBar
    BY <2>1, SameStatus
  <2>3. disturbedBar' = disturbedBar /\ resultBar' = resultBar
    BY <2>1 DEF disturbedBar, resultBar
  <2> QED
    BY <2>1, <2>2, <2>3 DEF Dag!dagVars
<1>4. CASE Return
  <2>1. deps' = deps /\ statusBar' = statusBar
    BY <1>4, SameStatus DEF planVars, Return
  <2>2. outcome = "none" /\ outcome' \in {"errors", "ok", "time_limit", "interrupted", "incomplete"}
    BY <1>4 DEF Return, CauseInv, Conclusion
  <2>3. resultBar = "none" /\ resultBar' \in {"ok", "error"}
    BY <2>2 DEF resultBar
  <2>4. disturbedBar' = disturbedBar
    BY <1>4, <2>2 DEF Return, disturbedBar
  <2>5. Dag!Conclude
    BY <1>4, <2>1, <2>3, <2>4, VerdictIsTrue DEF Dag!Conclude
  <2> QED
    BY <2>5 DEF Dag!DagNext
<1>5. ASSUME NEW c \in Command, JobStep(c) PROVE [Dag!DagNext]_(Dag!dagVars)
  <2>0. disturbedBar' = disturbedBar /\ resultBar' = resultBar /\ deps' = deps
    <3>1. UNCHANGED <<deps, late, interrupted, main, outcome>>
      BY <1>5 DEF planVars, JobStep, Skip, PassCheck, EnterCommand, Succeed, Fail, CountError,
                  Rethrow, Release, FinishJob
    <3> QED
      BY <3>1 DEF disturbedBar, resultBar
  <2>1. CASE Skip(c) \/ EnterCommand(c) \/ CountError(c) \/ Rethrow(c) \/ FinishJob(c)
    <3>1. statusBar' = statusBar
      BY <2>1, SameStatus
      DEF Skip, EnterCommand, CountError, Rethrow, FinishJob, IInv, Shape
    <3> QED
      BY <2>0, <3>1 DEF Dag!dagVars
  <2>2. ASSUME NEW d \in Command, Release(c, d) PROVE statusBar' = statusBar
    <3>1. job[d] = "idle"
      BY <2>2, LastRelease
    <3> QED
      BY <2>2, <3>1, SameStatus DEF Release, IInv, Shape
  <2>3. CASE PassCheck(c)
    <3>1. exit[c] = "none" /\ statusBar[c] = "waiting"
      BY <2>3 DEF PassCheck, IInv, StationInv, statusBar
    <3>2. \A d \in deps[c] : Performed(d)
      BY <2>3 DEF PassCheck, IInv, PushInv, CountedDown
    <3>3. \A d \in deps[c] : Dag!Settled(d)
      BY <3>2 DEF Dag!Settled, Performed, statusBar, IInv, Shape
    <3>4. statusBar' = [statusBar EXCEPT ![c] = "running"]
      BY <2>3, <3>1 DEF PassCheck, statusBar, IInv, Shape
    <3>5. Dag!Start(c)
      BY <2>0, <3>1, <3>3, <3>4 DEF Dag!Start
    <3> QED
      BY <3>5 DEF Dag!DagNext
  <2>4. CASE Succeed(c) \/ Fail(c)
    <3>1. statusBar[c] = "running"
      BY <2>4 DEF Succeed, Fail, IInv, StationInv, statusBar
    <3>2. \E s \in {"succeeded", "failed"} : statusBar' = [statusBar EXCEPT ![c] = s]
      <4>1. CASE Succeed(c)
        <5>1. statusBar' = [statusBar EXCEPT ![c] = "succeeded"]
          BY <4>1 DEF Succeed, statusBar, IInv, Shape
        <5> QED
          BY <5>1
      <4>2. CASE Fail(c)
        <5>1. statusBar' = [statusBar EXCEPT ![c] = "failed"]
          BY <4>2 DEF Fail, statusBar, IInv, Shape
        <5> QED
          BY <5>1
      <4> QED
        BY <2>4, <4>1, <4>2
    <3>3. Dag!End(c)
      BY <2>0, <3>1, <3>2 DEF Dag!End
    <3> QED
      BY <3>3 DEF Dag!DagNext
  <2> QED
    BY <1>5, <2>0, <2>1, <2>2, <2>3, <2>4 DEF JobStep, Dag!dagVars
<1>6. CASE TimeLimitPasses \/ Stop
  <2>1. deps' = deps /\ statusBar' = statusBar
    BY <1>6, SameStatus DEF planVars, TimeLimitPasses, Stop
  <2>2. resultBar' = resultBar
    BY <1>6 DEF TimeLimitPasses, Stop, resultBar
  <2>3. (disturbedBar' = disturbedBar) \/ (~disturbedBar /\ disturbedBar' = TRUE)
    BY <1>6 DEF TimeLimitPasses, Stop, disturbedBar, IInv, Shape
  <2>4. CASE disturbedBar' = disturbedBar
    BY <2>1, <2>2, <2>4 DEF Dag!dagVars
  <2>5. CASE ~disturbedBar /\ disturbedBar' = TRUE
    BY <2>1, <2>2, <2>5 DEF Dag!Disturb, Dag!DagNext
  <2> QED
    BY <2>3, <2>4, <2>5
<1>7. CASE Idle \/ UNCHANGED vars
  <2>1. UNCHANGED vars
    BY <1>7 DEF Idle
  <2>2. deps' = deps /\ statusBar' = statusBar
    BY <2>1, SameStatus DEF vars
  <2>3. disturbedBar' = disturbedBar /\ resultBar' = resultBar
    BY <2>1 DEF vars, disturbedBar, resultBar
  <2> QED
    BY <2>2, <2>3 DEF Dag!dagVars
<1> QED
  BY <1>1, <1>2, <1>3, <1>4, <1>5, <1>6, <1>7 DEF Next, MainStep

(* execute() implements the abstract build: commands run at most once and   *)
(* in the order of their dependencies, and an undisturbed build is called   *)
(* good only if all commands succeeded, or failures do not throw.           *)
THEOREM Refinement == Spec => ImplementsDag
<1>1. IInv /\ LoopInv /\ CauseInv /\ [Next]_vars => LoopInv' /\ CauseInv'
  BY LoopStep, CauseStep
<1>2. IInv /\ LoopInv /\ CauseInv /\ [Next]_vars => [Dag!DagNext]_(Dag!dagVars)
  BY StepRefines
<1> QED
  BY InductiveInvariant, InitLoop, InitCause, InitRefines, <1>1, <1>2, PTL
  DEF Spec, ImplementsDag, Dag!DagSpec
=============================================================================
