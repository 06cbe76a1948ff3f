--------------------------- MODULE ExecutionPlan ---------------------------
(***************************************************************************)
(* ExecutionPlan::execute of src/sw/builder/execution_plan.cpp: the main   *)
(* thread pushes the commands that have no dependencies to the executor;   *)
(* each job runs its command, counts down dependencies_left of the         *)
(* commands that depend on it and pushes those that reach zero; the main   *)
(* thread waits for the futures in rounds and turns what it saw into the   *)
(* outcome of the build.                                                   *)
(*                                                                         *)
(* One job exists per command, so a job is named by its command.  The      *)
(* mutex m is held for a whole push, hence a push is one step; the atomics *)
(* running, stopped, interrupted and askip_errors are read and written in  *)
(* steps of their own wherever another thread could tell the difference.   *)
(***************************************************************************)
EXTENDS Integers, FiniteSets

CONSTANTS
  Command,        \* the commands of the plan
  Graphs,         \* the dependency relations considered, as functions
  Threads,        \* number of threads of the executor
  SkipErrors,     \* skip_errors
  ThrowModes,     \* values throw_on_errors may have
  HasTimeLimit,   \* setTimeLimit() was called
  MayStop         \* another thread may call stop()

ASSUME CommandAssumption == IsFiniteSet(Command) /\ Command # {}
ASSUME GraphsAssumption == Graphs \subseteq [Command -> SUBSET Command]
ASSUME OptionsAssumption ==
  /\ Threads \in Nat \ {0}
  /\ SkipErrors \in Int
  /\ ThrowModes \subseteq BOOLEAN
  /\ HasTimeLimit \in BOOLEAN
  /\ MayStop \in BOOLEAN

VARIABLES
  deps,         \* getDependencies() of every command; never changes here
  throw_on_errors, \* an error leaves its job as an exception; never changes
  left,         \* dependencies_left of every command
  job,          \* where the job of every command is
  releases,     \* dependent_commands a finished command has yet to count down
  exit,         \* how c->execute() ended, "none" before that
  running,      \* the counter running
  stopped,      \* the flag stopped
  interrupted,  \* the flag interrupted
  late,         \* Clock::now() > *stop_time
  askip_errors, \* errors that may still be skipped
  main,         \* where the main thread is
  fs,           \* futures not yet taken by the main thread
  fs2,          \* futures of the round the main thread waits for
  waited,       \* the counter i
  outcome       \* how execute() ended

vars == <<deps, throw_on_errors, left, job, releases, exit, running, stopped, interrupted, late,
          askip_errors, main, fs, fs2, waited, outcome>>

planVars == <<deps, throw_on_errors>>
workerVars == <<left, job, releases, exit, running, stopped, askip_errors>>
mainVars == <<main, fs2, waited, outcome>>

(* Stations of a job: not pushed; in the executor's queue; past the check  *)
(* of the flags; inside c->execute(); back from a throw; about to rethrow; *)
(* counting down its dependents; future set.                               *)
JobState == {"idle", "queued", "checked", "running", "failed", "throwing",
             "releasing", "done"}
Outcome == {"none", "ok", "invalid", "errors", "time_limit", "interrupted",
            "incomplete"}

Dependents(c) == {d \in Command : c \in deps[d]}
Pushed == {c \in Command : job[c] # "idle"}
OnThread == {c \in Command : job[c] \notin {"idle", "queued", "done"}}

(* A plan is valid when init() could order every command, that is, when no *)
(* set of commands keeps itself from being taken.                          *)
IsValid == \A S \in SUBSET Command :
             S # {} => \E c \in S : deps[c] \cap S = {}

TypeOK ==
  /\ deps \in [Command -> SUBSET Command]
  /\ throw_on_errors \in BOOLEAN
  /\ left \in [Command -> Nat]
  /\ job \in [Command -> JobState]
  /\ releases \in [Command -> SUBSET Command]
  /\ exit \in [Command -> {"none", "ok", "error"}]
  /\ running \in Nat
  /\ stopped \in BOOLEAN
  /\ interrupted \in BOOLEAN
  /\ late \in BOOLEAN
  /\ askip_errors \in Int
  /\ main \in {"start", "loop", "wait", "drain", "gather", "returned"}
  /\ fs \in SUBSET Command
  /\ fs2 \in SUBSET Command
  /\ waited \in Nat
  /\ outcome \in Outcome

(* prepare() refuses a dependency of a command on itself.                  *)
Init ==
  /\ deps \in {g \in Graphs : \A c \in Command : c \notin g[c]}
  /\ throw_on_errors \in ThrowModes
  /\ left = [c \in Command |-> Cardinality(deps[c])]
  /\ job = [c \in Command |-> "idle"]
  /\ releases = [c \in Command |-> {}]
  /\ exit = [c \in Command |-> "none"]
  /\ running = 0
  /\ stopped = FALSE
  /\ interrupted = FALSE
  /\ late = FALSE
  /\ askip_errors = SkipErrors
  /\ main = "start"
  /\ fs = {}
  /\ fs2 = {}
  /\ waited = 0
  /\ outcome = "none"
-----------------------------------------------------------------------------
(* The main thread. *)

RejectPlan ==
  /\ main = "start"
  /\ ~IsValid
  /\ main' = "returned"
  /\ outcome' = "invalid"
  /\ UNCHANGED <<planVars, workerVars, interrupted, late, fs, fs2, waited>>

(* interrupted = false, then every command without dependencies is pushed  *)
(* under one lock.  A valid plan has such a command, so the exception "No  *)
(* commands without deps were added" has no step.                          *)
PushRoots ==
  /\ main = "start"
  /\ IsValid
  /\ interrupted' = FALSE
  /\ LET roots == {c \in Command : deps[c] = {}} IN
       /\ job' = [c \in Command |-> IF c \in roots THEN "queued" ELSE job[c]]
       /\ fs' = roots
  /\ main' = "loop"
  /\ UNCHANGED <<planVars, left, releases, exit, running, stopped, late,
                 askip_errors, fs2, waited, outcome>>

Snapshot ==
  /\ main = "loop"
  /\ waited # Cardinality(Command)
  /\ fs2' = fs
  /\ fs' = {}
  /\ main' = "wait"
  /\ UNCHANGED <<planVars, workerVars, interrupted, late, waited, outcome>>

AllPerformed ==
  /\ main = "loop"
  /\ waited = Cardinality(Command)
  /\ main' = "drain"
  /\ UNCHANGED <<planVars, workerVars, interrupted, late, fs, fs2, waited, outcome>>

LeavesLoop_FirstRound == TRUE    \* mutant: the loop is left after one round
LeavesLoop == stopped \/ fs2 = {} \/ interrupted

(* The last f.wait() of the round returned; the flags are read after it.   *)
WaitRound ==
  /\ main = "wait"
  /\ \A c \in fs2 : job[c] = "done"
  /\ waited' = waited + Cardinality(fs2)
  /\ fs2' = {}
  /\ main' = IF LeavesLoop THEN "drain" ELSE "loop"
  /\ UNCHANGED <<planVars, workerVars, interrupted, late, fs, outcome>>

WaitRunning ==
  /\ main = "drain"
  /\ running = 0
  /\ main' = "gather"
  /\ UNCHANGED <<planVars, workerVars, interrupted, late, fs, fs2, waited, outcome>>

Exceptions_Lost == {}    \* mutant: nobody reads the futures' exceptions
(* Only a job that rethrew leaves an exception, in its future.             *)
Exceptions == {c \in Command : job[c] = "done" /\ exit[c] = "error" /\ throw_on_errors}

Conclusion ==
  CASE Exceptions # {} -> "errors"
    [] Exceptions = {} /\ waited = Cardinality(Command) -> "ok"
    [] Exceptions = {} /\ waited # Cardinality(Command) ->
         IF late /\ stopped THEN "time_limit"
         ELSE IF interrupted THEN "interrupted" ELSE "incomplete"

Return ==
  /\ main = "gather"
  /\ main' = "returned"
  /\ outcome' = Conclusion
  /\ UNCHANGED <<planVars, workerVars, interrupted, late, fs, fs2, waited>>
-----------------------------------------------------------------------------
(* A job, on a thread of the executor. *)

FreeThread == Cardinality(OnThread) < Threads

(* Once execute() has returned, the flag stopped is a dead local variable  *)
(* of it: a job that starts then may read anything.                        *)
Skip(c) ==
  /\ job[c] = "queued"
  /\ FreeThread
  /\ stopped \/ interrupted \/ main = "returned"
  /\ job' = [job EXCEPT ![c] = "done"]
  /\ UNCHANGED <<planVars, left, releases, exit, running, stopped, interrupted, late,
                 askip_errors, fs, mainVars>>

PassCheck(c) ==
  /\ job[c] = "queued"
  /\ FreeThread
  /\ (~stopped /\ ~interrupted) \/ main = "returned"
  /\ job' = [job EXCEPT ![c] = "checked"]
  /\ UNCHANGED <<planVars, left, releases, exit, running, stopped, interrupted, late,
                 askip_errors, fs, mainVars>>

RunningUp_Forgotten == running    \* mutant: running++ forgotten
RunningUp == running + 1
RunningDown_Forgotten == running       \* mutant: running-- forgotten
RunningDown == running - 1

EnterCommand(c) ==
  /\ job[c] = "checked"
  /\ running' = RunningUp
  /\ job' = [job EXCEPT ![c] = "running"]
  /\ UNCHANGED <<planVars, left, releases, exit, stopped, interrupted, late,
                 askip_errors, fs, mainVars>>

Succeed(c) ==
  /\ job[c] = "running"
  /\ running' = RunningDown
  /\ exit' = [exit EXCEPT ![c] = "ok"]
  /\ releases' = [releases EXCEPT ![c] = Dependents(c)]
  /\ job' = [job EXCEPT ![c] = "releasing"]
  /\ UNCHANGED <<planVars, left, stopped, interrupted, late, askip_errors, fs, mainVars>>

Fail(c) ==
  /\ job[c] = "running"
  /\ running' = RunningDown
  /\ exit' = [exit EXCEPT ![c] = "error"]
  /\ job' = [job EXCEPT ![c] = "failed"]
  /\ UNCHANGED <<planVars, left, releases, stopped, interrupted, late, askip_errors,
                 fs, mainVars>>

Exhausted(n) == n < 1

(* The error is counted; with throw_on_errors the exception leaves the     *)
(* job, otherwise the job goes on to its dependents.                       *)
CountError(c) ==
  /\ job[c] = "failed"
  /\ askip_errors' = askip_errors - 1
  /\ stopped' = (stopped \/ Exhausted(askip_errors - 1))
  /\ IF throw_on_errors
     THEN /\ job' = [job EXCEPT ![c] = "throwing"]
          /\ UNCHANGED releases
     ELSE /\ job' = [job EXCEPT ![c] = "releasing"]
          /\ releases' = [releases EXCEPT ![c] = Dependents(c)]
  /\ UNCHANGED <<planVars, left, exit, running, interrupted, late, fs, mainVars>>

Rethrow(c) ==
  /\ job[c] = "throwing"
  /\ job' = [job EXCEPT ![c] = "done"]
  /\ UNCHANGED <<planVars, left, releases, exit, running, stopped, interrupted, late,
                 askip_errors, fs, mainVars>>

CountDown_Lost(d) == left            \* mutant: a lost decrement
CountDown(d) == [left EXCEPT ![d] = @ - 1]
IsLast_Any(d) == TRUE                \* mutant: any dependency releases d
IsLast(d) == left[d] = 1
AddFuture(d) == fs \cup {d}

(* --d->dependencies_left == 0 ? push d *)
Release(c, d) ==
  /\ job[c] = "releasing"
  /\ d \in releases[c]
  /\ releases' = [releases EXCEPT ![c] = @ \ {d}]
  /\ left' = CountDown(d)
  /\ IF IsLast(d)
     THEN /\ job' = [job EXCEPT ![d] = "queued"]
          /\ fs' = AddFuture(d)
     ELSE UNCHANGED <<job, fs>>
  /\ UNCHANGED <<planVars, exit, running, stopped, interrupted, late, askip_errors,
                 mainVars>>

(* The time limit is looked at, the job returns and its future is set.     *)
FinishJob(c) ==
  /\ job[c] = "releasing"
  /\ releases[c] = {}
  /\ stopped' = (stopped \/ late)
  /\ job' = [job EXCEPT ![c] = "done"]
  /\ UNCHANGED <<planVars, left, releases, exit, running, interrupted, late,
                 askip_errors, fs, mainVars>>
-----------------------------------------------------------------------------
(* The environment: the clock and other threads. *)

TimeLimitPasses ==
  /\ HasTimeLimit
  /\ ~late
  /\ late' = TRUE
  /\ UNCHANGED <<planVars, workerVars, interrupted, fs, mainVars>>

(* stop() *)
Stop ==
  /\ MayStop
  /\ ~interrupted
  /\ main # "returned"
  /\ interrupted' = TRUE
  /\ UNCHANGED <<planVars, workerVars, late, fs, mainVars>>

(* execute() returned and no job is left: nothing more is to happen.       *)
Idle ==
  /\ main = "returned"
  /\ \A c \in Command : job[c] \in {"idle", "done"}
  /\ UNCHANGED vars

MainStep == \/ RejectPlan \/ PushRoots \/ Snapshot \/ AllPerformed
            \/ WaitRound \/ WaitRunning \/ Return

JobStep(c) == \/ Skip(c) \/ PassCheck(c) \/ EnterCommand(c)
              \/ Succeed(c) \/ Fail(c) \/ CountError(c) \/ Rethrow(c)
              \/ \E d \in Command : Release(c, d)
              \/ FinishJob(c)

Next == \/ MainStep
        \/ \E c \in Command : JobStep(c)
        \/ TimeLimitPasses
        \/ Stop
        \/ Idle

Spec == Init /\ [][Next]_vars

(* The main thread runs, the executor serves its queue, a command ends;    *)
(* nothing is assumed of the clock or of the threads that call stop().     *)
Fairness == /\ WF_vars(MainStep)
            /\ \A c \in Command : WF_vars(JobStep(c))

FairSpec == Spec /\ Fairness
-----------------------------------------------------------------------------
(* Properties. *)

(* A dependency no longer holds its dependents back: it was performed,     *)
(* successfully unless errors do not throw.                                *)
Performed(c) == exit[c] = "ok" \/ (exit[c] = "error" /\ ~throw_on_errors)

CountedDown(c, d) == Performed(c) /\ job[c] # "failed" /\ d \notin releases[c]

(* No command gets a job before every command it depends on was performed: *)
(* the countdown of dependencies_left by concurrent jobs orders the build. *)
DependencyOrder ==
  \A d \in Command : job[d] # "idle" => \A c \in deps[d] : Performed(c)

(* dependencies_left is, in every state, the number of dependencies that   *)
(* have not counted it down: no decrement is lost, doubled or left over.   *)
CountersExact ==
  \A d \in Command :
    left[d] = Cardinality({c \in deps[d] : ~CountedDown(c, d)})

(* A command is pushed to the executor once: its job never starts over and *)
(* its result never changes.                                               *)
PerformedOnce ==
  [][\A c \in Command :
       /\ job'[c] = "queued" => job[c] \in {"idle", "queued"}
       /\ exit[c] # "none" => exit'[c] = exit[c]]_vars

(* While the main thread is in its loop every unfinished job has its       *)
(* future in fs or fs2, and the counter i plus these futures are exactly   *)
(* the jobs pushed: a round that comes out empty is the end of the work.   *)
FuturesTracked ==
  /\ {c \in Pushed : job[c] # "done"} \subseteq fs \cup fs2
  /\ fs \cap fs2 = {}
  /\ waited + Cardinality(fs) + Cardinality(fs2) = Cardinality(Pushed)

(* When the main thread leaves the loop and nothing asked for a stop, no   *)
(* job is queued or running any more.                                      *)
QuietUnlessStopped ==
  main \in {"drain", "gather", "returned"} /\ ~stopped /\ ~interrupted
    => \A c \in Command : job[c] \in {"idle", "done"}

(* The end of the main thread's loop is the end of the work: it keeps the  *)
(* future of every unfinished job while it loops, and leaves jobs behind   *)
(* only when a stop was asked for.                                         *)
LoopEndsWork == FuturesTracked /\ QuietUnlessStopped

(* execute() ends without an exception only if every command was executed; *)
(* the check "Executor did not perform all steps" is there for this.       *)
SuccessMeansAllExecuted ==
  outcome = "ok" => \A c \in Command : exit[c] # "none"

(* ... which can be relied on when the time limit did not pass and nobody  *)
(* called stop(); and, where errors do not throw, when no error stopped    *)
(* the build.                                                              *)
SuccessUndisturbed ==
  ~late /\ ~interrupted /\ (throw_on_errors \/ ~stopped) => SuccessMeansAllExecuted

(* "Executor did not perform all steps" is never the verdict on a plan     *)
(* none of whose commands failed.                                          *)
IncompleteHasCause ==
  outcome = "incomplete" => \E c \in Command : exit[c] = "error"

(* The build stops at the failure number max(1, skip_errors), not earlier  *)
(* and not later, whichever threads the failures happen on.                *)
ErrorBudget ==
  LET counted == Cardinality({c \in Command : exit[c] = "error" /\ job[c] # "failed"})
      spent == counted > 0 /\ counted >= SkipErrors
  IN  (spent => stopped) /\ (stopped => spent \/ late)

(* What execute() reports is what happened: success only when all commands *)
(* were executed (unless the time limit or stop() disturbed it), missing   *)
(* steps only after a failure, and a stop at the failure it was asked for. *)
OutcomeTold == SuccessUndisturbed /\ IncompleteHasCause /\ ErrorBudget

(* execute() returns, whatever fails, in whichever order jobs end.         *)
ExecuteReturns == <>(main = "returned")
=============================================================================
