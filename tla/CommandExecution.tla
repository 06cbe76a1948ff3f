-------------------------- MODULE CommandExecution --------------------------
(***************************************************************************)
(* Command::execute as several jobs call it at once: execute0 with its     *)
(* chains of piped commands, beforeCommand, the resource pool that limits  *)
(* how many commands run together, and the exits of all of them            *)
(* (src/sw/builder/command.{h,cpp}).                                       *)
(*                                                                         *)
(* An execution plan gives every command one job. Whether a command is up  *)
(* to date is decided in CommandRecords; here it is a bit per command.     *)
(***************************************************************************)
EXTENDS Integers, FiniteSets

CONSTANTS
  Command,     \* commands, and the jobs the plan made for them
  None,        \* not a command
  Prev,        \* prev: the command whose output a piped command reads
  Pooled,      \* commands that share the resource pool
  Resources,   \* its size
  MayBeAlways, \* commands that may be asked to run every time
  MayBeFresh   \* commands that may be up to date at the start

ASSUME CommandsAssumption == IsFiniteSet(Command)
ASSUME NoneAssumption == None \notin Command
ASSUME ChainAssumption == Prev \in [Command -> Command \cup {None}]
ASSUME PoolAssumption == /\ Pooled \subseteq Command
                         /\ Resources \in Nat \ {0}
ASSUME ChoiceAssumption == MayBeAlways \subseteq Command /\ MayBeFresh \subseteq Command

VARIABLES
  pc,        \* where each job is
  at,        \* the command whose execute0 the job is in
  executed,  \* executed_
  always,    \* always of every command; never changes
  outdated,  \* what isOutdated() would say
  n,         \* free resources of the pool
  runs,      \* how often the program of a command was started
  took,      \* history: the jobs that took a resource
  gave       \* history: the jobs that gave one back

vars == <<pc, at, executed, always, outdated, n, runs, took, gave>>
poolVars == <<n, took, gave>>

JobState == {"chain", "check", "twice", "exchange", "lock", "asleep", "run", "after",
             "leave_ok", "leave_failed", "ok", "failed"}
Ended == {"ok", "failed"}

TypeOK ==
  /\ pc \in [Command -> JobState]
  /\ at \in [Command -> Command]
  /\ executed \in [Command -> BOOLEAN]
  /\ always \in [Command -> BOOLEAN]
  /\ outdated \in [Command -> BOOLEAN]
  /\ n \in Nat
  /\ runs \in [Command -> Nat]
  /\ took \in SUBSET Command
  /\ gave \in SUBSET Command

Init ==
  /\ pc = [j \in Command |-> "chain"]
  /\ at = [j \in Command |-> j]
  /\ executed = [c \in Command |-> FALSE]
  /\ \E asked \in SUBSET MayBeAlways : always = [c \in Command |-> c \in asked]
  /\ \E fresh \in SUBSET MayBeFresh :
       outdated = [c \in Command |-> always[c] \/ c \notin fresh]
  /\ n = Resources
  /\ runs = [c \in Command |-> 0]
  /\ took = {}
  /\ gave = {}

Goto(j, s) == pc' = [pc EXCEPT ![j] = s]
-----------------------------------------------------------------------------
(* execute0: a piped command is executed by executing the one before it.   *)

FollowChain(j) ==
  /\ pc[j] = "chain" /\ Prev[at[j]] # None
  /\ ~executed[Prev[at[j]]]
  /\ at' = [at EXCEPT ![j] = Prev[@]]
  /\ UNCHANGED <<pc, executed, outdated, runs, poolVars>>

ChainDone(j) ==
  /\ pc[j] = "chain" /\ Prev[at[j]] # None
  /\ executed[Prev[at[j]]]
  /\ Goto(j, "ok")
  /\ UNCHANGED <<at, executed, outdated, runs, poolVars>>

ReachHead(j) ==
  /\ pc[j] = "chain" /\ Prev[at[j]] = None
  /\ Goto(j, "check")
  /\ UNCHANGED <<at, executed, outdated, runs, poolVars>>
-----------------------------------------------------------------------------
(* beforeCommand *)

(* prepare() or a look at a file throws. *)
CheckThrows(j) ==
  /\ pc[j] = "check"
  /\ Goto(j, "leave_failed")
  /\ UNCHANGED <<at, executed, outdated, runs, poolVars>>

FindUpToDate(j) ==
  /\ pc[j] = "check" /\ ~outdated[at[j]]
  /\ executed' = [executed EXCEPT ![at[j]] = TRUE]
  /\ Goto(j, "leave_ok")
  /\ UNCHANGED <<at, outdated, runs, poolVars>>

FindOutdated(j) ==
  /\ pc[j] = "check" /\ outdated[at[j]]
  /\ Goto(j, "twice")
  /\ UNCHANGED <<at, executed, outdated, runs, poolVars>>

(* "Trying to execute command twice" *)
RefuseTwice(j) ==
  /\ pc[j] = "twice" /\ executed[at[j]]
  /\ Goto(j, "leave_failed")
  /\ UNCHANGED <<at, executed, outdated, runs, poolVars>>

NotYetExecuted(j) ==
  /\ pc[j] = "twice" /\ ~executed[at[j]]
  /\ Goto(j, "exchange")
  /\ UNCHANGED <<at, executed, outdated, runs, poolVars>>

MayStart_Always(c) == TRUE     \* mutant: executed_ is stored, not exchanged
MayStart(c) == ~executed[c]

LoseExchange(j) ==
  /\ pc[j] = "exchange" /\ ~MayStart(at[j])
  /\ Goto(j, "leave_ok")
  /\ UNCHANGED <<at, executed, outdated, runs, poolVars>>

Start(j) == runs' = [runs EXCEPT ![at[j]] = @ + 1]

WinExchange(j) ==
  /\ pc[j] = "exchange" /\ MayStart(at[j])
  /\ executed' = [executed EXCEPT ![at[j]] = TRUE]
  /\ IF at[j] \in Pooled THEN Goto(j, "lock") /\ UNCHANGED runs
                         ELSE Goto(j, "run") /\ Start(j)
  /\ UNCHANGED <<at, outdated, poolVars>>
-----------------------------------------------------------------------------
(* ResourcePool *)

HasResource == n > 0

Lock(j) ==
  /\ pc[j] = "lock" /\ HasResource
  /\ n' = n - 1
  /\ took' = took \cup {j}
  /\ Goto(j, "run")
  /\ Start(j)
  /\ UNCHANGED <<at, executed, outdated, gave>>

Sleep(j) ==
  /\ pc[j] = "lock" /\ ~HasResource
  /\ Goto(j, "asleep")
  /\ UNCHANGED <<at, executed, outdated, runs, poolVars>>

(* The states after unlock() of a job that goes on to s: one of those that *)
(* sleep, if any, is woken and tries again.                                *)
Notified_Nobody(j, s) == {[pc EXCEPT ![j] = s]}     \* mutant: no notify_one()
Notified(j, s) ==
  LET asleep == {k \in Command : pc[k] = "asleep"}
  IN IF asleep = {} THEN {[pc EXCEPT ![j] = s]}
     ELSE {[pc EXCEPT ![j] = s, ![k] = "lock"] : k \in asleep}
-----------------------------------------------------------------------------
(* execute1 and afterCommand *)

RunEnds(j) ==
  /\ pc[j] = "run"
  /\ \E s \in {"after", "leave_failed"} : Goto(j, s)
  /\ UNCHANGED <<at, executed, outdated, runs, poolVars>>

OutputsMissing_Logged == "leave_ok"      \* mutant: the error is logged only
OutputsMissing == "leave_failed"

AfterThrows(j) ==
  /\ pc[j] = "after"
  /\ Goto(j, OutputsMissing)
  /\ UNCHANGED <<at, executed, outdated, runs, poolVars>>

(* What the run recorded makes the command up to date, unless it is to run *)
(* always.                                                                 *)
AfterCommand(j) ==
  /\ pc[j] = "after"
  /\ outdated' = [outdated EXCEPT ![at[j]] = always[at[j]]]
  /\ Goto(j, "leave_ok")
  /\ UNCHANGED <<at, executed, runs, poolVars>>

Unlocks_Success(j) ==          \* mutant: exceptions skip the unlock
  at[j] \in Pooled /\ executed[at[j]] /\ pc[j] = "leave_ok"
Unlocks(j) == at[j] \in Pooled /\ executed[at[j]]

Leave(j) ==
  /\ pc[j] \in {"leave_ok", "leave_failed"}
  /\ LET s == IF pc[j] = "leave_ok" THEN "ok" ELSE "failed"
     IN IF Unlocks(j)
        THEN n' = n + 1 /\ gave' = gave \cup {j} /\ pc' \in Notified(j, s)
        ELSE Goto(j, s) /\ UNCHANGED <<n, gave>>
  /\ UNCHANGED <<at, executed, outdated, runs, took>>
-----------------------------------------------------------------------------
Step(j) ==
  /\ \/ FollowChain(j) \/ ChainDone(j) \/ ReachHead(j)
     \/ CheckThrows(j) \/ FindUpToDate(j) \/ FindOutdated(j)
     \/ RefuseTwice(j) \/ NotYetExecuted(j) \/ LoseExchange(j) \/ WinExchange(j)
     \/ Lock(j) \/ Sleep(j)
     \/ RunEnds(j) \/ AfterThrows(j) \/ AfterCommand(j) \/ Leave(j)
  /\ UNCHANGED always

AllEnded == (\A j \in Command : pc[j] \in Ended) /\ UNCHANGED vars

Next == (\E j \in Command : Step(j)) \/ AllEnded

Spec == Init /\ [][Next]_vars
(* Threads run and programs end. *)
FairSpec == Spec /\ \A j \in Command : WF_vars(Step(j))
-----------------------------------------------------------------------------
(* Properties. *)

(* The free resources are those nobody took and kept, and those given     *)
(* back on top of them.                                                    *)
Kept == took \ gave
Surplus == gave \ took
PoolAccounted == n + Cardinality(Kept) = Resources + Cardinality(Surplus)

(* Whoever took a resource gives it back when it leaves, on success, on    *)
(* failure and on an exception, and not before.                            *)
TakersGiveBack == \A j \in took : pc[j] \in Ended <=> j \in gave

(* execute0 unlocks whenever executed_ is set, so a pool does grow beyond  *)
(* its size: by one for every job of a pooled command that was up to date, *)
(* or that another job of its pipe performs or performed, and by no other. *)
Performers(c) == {k \in Command : at[k] = c /\ (k \in took \/ pc[k] \in {"lock", "asleep"})}
SurplusExplained ==
  \A j \in Surplus :
    \/ ~outdated[at[j]] /\ runs[at[j]] = 0
    \/ \E k \in Performers(at[j]) : k # j

(* No wake-up is lost: while a job sleeps, either all resources are in use *)
(* or somebody is awake to take the free one.                              *)
NoLostWakeup ==
  (\E j \in Command : pc[j] = "asleep") =>
    Cardinality({j \in Command : pc[j] = "lock"}) >= n

(* On whichever way its commands leave, a pool loses neither a resource    *)
(* nor the wake-up of a job that waits for one, and what it gains is       *)
(* exactly what jobs give back that never took anything.                   *)
PoolSound ==
  TypeOK /\ PoolAccounted /\ TakersGiveBack /\ SurplusExplained /\ NoLostWakeup

(* However many jobs execute the head of a chain, its program starts once. *)
StartedOnce == \A c \in Command : runs[c] <= 1

(* When all jobs succeed every chain was performed, by whichever job, or   *)
(* was up to date; one that is to run always was performed.                *)
ChainPerformed ==
  (\A j \in Command : pc[j] = "ok") =>
    \A c \in Command : Prev[c] = None =>
      IF always[c] THEN runs[c] = 1 ELSE ~outdated[c]

(* Every job ends: none waits for a resource for ever.                     *)
JobsEnd == <>(\A j \in Command : pc[j] \in Ended)
=============================================================================
