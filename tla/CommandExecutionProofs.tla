----------------------- MODULE CommandExecutionProofs -----------------------
(***************************************************************************)
(* Proofs about CommandExecution for any commands, chains and pools: the   *)
(* exchange of executed_ lets one job through, so no program starts twice, *)
(* jobs that all succeed leave no chain behind, and every resource of a    *)
(* pool is accounted for.                                                  *)
(***************************************************************************)
EXTENDS CommandExecution, FiniteSetTheorems, TLAPS

(* States of a job between the exchange it won and the start of the        *)
(* program.                                                                *)
Entered == {"lock", "asleep"}

Shape ==
  /\ pc \in [Command -> JobState]
  /\ at \in [Command -> Command]
  /\ executed \in [Command -> BOOLEAN]
  /\ runs \in [Command -> Nat]

(* A job that waits for a resource is the only one to do so for its        *)
(* command, whose program was not started yet.                             *)
Exclusive ==
  \A j \in Command :
    pc[j] \in Entered =>
      /\ executed[at[j]] /\ runs[at[j]] = 0
      /\ \A k \in Command : pc[k] \in Entered /\ at[k] = at[j] => k = j

(* Only executed commands have been started, and once. *)
Started == \A c \in Command : runs[c] = 0 \/ (runs[c] = 1 /\ executed[c])

IInv == Shape /\ Exclusive /\ Started

LEMMA InitInv == Init => IInv
  BY ChainAssumption
  DEF Init, IInv, Shape, Exclusive, Started, Entered, JobState

(* Steps that start nothing and make no job wait for a resource. *)
LEMMA QuietStep ==
  ASSUME IInv, NEW j \in Command, NEW s \in JobState \ Entered,
         Goto(j, s), UNCHANGED <<at, runs>>,
         executed' \in [Command -> BOOLEAN],
         \A c \in Command : executed[c] => executed'[c]
  PROVE  IInv'
<1> USE DEF IInv, Goto
<1>1. Shape'
  BY DEF Shape
<1>2. \A k \in Command : pc'[k] \in Entered => pc[k] \in Entered
  BY DEF Shape, JobState
<1>3. Exclusive'
  BY <1>2 DEF Exclusive, Shape
<1>4. Started'
  BY DEF Started, Shape
<1> QED
  BY <1>1, <1>3, <1>4

LEMMA FollowStep ==
  ASSUME IInv, NEW j \in Command, FollowChain(j)
  PROVE  IInv'
<1> USE ChainAssumption, NoneAssumption DEF IInv, FollowChain
<1>1. Prev[at[j]] \in Command
  BY DEF Shape
<1>2. Shape' /\ Started'
  BY <1>1 DEF Shape, Started
<1>3. pc[j] \notin Entered
  BY DEF Entered
<1>4. Exclusive'
  BY <1>3 DEF Exclusive, Shape
<1> QED
  BY <1>2, <1>4

(* The job that wins the exchange finds executed_ unset, so no other job   *)
(* waits for a resource for the same command and it was never started.     *)
LEMMA WinStep ==
  ASSUME IInv, NEW j \in Command, WinExchange(j)
  PROVE  IInv'
<1> DEFINE c == at[j]
<1> USE DEF IInv, WinExchange, MayStart, Goto
<1>1. c \in Command /\ ~executed[c]
  BY DEF Shape
<1>2. runs[c] = 0 /\ \A k \in Command : pc[k] \in Entered => at[k] # c
  BY <1>1 DEF Started, Exclusive
<1>3. executed' = [executed EXCEPT ![c] = TRUE] /\ at' = at
  OBVIOUS
<1>4. CASE c \in Pooled
  <2>1. pc' = [pc EXCEPT ![j] = "lock"] /\ runs' = runs
    BY <1>4
  <2>2. Shape' /\ Started'
    BY <1>1, <1>3, <2>1 DEF Shape, Started, JobState
  <2>3. Exclusive'
    BY <1>1, <1>2, <1>3, <2>1 DEF Exclusive, Shape, Entered
  <2> QED
    BY <2>2, <2>3
<1>5. CASE c \notin Pooled
  <2>1. pc' = [pc EXCEPT ![j] = "run"] /\ runs' = [runs EXCEPT ![c] = @ + 1]
    BY <1>5 DEF Start
  <2>2. Shape' /\ Started'
    BY <1>1, <1>2, <1>3, <2>1 DEF Shape, Started, JobState
  <2>3. Exclusive'
    BY <1>1, <1>2, <1>3, <2>1 DEF Exclusive, Shape, Entered
  <2> QED
    BY <2>2, <2>3
<1> QED
  BY <1>4, <1>5

LEMMA LockStep ==
  ASSUME IInv, NEW j \in Command, Lock(j)
  PROVE  IInv'
<1> DEFINE c == at[j]
<1> USE DEF IInv, Lock, Goto
<1>1. c \in Command /\ executed[c] /\ runs[c] = 0
  BY DEF Shape, Exclusive, Entered
<1>2. /\ pc' = [pc EXCEPT ![j] = "run"] /\ runs' = [runs EXCEPT ![c] = @ + 1]
      /\ UNCHANGED <<at, executed>>
  BY DEF Start
<1>3. Shape' /\ Started'
  BY <1>1, <1>2 DEF Shape, Started, JobState
<1>4. Exclusive'
  BY <1>1, <1>2 DEF Exclusive, Shape, Entered
<1> QED
  BY <1>3, <1>4

(* Sleeping and being woken only exchange one way of waiting for another.  *)
LEMMA WaitStep ==
  ASSUME IInv, pc' \in [Command -> JobState], UNCHANGED <<at, executed, runs>>,
         \A k \in Command : pc'[k] \in Entered => pc[k] \in Entered
  PROVE  IInv'
  BY DEF IInv, Shape, Exclusive, Started

LEMMA LeaveStep ==
  ASSUME IInv, NEW j \in Command, Leave(j)
  PROVE  IInv'
<1> USE DEF IInv
<1>1. UNCHANGED <<at, executed, runs>>
  BY DEF Leave
<1>2. PICK s \in {"ok", "failed"} : pc' \in Notified(j, s) \/ Goto(j, s)
  BY DEF Leave
<1>3. \/ pc' = [pc EXCEPT ![j] = s]
      \/ \E k \in Command : pc[k] = "asleep" /\ pc' = [pc EXCEPT ![j] = s, ![k] = "lock"]
  BY <1>2 DEF Notified, Goto
<1>4. pc' \in [Command -> JobState]
  BY <1>3 DEF Shape, JobState
<1>5. \A k \in Command : pc'[k] \in Entered => pc[k] \in Entered
  BY <1>3 DEF Shape, Entered
<1> QED
  BY <1>1, <1>4, <1>5, WaitStep

LEMMA NextStep == IInv /\ [Next]_vars => IInv'
<1> SUFFICES ASSUME IInv, [Next]_vars PROVE IInv'
  OBVIOUS
<1>1. ASSUME NEW j \in Command, Step(j) PROVE IInv'
  <2>1. CASE FollowChain(j)
    BY <2>1, FollowStep
  <2>2. CASE \/ ChainDone(j) \/ ReachHead(j) \/ CheckThrows(j) \/ FindOutdated(j)
             \/ RefuseTwice(j) \/ NotYetExecuted(j) \/ LoseExchange(j)
             \/ RunEnds(j) \/ AfterThrows(j) \/ AfterCommand(j)
    <3>1. PICK s \in JobState \ Entered : Goto(j, s)
      BY <2>2 DEF ChainDone, ReachHead, CheckThrows, FindOutdated, RefuseTwice,
                  NotYetExecuted, LoseExchange, RunEnds, AfterThrows, AfterCommand,
                  OutputsMissing, JobState, Entered
    <3>2. UNCHANGED <<at, runs, executed>>
      BY <2>2 DEF ChainDone, ReachHead, CheckThrows, FindOutdated, RefuseTwice,
                  NotYetExecuted, LoseExchange, RunEnds, AfterThrows, AfterCommand
    <3> QED
      BY <3>1, <3>2, QuietStep DEF IInv, Shape
  <2>3. CASE FindUpToDate(j)
    <3>1. /\ Goto(j, "leave_ok") /\ UNCHANGED <<at, runs>>
          /\ executed' = [executed EXCEPT ![at[j]] = TRUE]
      BY <2>3 DEF FindUpToDate
    <3>2. "leave_ok" \in JobState \ Entered
      BY DEF JobState, Entered
    <3>3. /\ executed' \in [Command -> BOOLEAN]
          /\ \A c \in Command : executed[c] => executed'[c]
      BY <3>1 DEF IInv, Shape
    <3> QED
      BY <3>1, <3>2, <3>3, QuietStep
  <2>4. CASE WinExchange(j)
    BY <2>4, WinStep
  <2>5. CASE Lock(j)
    BY <2>5, LockStep
  <2>6. CASE Sleep(j)
    <3>1. /\ pc[j] = "lock" /\ pc' = [pc EXCEPT ![j] = "asleep"]
          /\ UNCHANGED <<at, executed, runs>>
      BY <2>6 DEF Sleep, Goto
    <3> QED
      BY <3>1, WaitStep DEF IInv, Shape, JobState, Entered
  <2>7. CASE Leave(j)
    BY <2>7, LeaveStep
  <2> QED
    BY <1>1, <2>1, <2>2, <2>3, <2>4, <2>5, <2>6, <2>7 DEF Step
<1>2. CASE UNCHANGED vars
  BY <1>2 DEF vars, IInv, Shape, Exclusive, Started
<1> QED
  BY <1>1, <1>2 DEF Next, AllEnded
-----------------------------------------------------------------------------
(* Whatever chains there are and however many jobs execute them, the       *)
(* program of a command is started at most once.                           *)
THEOREM ProgramsStartOnce == Spec => []StartedOnce
<1>1. Spec => []IInv
  BY InitInv, NextStep, PTL DEF Spec
<1>2. IInv => StartedOnce
  BY DEF IInv, Shape, Started, StartedOnce
<1> QED
  BY <1>1, <1>2, PTL
-----------------------------------------------------------------------------
(* A command that is to run always is always outdated. *)
Choices ==
  /\ always \in [Command -> BOOLEAN] /\ outdated \in [Command -> BOOLEAN]
  /\ \A c \in Command : always[c] => outdated[c]

LEMMA InitChoices == Init => Choices
<1> SUFFICES ASSUME Init PROVE Choices
  OBVIOUS
<1>1. PICK asked \in SUBSET MayBeAlways, fresh \in SUBSET MayBeFresh :
        /\ always = [c \in Command |-> c \in asked]
        /\ outdated = [c \in Command |-> always[c] \/ c \notin fresh]
  BY DEF Init
<1>2. \A c \in Command : always[c] \in BOOLEAN /\ outdated[c] \in BOOLEAN
  BY <1>1
<1>3. \A c \in Command : always[c] => outdated[c]
  BY <1>1
<1> QED
  BY <1>1, <1>2, <1>3 DEF Choices

LEMMA ChoicesStep == Shape /\ Choices /\ [Next]_vars => Choices'
<1> SUFFICES ASSUME Shape, Choices, [Next]_vars PROVE Choices'
  OBVIOUS
<1>1. ASSUME NEW j \in Command, AfterCommand(j), UNCHANGED always PROVE Choices'
  BY <1>1 DEF AfterCommand, Choices, Shape
<1>2. ASSUME NEW j \in Command, Step(j) PROVE Choices'
  <2>1. UNCHANGED always
    BY <1>2 DEF Step
  <2>2. AfterCommand(j) \/ UNCHANGED outdated
    BY <1>2 DEF Step, FollowChain, ChainDone, ReachHead, CheckThrows, FindUpToDate, FindOutdated,
                RefuseTwice, NotYetExecuted, LoseExchange, WinExchange, Lock, Sleep, RunEnds,
                AfterThrows, Leave
  <2> QED
    BY <1>1, <2>1, <2>2 DEF Choices
<1>3. CASE UNCHANGED vars
  BY <1>3 DEF vars, Choices
<1> QED
  BY <1>2, <1>3 DEF Next, AllEnded
-----------------------------------------------------------------------------
(* A command is being performed, or the job that did has failed. *)
Busy == Entered \cup {"run", "after"}
Pending == Busy \cup {"leave_failed", "failed"}

(* executed_ is set before the command is up to date: till then, the job    *)
(* that set it has not succeeded.  The job of a head never leaves it.       *)
ChainInv ==
  /\ \A j \in Command : pc[j] \in Busy => executed[at[j]]
  /\ \A j \in Command : pc[j] \in {"run", "after"} => runs[at[j]] = 1
  /\ \A c \in Command : Prev[c] = None =>
       /\ at[c] = c
       /\ pc[c] \in {"leave_ok", "ok"} => executed[c]
  /\ \A c \in Command : executed[c] /\ outdated[c] =>
       \/ \E k \in Command : at[k] = c /\ pc[k] \in Pending
       \/ always[c] /\ runs[c] = 1

LEMMA InitChain == Init => ChainInv
  BY DEF Init, ChainInv, Busy, Pending, Entered

(* Steps that keep executed_ and outdated, and lose no pending job. *)
LEMMA KeepsChain ==
  ASSUME Shape, ChainInv, NEW j \in Command, NEW s \in JobState,
         pc' = [pc EXCEPT ![j] = s], UNCHANGED <<at, executed, outdated, always, runs>>,
         s \in {"run", "after"} => pc[j] \in {"run", "after"},
         pc[j] \in Pending => s \in Pending,
         s \in Busy => pc[j] \in Busy,
         s = "leave_ok" => executed[at[j]],
         s = "ok" => pc[j] = "leave_ok" \/ Prev[at[j]] # None
  PROVE  ChainInv'
<1>1. \A k \in Command : pc'[k] = IF k = j THEN s ELSE pc[k]
  BY DEF Shape
<1>2. \A k \in Command : pc[k] \in Pending => pc'[k] \in Pending
  BY <1>1
<1>3. ASSUME NEW k \in Command, pc'[k] \in Busy PROVE executed'[at'[k]]
  BY <1>1, <1>3 DEF ChainInv
<1>4. ASSUME NEW c \in Command, Prev[c] = None
      PROVE  at'[c] = c /\ (pc'[c] \in {"leave_ok", "ok"} => executed'[c])
  BY <1>1, <1>4 DEF ChainInv
<1>5. ASSUME NEW c \in Command, executed'[c], outdated'[c]
      PROVE  \/ \E k \in Command : at'[k] = c /\ pc'[k] \in Pending
             \/ always'[c] /\ runs'[c] = 1
  BY <1>2, <1>5 DEF ChainInv
<1>6. \A k \in Command : pc'[k] \in {"run", "after"} => runs'[at'[k]] = 1
  BY <1>1 DEF ChainInv
<1> QED
  BY <1>3, <1>4, <1>5, <1>6 DEF ChainInv

LEMMA ChainStep == IInv /\ Choices /\ ChainInv /\ [Next]_vars => ChainInv'
<1> SUFFICES ASSUME IInv, Choices, ChainInv, [Next]_vars PROVE ChainInv'
  OBVIOUS
<1> USE ChainAssumption, NoneAssumption DEF IInv, Shape
<1>1. ASSUME NEW j \in Command, Step(j) PROVE ChainInv'
  <2>0. at[j] \in Command /\ UNCHANGED always
    BY <1>1 DEF Step
  <2>1. CASE FollowChain(j)
    BY <2>0, <2>1 DEF FollowChain, ChainInv, Busy, Pending, Entered
  <2>2. CASE ChainDone(j)
    BY <2>0, <2>2, KeepsChain DEF ChainDone, Goto, Busy, Pending, Entered, JobState
  <2>3. CASE ReachHead(j) \/ CheckThrows(j) \/ FindOutdated(j) \/ RefuseTwice(j)
             \/ NotYetExecuted(j) \/ Sleep(j) \/ RunEnds(j) \/ AfterThrows(j)
    <3>1. PICK s \in JobState \ {"ok", "leave_ok"} :
            /\ pc' = [pc EXCEPT ![j] = s]
            /\ pc[j] \in Pending => s \in Pending
            /\ s \in Busy => pc[j] \in Busy
            /\ s \in {"run", "after"} => pc[j] \in {"run", "after"}
      BY <2>3 DEF ReachHead, CheckThrows, FindOutdated, RefuseTwice, NotYetExecuted,
                  Sleep, RunEnds, AfterThrows, OutputsMissing, Goto, Busy, Pending,
                  Entered, JobState
    <3>2. UNCHANGED <<at, executed, outdated, runs>>
      BY <2>3 DEF ReachHead, CheckThrows, FindOutdated, RefuseTwice, NotYetExecuted,
                  Sleep, RunEnds, AfterThrows
    <3> QED
      BY <2>0, <3>1, <3>2, KeepsChain
  <2>4. CASE LoseExchange(j)
    BY <2>0, <2>4, KeepsChain
    DEF LoseExchange, MayStart, Goto, Busy, Pending, Entered, JobState
  <2>5. CASE Lock(j)
    <3>1. /\ pc[j] = "lock" /\ pc' = [pc EXCEPT ![j] = "run"]
          /\ runs' = [runs EXCEPT ![at[j]] = @ + 1]
          /\ UNCHANGED <<at, executed, outdated>>
      BY <2>5 DEF Lock, Goto, Start
    <3>2. \A c \in Command : runs'[c] = IF c = at[j] THEN 1 ELSE runs[c]
      BY <2>0, <3>1 DEF Exclusive, Entered
    <3>3. \A k \in Command : pc'[k] = IF k = j THEN "run" ELSE pc[k]
      BY <3>1
    <3> QED
      BY <2>0, <3>1, <3>2, <3>3 DEF ChainInv, Busy, Pending, Entered
  <2>6. CASE FindUpToDate(j)
    BY <2>0, <2>6 DEF FindUpToDate, Goto, ChainInv, Busy, Pending, Entered
  <2>7. CASE WinExchange(j)
    <3>1. PICK s \in Busy :
            /\ pc[j] = "exchange" /\ pc' = [pc EXCEPT ![j] = s] /\ ~executed[at[j]]
            /\ executed' = [executed EXCEPT ![at[j]] = TRUE]
            /\ s \in {"run", "after"} => runs' = [runs EXCEPT ![at[j]] = @ + 1]
            /\ s \notin {"run", "after"} => UNCHANGED runs
            /\ UNCHANGED <<at, outdated>>
      BY <2>7 DEF WinExchange, MayStart, Start, Goto, Busy, Entered
    <3>2. s \in Pending /\ s \notin {"leave_ok", "ok"}
      BY <3>1 DEF Busy, Pending, Entered
    <3>3. runs[at[j]] = 0
      BY <2>0, <3>1 DEF Started
    <3>4. \A c \in Command : runs[c] = 1 => runs'[c] = 1
      BY <2>0, <3>1, <3>3
    <3>5. \A k \in Command : pc'[k] = IF k = j THEN s ELSE pc[k]
      BY <3>1
    <3>6. \A k \in Command : pc'[k] \in {"run", "after"} => runs'[at'[k]] = 1
      BY <2>0, <3>1, <3>3, <3>4, <3>5 DEF ChainInv
    <3>7. \A k \in Command : pc'[k] \in Busy => executed'[at'[k]]
      BY <2>0, <3>1, <3>5 DEF ChainInv
    <3>8. \A c \in Command : Prev[c] = None =>
            at'[c] = c /\ (pc'[c] \in {"leave_ok", "ok"} => executed'[c])
      BY <2>0, <3>1, <3>2, <3>5 DEF ChainInv
    <3>9. ASSUME NEW c \in Command, executed'[c], outdated'[c]
          PROVE  \/ \E k \in Command : at'[k] = c /\ pc'[k] \in Pending
                 \/ always'[c] /\ runs'[c] = 1
      <4>1. CASE c = at[j]
        BY <3>1, <3>2, <3>5, <4>1
      <4>2. CASE c # at[j]
        <5>1. pc[j] \notin Pending /\ executed[c] /\ outdated[c]
          BY <2>0, <3>1, <3>9, <4>2 DEF Pending, Busy, Entered
        <5> QED
          BY <2>0, <3>1, <3>4, <3>5, <5>1 DEF ChainInv
      <4> QED
        BY <4>1, <4>2
    <3> QED
      BY <3>6, <3>7, <3>8, <3>9 DEF ChainInv
  <2>8. CASE AfterCommand(j)
    <3>1. /\ pc[j] = "after" /\ pc' = [pc EXCEPT ![j] = "leave_ok"]
          /\ outdated' = [outdated EXCEPT ![at[j]] = always[at[j]]]
          /\ UNCHANGED <<at, executed, runs>> /\ executed[at[j]] /\ runs[at[j]] = 1
      BY <2>8 DEF AfterCommand, Goto, ChainInv, Busy
    <3>2. \A c \in Command : outdated'[c] =>
            IF c = at[j] THEN always[c] /\ runs[c] = 1 ELSE outdated[c]
      BY <2>0, <3>1 DEF Choices
    <3> QED
      BY <2>0, <3>1, <3>2 DEF ChainInv, Busy, Pending, Entered
  <2>9. CASE Leave(j)
    <3>1. PICK s \in {"ok", "failed"} :
            /\ pc[j] = IF s = "ok" THEN "leave_ok" ELSE "leave_failed"
            /\ pc' \in Notified(j, s) \/ Goto(j, s)
      BY <2>9 DEF Leave
    <3>2. UNCHANGED <<at, executed, outdated, runs>>
      BY <2>9 DEF Leave
    <3>3. PICK k \in Command :
            \/ pc' = [pc EXCEPT ![j] = s]
            \/ pc[k] = "asleep" /\ pc' = [pc EXCEPT ![j] = s, ![k] = "lock"]
      BY <3>1 DEF Notified, Goto
    <3>4. CASE pc' = [pc EXCEPT ![j] = s]
      BY <2>0, <3>1, <3>2, <3>4, KeepsChain DEF Busy, Pending, Entered, JobState
    <3>5. CASE pc[k] = "asleep" /\ pc' = [pc EXCEPT ![j] = s, ![k] = "lock"]
      BY <2>0, <3>1, <3>2, <3>5 DEF ChainInv, Busy, Pending, Entered
    <3> QED
      BY <3>3, <3>4, <3>5
  <2> QED
    BY <1>1, <2>1, <2>2, <2>3, <2>4, <2>5, <2>6, <2>7, <2>8, <2>9 DEF Step
<1>2. CASE UNCHANGED vars
  BY <1>2 DEF vars, ChainInv
<1> QED
  BY <1>1, <1>2 DEF Next, AllEnded

(* When all jobs succeed, the head of every chain was performed or was up   *)
(* to date, whichever job of the chain did it; one that is to run always    *)
(* was performed.                                                           *)
THEOREM ChainsArePerformed == Spec => []ChainPerformed
<1>1. Init => IInv /\ Choices /\ ChainInv
  BY InitInv, InitChoices, InitChain
<1>2. IInv /\ Choices /\ ChainInv /\ [Next]_vars => (IInv /\ Choices /\ ChainInv)'
  BY NextStep, ChoicesStep, ChainStep DEF IInv
<1>3. IInv /\ Choices /\ ChainInv => ChainPerformed
  BY DEF ChainInv, Choices, ChainPerformed, Pending, Busy, Entered
<1> QED
  BY <1>1, <1>2, <1>3, PTL DEF Spec
-----------------------------------------------------------------------------
(* Resources are accounted for by who took and who gave: a job that waits  *)
(* has taken nothing, one that took has still to leave, and executed_ of a *)
(* pooled command was set by a job that found it up to date, or by one     *)
(* that took a resource for it or will.                                    *)
Locking == {j \in Command : pc[j] = "lock"}
Leaving == {"leave_ok", "leave_failed"}

Somebody ==
  \A c \in Pooled :
    executed[c] => (~outdated[c] /\ runs[c] = 0) \/ \E k \in Command : k \in Performers(c)

Takers ==
  \A j \in took : /\ at[j] \in Pooled /\ executed[at[j]]
                  /\ pc[j] \in {"run", "after"} \cup Leaving \cup Ended

PoolInv ==
  /\ n \in Nat /\ took \in SUBSET Command /\ gave \in SUBSET Command
  /\ \A j \in Command : pc[j] \in Entered => at[j] \in Pooled
  /\ \A j \in gave : pc[j] \in Ended /\ at[j] \in Pooled
  /\ Takers /\ Somebody
  /\ PoolAccounted /\ TakersGiveBack /\ SurplusExplained /\ NoLostWakeup

LEMMA InitPool == Init => PoolInv
<1> SUFFICES ASSUME Init PROVE PoolInv
  OBVIOUS
<1>1. took = {} /\ gave = {} /\ n = Resources /\ Kept = {} /\ Surplus = {}
  BY DEF Init, Kept, Surplus
<1>2. PoolAccounted
  BY <1>1, FS_EmptySet, PoolAssumption DEF PoolAccounted
<1>3. Takers /\ TakersGiveBack /\ SurplusExplained
  BY <1>1 DEF Takers, TakersGiveBack, SurplusExplained
<1>4. NoLostWakeup /\ Somebody
  BY PoolAssumption DEF Init, NoLostWakeup, Somebody
<1>5. \A j \in Command : pc[j] \notin Entered
  BY DEF Init, Entered
<1> QED
  BY <1>1, <1>2, <1>3, <1>4, <1>5, PoolAssumption DEF PoolInv

(* The sets that are counted are finite, and change by one job at a time.  *)
LEMMA Counted ==
  ASSUME PoolInv
  PROVE  /\ Cardinality(Kept) \in Nat /\ IsFiniteSet(Kept)
         /\ Cardinality(Surplus) \in Nat /\ IsFiniteSet(Surplus)
         /\ Cardinality(Locking) \in Nat /\ IsFiniteSet(Locking)
<1>1. \A S \in SUBSET Command : IsFiniteSet(S)
  BY CommandsAssumption, FS_Subset
<1>2. Kept \in SUBSET Command /\ Surplus \in SUBSET Command /\ Locking \in SUBSET Command
  BY DEF Kept, Surplus, Locking, PoolInv
<1> QED
  BY <1>1, <1>2, FS_CardinalityType

LEMMA JoinCounts ==
  ASSUME NEW S, IsFiniteSet(S), NEW x, x \notin S
  PROVE  Cardinality(S \cup {x}) = Cardinality(S) + 1
  BY FS_AddElement

LEMMA PartCounts ==
  ASSUME NEW S, IsFiniteSet(S), NEW x, x \in S
  PROVE  Cardinality(S \ {x}) = Cardinality(S) - 1
  BY FS_RemoveElement

(* A job that performs a command never stops being the one that did.        *)
LEMMA PerformersStay ==
  ASSUME \A k \in Command : k \in took \/ pc[k] \in Entered =>
           at'[k] = at[k] /\ (k \in took' \/ pc'[k] \in Entered)
  PROVE  \A c \in Command : \A k \in Performers(c) : k \in Performers(c)'
  BY DEF Performers, Entered

(* The causes of a surplus stay causes: executed_ and at are kept where     *)
(* they matter, and what starts late was waiting before.                    *)
LEMMA CausesStay ==
  ASSUME Shape, PoolInv, at' \in [Command -> Command], gave' = gave, took \subseteq took',
         \A c \in Command : \A k \in Performers(c) : k \in Performers(c)',
         \A k \in gave : at'[k] = at[k],
         \A c \in Pooled : ~outdated[c] /\ runs[c] = 0 =>
           \/ ~outdated'[c] /\ runs'[c] = 0
           \/ \E k \in Performers(c)' : k \notin gave'
  PROVE  SurplusExplained'
<1> SUFFICES ASSUME NEW j \in Surplus'
             PROVE  \/ ~outdated'[at'[j]] /\ runs'[at'[j]] = 0
                    \/ \E k \in Command : k # j /\ at'[k] = at'[j]
                                           /\ (k \in took' \/ pc'[k] \in Entered)
  BY DEF SurplusExplained, Performers, Entered
<1>1. j \in Surplus /\ j \in gave /\ j \in gave' /\ j \in Command
  BY DEF Surplus, PoolInv
<1>2. at'[j] = at[j] /\ at[j] \in Pooled /\ at[j] \in Command
  BY <1>1 DEF PoolInv, Shape
<1>3. \/ ~outdated[at[j]] /\ runs[at[j]] = 0
      \/ \E k \in Performers(at[j]) : k # j
  BY <1>1 DEF PoolInv, SurplusExplained
<1>4. \A c \in Command : \A k \in Performers(c)' :
        k \in Command /\ at'[k] = c /\ (k \in took' \/ pc'[k] \in Entered)
  BY DEF Performers, Entered
<1> QED
  BY <1>1, <1>2, <1>3, <1>4

(* Steps of a job that neither wait for a resource, nor take one, nor give  *)
(* one back.                                                                *)
LEMMA QuietPool ==
  ASSUME Shape, PoolInv, NEW j \in Command, NEW s \in JobState \ Entered,
         pc' = [pc EXCEPT ![j] = s], pc[j] \notin Entered \cup Ended,
         UNCHANGED <<at, n, took, gave>>,
         executed' \in [Command -> BOOLEAN], \A c \in Command : executed[c] => executed'[c],
         \A c \in Command : outdated'[c] => outdated[c],
         \A c \in Pooled : runs'[c] = runs[c],
         j \in took => s \in {"run", "after"} \cup Leaving,
         \A c \in Pooled : executed'[c] => executed[c] \/ (~outdated'[c] /\ runs'[c] = 0)
  PROVE  PoolInv'
<1> USE PoolAssumption
<1>1. \A k \in Command : pc'[k] = IF k = j THEN s ELSE pc[k]
  BY DEF Shape
<1>2. \A c \in Command : \A k \in Performers(c) : k \in Performers(c)'
  BY <1>1, PerformersStay
<1>3. Takers'
  BY <1>1 DEF Takers, PoolInv
<1>4. Somebody'
  <2> SUFFICES ASSUME NEW c \in Pooled, executed'[c]
               PROVE  (~outdated'[c] /\ runs'[c] = 0) \/ \E k \in Command : k \in Performers(c)'
    BY DEF Somebody
  <2>1. CASE ~executed[c]
    BY <2>1
  <2>2. CASE executed[c]
    BY <2>2, <1>2 DEF PoolInv, Somebody
  <2> QED
    BY <2>1, <2>2
<1>5. SurplusExplained'
  BY <1>2, CausesStay DEF Shape, PoolInv
<1>6. TakersGiveBack'
  <2>1. \A k \in took : k # j => pc'[k] = pc[k]
    BY <1>1 DEF PoolInv
  <2>2. j \in took => pc'[j] \notin Ended /\ pc[j] \notin Ended
    BY <1>1 DEF Ended, Leaving
  <2> QED
    BY <2>1, <2>2 DEF TakersGiveBack, PoolInv
<1>7. PoolAccounted'
  BY DEF PoolAccounted, PoolInv, Kept, Surplus
<1>8. NoLostWakeup'
  <2>1. /\ Locking' = Locking
        /\ (\E k \in Command : pc'[k] = "asleep") => \E k \in Command : pc[k] = "asleep"
    BY <1>1 DEF Locking, Entered
  <2> QED
    BY <2>1 DEF NoLostWakeup, Locking, PoolInv
<1>9. \A k \in Command : pc'[k] \in Entered => at'[k] \in Pooled
  BY <1>1 DEF PoolInv
<1>10. \A k \in gave' : pc'[k] \in Ended /\ at'[k] \in Pooled
  BY <1>1 DEF PoolInv
<1> QED
  BY <1>3, <1>4, <1>5, <1>6, <1>7, <1>8, <1>9, <1>10 DEF PoolInv

(* A job that follows a chain performs nothing yet.                         *)
LEMMA FollowPool ==
  ASSUME Shape, PoolInv, NEW j \in Command, FollowChain(j)
  PROVE  PoolInv'
<1> USE ChainAssumption, NoneAssumption, PoolAssumption
<1>1. /\ pc[j] = "chain" /\ at' = [at EXCEPT ![j] = Prev[at[j]]]
      /\ Prev[at[j]] \in Command
      /\ UNCHANGED <<pc, executed, outdated, runs, n, took, gave>>
  BY DEF FollowChain, Shape, poolVars
<1>2. \A k \in Command : k # j => at'[k] = at[k]
  BY <1>1 DEF Shape
<1>3. j \notin took /\ j \notin gave /\ pc[j] \notin Entered
  BY <1>1 DEF PoolInv, Takers, Leaving, Ended, Entered
<1>4. \A c \in Command : \A k \in Performers(c) : k \in Performers(c)'
  BY <1>1, <1>2, <1>3, PerformersStay
<1>5. Takers' /\ Somebody'
  BY <1>1, <1>2, <1>3, <1>4 DEF PoolInv, Takers, Somebody
<1>6. SurplusExplained'
  BY <1>1, <1>2, <1>3, <1>4, CausesStay DEF Shape, PoolInv
<1>7. PoolAccounted' /\ TakersGiveBack' /\ NoLostWakeup'
  BY <1>1 DEF PoolInv, PoolAccounted, TakersGiveBack, NoLostWakeup, Kept, Surplus
<1>8. \A k \in Command : pc'[k] \in Entered => at'[k] \in Pooled
  BY <1>1, <1>2, <1>3 DEF PoolInv
<1>9. \A k \in gave' : pc'[k] \in Ended /\ at'[k] \in Pooled
  BY <1>1, <1>2, <1>3 DEF PoolInv
<1> QED
  BY <1>1, <1>5, <1>6, <1>7, <1>8, <1>9 DEF PoolInv

(* The job that wins the exchange of a pooled command is the one that will  *)
(* perform it; it is awake.                                                 *)
LEMMA WinPool ==
  ASSUME Shape, PoolInv, NEW j \in Command, WinExchange(j),
         at[j] \in Pooled
  PROVE  PoolInv'
<1> USE PoolAssumption
<1>1. /\ pc[j] = "exchange" /\ pc' = [pc EXCEPT ![j] = "lock"]
      /\ executed' = [executed EXCEPT ![at[j]] = TRUE]
      /\ UNCHANGED <<at, outdated, runs, n, took, gave>>
  BY DEF WinExchange, Goto, poolVars
<1>2. \A k \in Command : pc'[k] = IF k = j THEN "lock" ELSE pc[k]
  BY <1>1 DEF Shape
<1>3. \A c \in Command : executed'[c] <=> (c = at[j] \/ executed[c])
  BY <1>1 DEF Shape
<1>4. j \notin took /\ j \notin gave
  BY <1>1 DEF PoolInv, Takers, Leaving, Ended
<1>5. \A c \in Command : \A k \in Performers(c) : k \in Performers(c)'
  BY <1>1, <1>2, PerformersStay DEF Entered
<1>6. Takers'
  BY <1>1, <1>2, <1>3, <1>4 DEF PoolInv, Takers, Shape
<1>7. Somebody'
  <2>1. j \in Performers(at[j])'
    BY <1>1, <1>2 DEF Performers
  <2> QED
    BY <1>1, <1>3, <1>5, <2>1 DEF PoolInv, Somebody
<1>8. SurplusExplained'
  BY <1>1, <1>5, CausesStay DEF Shape, PoolInv
<1>9. PoolAccounted'
  BY <1>1 DEF PoolInv, PoolAccounted, Kept, Surplus
<1>10. TakersGiveBack'
  BY <1>1, <1>2, <1>4 DEF PoolInv, TakersGiveBack
<1>11. NoLostWakeup'
  <2>1. (\E k \in Command : pc'[k] = "asleep") => \E k \in Command : pc[k] = "asleep"
    BY <1>2
  <2>2. Locking' = Locking \cup {j} /\ j \notin Locking
    BY <1>1, <1>2 DEF Locking
  <2>3. Cardinality(Locking') = Cardinality(Locking) + 1
    BY <2>2, Counted, JoinCounts
  <2>4. (\E k \in Command : pc'[k] = "asleep") => Cardinality(Locking) >= n
    BY <2>1 DEF PoolInv, NoLostWakeup, Locking
  <2>5. (\E k \in Command : pc'[k] = "asleep") => Cardinality(Locking') >= n'
    BY <1>1, <2>3, <2>4, Counted DEF PoolInv
  <2> QED
    BY <2>5 DEF NoLostWakeup, Locking
<1>12. \A k \in Command : pc'[k] \in Entered => at'[k] \in Pooled
  BY <1>1, <1>2 DEF PoolInv
<1>13. \A k \in gave' : pc'[k] \in Ended /\ at'[k] \in Pooled
  BY <1>1, <1>2, <1>4 DEF PoolInv
<1> QED
  BY <1>1, <1>6, <1>7, <1>8, <1>9, <1>10, <1>11, <1>12, <1>13 DEF PoolInv

(* A job that starts to sleep has just seen that no resource is free.       *)
LEMMA SleepPool ==
  ASSUME Shape, PoolInv, NEW j \in Command, Sleep(j)
  PROVE  PoolInv'
<1> USE PoolAssumption
<1>1. /\ pc[j] = "lock" /\ n = 0 /\ pc' = [pc EXCEPT ![j] = "asleep"]
      /\ UNCHANGED <<at, executed, outdated, runs, n, took, gave>>
  BY DEF Sleep, HasResource, Goto, PoolInv, poolVars
<1>2. \A k \in Command : pc'[k] = IF k = j THEN "asleep" ELSE pc[k]
  BY <1>1 DEF Shape
<1>3. j \notin took /\ j \notin gave
  BY <1>1 DEF PoolInv, Takers, Leaving, Ended
<1>4. \A c \in Command : \A k \in Performers(c) : k \in Performers(c)'
  BY <1>1, <1>2, PerformersStay DEF Entered
<1>5. Takers' /\ Somebody'
  BY <1>1, <1>2, <1>3, <1>4 DEF PoolInv, Takers, Somebody
<1>6. SurplusExplained'
  BY <1>1, <1>4, CausesStay DEF Shape, PoolInv
<1>7. PoolAccounted'
  BY <1>1 DEF PoolInv, PoolAccounted, Kept, Surplus
<1>8. TakersGiveBack'
  BY <1>1, <1>2, <1>3 DEF PoolInv, TakersGiveBack
<1>9. NoLostWakeup'
  <2>1. Locking' = Locking \ {j}
    BY <1>1, <1>2 DEF Locking
  <2>2. Cardinality(Locking') \in Nat
    BY <2>1, Counted, FS_RemoveElement, FS_Subset, FS_CardinalityType
  <2> QED
    BY <1>1, <2>2 DEF NoLostWakeup, Locking
<1>10. \A k \in Command : pc'[k] \in Entered => at'[k] \in Pooled
  BY <1>1, <1>2 DEF PoolInv, Entered
<1>11. \A k \in gave' : pc'[k] \in Ended /\ at'[k] \in Pooled
  BY <1>1, <1>2, <1>3 DEF PoolInv
<1> QED
  BY <1>1, <1>5, <1>6, <1>7, <1>8, <1>9, <1>10, <1>11 DEF PoolInv

(* The job that takes a resource needs no wake-up any more.                 *)
LEMMA LockPool ==
  ASSUME IInv, PoolInv, NEW j \in Command, Lock(j)
  PROVE  PoolInv'
<1> USE PoolAssumption DEF IInv
<1> DEFINE c == at[j]
<1>1. /\ pc[j] = "lock" /\ n > 0 /\ n' = n - 1 /\ pc' = [pc EXCEPT ![j] = "run"]
      /\ took' = took \cup {j} /\ runs' = [runs EXCEPT ![c] = @ + 1]
      /\ UNCHANGED <<at, executed, outdated, gave>> /\ c \in Pooled /\ c \in Command
  BY DEF Lock, HasResource, Goto, Start, PoolInv, Entered, Shape
<1>2. \A k \in Command : pc'[k] = IF k = j THEN "run" ELSE pc[k]
  BY <1>1 DEF Shape
<1>3. j \notin took /\ j \notin gave
  BY <1>1 DEF PoolInv, Takers, Leaving, Ended
<1>4. \A d \in Command : \A k \in Performers(d) : k \in Performers(d)'
  BY <1>1, <1>2, PerformersStay DEF Entered
<1>5. j \in Performers(c)'
  BY <1>1 DEF Performers
<1>6. Takers'
  BY <1>1, <1>2 DEF PoolInv, Takers, Exclusive, Entered
<1>7. \A d \in Pooled : d # c => runs'[d] = runs[d]
  BY <1>1 DEF Shape
<1>8. Somebody'
  BY <1>1, <1>4, <1>5, <1>7 DEF PoolInv, Somebody
<1>9. SurplusExplained'
  <2>1. \A d \in Pooled : ~outdated[d] /\ runs[d] = 0 =>
          \/ ~outdated'[d] /\ runs'[d] = 0
          \/ \E k \in Performers(d)' : k \notin gave'
    BY <1>1, <1>3, <1>5, <1>7
  <2> QED
    BY <1>1, <1>4, <2>1, CausesStay DEF Shape, PoolInv
<1>10. n' \in Nat
  BY <1>1 DEF PoolInv
<1>11. PoolAccounted'
  <2>1. Kept' = Kept \cup {j} /\ j \notin Kept
    BY <1>1, <1>3 DEF Kept
  <2>2. Surplus' = Surplus
    BY <1>1, <1>3 DEF Surplus
  <2>3. Cardinality(Kept') = Cardinality(Kept) + 1
    BY <2>1, Counted, JoinCounts
  <2>4. n' + Cardinality(Kept') = n + Cardinality(Kept)
    BY <1>1, <2>3, Counted DEF PoolInv
  <2> QED
    BY <2>2, <2>4 DEF PoolInv, PoolAccounted
<1>12. TakersGiveBack'
  BY <1>1, <1>2, <1>3 DEF PoolInv, TakersGiveBack, Ended
<1>13. NoLostWakeup'
  <2>1. Locking' = Locking \ {j} /\ j \in Locking
    BY <1>1, <1>2 DEF Locking
  <2>2. Cardinality(Locking') = Cardinality(Locking) - 1
    BY <2>1, Counted, PartCounts
  <2>3. (\E k \in Command : pc'[k] = "asleep") => Cardinality(Locking) >= n
    BY <1>2 DEF PoolInv, NoLostWakeup, Locking
  <2>4. (\E k \in Command : pc'[k] = "asleep") => Cardinality(Locking') >= n'
    BY <1>1, <2>2, <2>3, Counted DEF PoolInv
  <2> QED
    BY <2>4 DEF NoLostWakeup, Locking
<1>14. \A k \in Command : pc'[k] \in Entered => at'[k] \in Pooled
  BY <1>1, <1>2 DEF PoolInv, Entered
<1>15. \A k \in gave' : pc'[k] \in Ended /\ at'[k] \in Pooled
  BY <1>1, <1>2, <1>3 DEF PoolInv
<1> QED
  BY <1>1, <1>6, <1>8, <1>9, <1>10, <1>11, <1>12, <1>13, <1>14, <1>15 DEF PoolInv

(* What is given back is what the job took, or a surplus that the one who   *)
(* set executed_ explains; it wakes one of those that sleep.                *)
LEMMA UnlockPool ==
  ASSUME Shape, PoolInv, NEW j \in Command, Leave(j), Unlocks(j)
  PROVE  PoolInv'
<1> USE PoolAssumption
<1>1. PICK s \in Ended : n' = n + 1 /\ gave' = gave \cup {j} /\ pc' \in Notified(j, s)
  BY DEF Leave, Ended
<1>2. /\ pc[j] \in Leaving /\ at[j] \in Pooled /\ executed[at[j]] /\ at[j] \in Command
      /\ UNCHANGED <<at, executed, outdated, runs, took>>
  BY DEF Leave, Unlocks, Leaving, Shape
<1>3. \/ pc' = [pc EXCEPT ![j] = s] /\ \A k \in Command : pc[k] # "asleep"
      \/ \E k \in Command : pc[k] = "asleep" /\ pc' = [pc EXCEPT ![j] = s, ![k] = "lock"]
  BY <1>1 DEF Notified
<1>4. \A k \in Command \ {j} : pc'[k] = pc[k] \/ (pc[k] = "asleep" /\ pc'[k] = "lock")
  <2>1. CASE pc' = [pc EXCEPT ![j] = s]
    BY <2>1 DEF Shape
  <2>2. ASSUME NEW l \in Command, pc[l] = "asleep", pc' = [pc EXCEPT ![j] = s, ![l] = "lock"]
        PROVE  \A k \in Command \ {j} : pc'[k] = pc[k] \/ (pc[k] = "asleep" /\ pc'[k] = "lock")
    BY <2>2 DEF Shape
  <2> QED
    BY <1>3, <2>1, <2>2
<1>5. pc'[j] = s
  BY <1>2, <1>3 DEF Shape, Leaving
<1>6. j \notin gave /\ pc[j] \notin Entered /\ pc[j] \notin Ended
  BY <1>2 DEF PoolInv, Leaving, Ended, Entered
<1>7. \A c \in Command : \A k \in Performers(c) : k \in Performers(c)'
  BY <1>2, <1>4, <1>6, PerformersStay DEF Entered
<1>8. \A k \in Command : k # j => (pc'[k] \in Ended <=> pc[k] \in Ended)
  BY <1>4 DEF Ended
<1>9. Takers'
  BY <1>1, <1>2, <1>4, <1>5 DEF PoolInv, Takers, Leaving, Ended
<1>10. Somebody'
  BY <1>2, <1>7 DEF PoolInv, Somebody
<1>11. SurplusExplained'
  <2> SUFFICES ASSUME NEW i \in Surplus'
               PROVE  \/ ~outdated'[at'[i]] /\ runs'[at'[i]] = 0
                      \/ \E k \in Command : k # i /\ at'[k] = at'[i]
                                             /\ (k \in took' \/ pc'[k] \in Entered)
    BY DEF SurplusExplained, Performers, Entered
  <2>0. \A c \in Command : \A k \in Performers(c)' :
          k \in Command /\ at'[k] = c /\ (k \in took' \/ pc'[k] \in Entered)
    BY DEF Performers, Entered
  <2>1. CASE i = j
    <3>1. j \notin took /\ j \notin Performers(at[j])
      BY <1>2, <1>6, <2>1 DEF Surplus, Performers, Entered
    <3> QED
      BY <1>2, <1>7, <2>0, <2>1, <3>1 DEF PoolInv, Somebody
  <2>2. CASE i # j
    <3>1. i \in Surplus /\ i \in Command /\ at[i] \in Command
      BY <1>1, <1>2, <2>2 DEF Surplus, PoolInv, Shape
    <3> QED
      BY <1>2, <1>7, <2>0, <3>1 DEF PoolInv, SurplusExplained
  <2> QED
    BY <2>1, <2>2
<1>12. n' \in Nat
  BY <1>1 DEF PoolInv
<1>13. PoolAccounted'
  <2>1. CASE j \in took
    <3>1. Kept' = Kept \ {j} /\ j \in Kept /\ Surplus' = Surplus
      BY <1>1, <1>2, <1>6, <2>1 DEF Kept, Surplus
    <3>2. Cardinality(Kept') = Cardinality(Kept) - 1
      BY <3>1, Counted, PartCounts
    <3>3. n' + Cardinality(Kept') = n + Cardinality(Kept)
      BY <1>1, <3>2, Counted DEF PoolInv
    <3> QED
      BY <3>1, <3>3 DEF PoolInv, PoolAccounted
  <2>2. CASE j \notin took
    <3>1. Kept' = Kept /\ Surplus' = Surplus \cup {j} /\ j \notin Surplus
      BY <1>1, <1>2, <1>6, <2>2 DEF Kept, Surplus
    <3>2. Cardinality(Surplus') = Cardinality(Surplus) + 1
      BY <3>1, Counted, JoinCounts
    <3>3. n + Cardinality(Kept) = Resources + Cardinality(Surplus)
      BY DEF PoolInv, PoolAccounted
    <3>4. n' + Cardinality(Kept) = Resources + Cardinality(Surplus')
      BY <1>1, <3>2, <3>3, Counted, PoolAssumption DEF PoolInv
    <3> QED
      BY <3>1, <3>4 DEF PoolAccounted
  <2> QED
    BY <2>1, <2>2
<1>14. TakersGiveBack'
  BY <1>1, <1>2, <1>5, <1>8 DEF PoolInv, TakersGiveBack
<1>15. NoLostWakeup'
  <2>1. CASE \A k \in Command : pc[k] # "asleep"
    <3>1. \A k \in Command : pc'[k] # "asleep"
      BY <1>4, <1>5, <2>1 DEF Ended
    <3> QED
      BY <3>1 DEF NoLostWakeup
  <2>2. CASE \E k \in Command : pc[k] = "asleep"
    <3>1. PICK k \in Command : pc[k] = "asleep"
                              /\ pc' = [pc EXCEPT ![j] = s, ![k] = "lock"]
      BY <1>3, <2>2
    <3>2. Locking' = Locking \cup {k} /\ k \notin Locking
      BY <1>2, <1>5, <3>1 DEF Locking, Shape, Leaving, Ended
    <3>3. Cardinality(Locking') = Cardinality(Locking) + 1
      BY <3>2, Counted, JoinCounts
    <3>4. Cardinality(Locking) >= n
      BY <3>1 DEF PoolInv, NoLostWakeup, Locking
    <3>5. Cardinality(Locking') >= n'
      BY <1>1, <3>3, <3>4, Counted DEF PoolInv
    <3> QED
      BY <3>5 DEF NoLostWakeup, Locking
  <2> QED
    BY <2>1, <2>2
<1>16. \A k \in Command : pc'[k] \in Entered => at'[k] \in Pooled
  BY <1>2, <1>4, <1>5 DEF PoolInv, Entered, Ended
<1>17. \A k \in gave' : pc'[k] \in Ended /\ at'[k] \in Pooled
  BY <1>1, <1>2, <1>5, <1>8 DEF PoolInv
<1> QED
  BY <1>1, <1>2, <1>9, <1>10, <1>11, <1>12, <1>13, <1>14, <1>15, <1>16, <1>17 DEF PoolInv

LEMMA PoolStep == IInv /\ Choices /\ PoolInv /\ [Next]_vars => PoolInv'
<1> SUFFICES ASSUME IInv, Choices, PoolInv, [Next]_vars PROVE PoolInv'
  OBVIOUS
<1> USE DEF IInv
<1>1. ASSUME NEW j \in Command, Step(j) PROVE PoolInv'
  <2>0. at[j] \in Command /\ UNCHANGED always /\ (\A c \in Pooled : c \in Command)
    BY <1>1, PoolAssumption DEF Shape, Step
  <2>1. CASE FollowChain(j)
    BY <2>0, <2>1, FollowPool
  <2>2. CASE ChainDone(j) \/ ReachHead(j) \/ CheckThrows(j) \/ FindOutdated(j)
             \/ RefuseTwice(j) \/ NotYetExecuted(j) \/ LoseExchange(j)
    <3>1. PICK s \in JobState \ Entered :
            /\ pc' = [pc EXCEPT ![j] = s]
            /\ pc[j] \in {"chain", "check", "twice", "exchange"}
            /\ UNCHANGED <<at, executed, outdated, runs, n, took, gave>>
      BY <2>2 DEF ChainDone, ReachHead, CheckThrows, FindOutdated, RefuseTwice,
                  NotYetExecuted, LoseExchange, Goto, poolVars, JobState, Entered
    <3>2. pc[j] \notin Entered \cup Ended /\ j \notin took
      BY <3>1 DEF PoolInv, Takers, Leaving, Ended, Entered
    <3> QED
      BY <2>0, <3>1, <3>2, QuietPool DEF PoolInv, Shape
  <2>3. CASE FindUpToDate(j)
    <3>1. /\ pc[j] = "check" /\ pc' = [pc EXCEPT ![j] = "leave_ok"] /\ ~outdated[at[j]]
          /\ executed' = [executed EXCEPT ![at[j]] = TRUE]
          /\ UNCHANGED <<at, outdated, runs, n, took, gave>>
      BY <2>3 DEF FindUpToDate, Goto, poolVars
    <3>2. "leave_ok" \in JobState \ Entered /\ pc[j] \notin Entered \cup Ended /\ j \notin took
      BY <3>1 DEF PoolInv, Takers, Leaving, Ended, Entered, JobState
    <3>3. /\ executed' \in [Command -> BOOLEAN]
          /\ \A c \in Command : executed[c] => executed'[c]
      BY <3>1 DEF Shape
    <3>4. \A c \in Pooled : executed'[c] => executed[c] \/ (~outdated'[c] /\ runs'[c] = 0)
      BY <2>0, <3>1 DEF Shape, Started
    <3> QED
      BY <2>0, <3>1, <3>2, <3>3, <3>4, QuietPool DEF PoolInv
  <2>4. CASE WinExchange(j) /\ at[j] \in Pooled
    BY <2>0, <2>4, WinPool
  <2>5. CASE WinExchange(j) /\ at[j] \notin Pooled
    <3>1. /\ pc[j] = "exchange" /\ pc' = [pc EXCEPT ![j] = "run"]
          /\ executed' = [executed EXCEPT ![at[j]] = TRUE]
          /\ runs' = [runs EXCEPT ![at[j]] = @ + 1]
          /\ UNCHANGED <<at, outdated, n, took, gave>>
      BY <2>5 DEF WinExchange, Goto, Start, poolVars
    <3>2. "run" \in JobState \ Entered /\ pc[j] \notin Entered \cup Ended /\ j \notin took
      BY <3>1 DEF PoolInv, Takers, Leaving, Ended, Entered, JobState
    <3>3. /\ executed' \in [Command -> BOOLEAN]
          /\ \A c \in Command : executed[c] => executed'[c]
          /\ \A c \in Pooled : runs'[c] = runs[c] /\ executed'[c] = executed[c]
      BY <2>0, <2>5, <3>1 DEF Shape
    <3> QED
      BY <2>0, <3>1, <3>2, <3>3, QuietPool DEF PoolInv
  <2>6. CASE Lock(j)
    BY <2>0, <2>6, LockPool
  <2>7. CASE Sleep(j)
    BY <2>0, <2>7, SleepPool
  <2>8. CASE RunEnds(j) \/ AfterThrows(j) \/ AfterCommand(j)
    <3>1. PICK s \in {"after"} \cup Leaving :
            /\ pc[j] \in {"run", "after"} /\ pc' = [pc EXCEPT ![j] = s]
            /\ UNCHANGED <<at, executed, runs, n, took, gave>>
      BY <2>8 DEF RunEnds, AfterThrows, AfterCommand, OutputsMissing, Goto, poolVars, Leaving
    <3>2. s \in JobState \ Entered /\ pc[j] \notin Entered \cup Ended
      BY <3>1 DEF JobState, Entered, Ended, Leaving
    <3>3. \A c \in Command : outdated'[c] => outdated[c]
      <4>1. CASE AfterCommand(j)
        <5>1. outdated' = [outdated EXCEPT ![at[j]] = always[at[j]]]
          BY <4>1 DEF AfterCommand
        <5> QED
          BY <2>0, <5>1 DEF Choices
      <4>2. CASE RunEnds(j) \/ AfterThrows(j)
        BY <4>2 DEF RunEnds, AfterThrows, Choices
      <4> QED
        BY <2>8, <4>1, <4>2
    <3> QED
      BY <2>0, <3>1, <3>2, <3>3, QuietPool DEF Shape
  <2>9. CASE Leave(j) /\ Unlocks(j)
    BY <2>0, <2>9, UnlockPool
  <2>10. CASE Leave(j) /\ ~Unlocks(j)
    <3>1. PICK s \in Ended :
            /\ pc[j] \in Leaving /\ pc' = [pc EXCEPT ![j] = s]
            /\ UNCHANGED <<at, executed, outdated, runs, n, took, gave>>
      BY <2>10 DEF Leave, Goto, Leaving, Ended
    <3>2. j \notin took
      BY <2>10 DEF Unlocks, PoolInv, Takers
    <3>3. s \in JobState \ Entered /\ pc[j] \notin Entered \cup Ended
      BY <3>1 DEF JobState, Entered, Ended, Leaving
    <3> QED
      BY <2>0, <3>1, <3>2, <3>3, QuietPool DEF PoolInv, Shape
  <2> QED
    BY <1>1, <2>1, <2>2, <2>3, <2>4, <2>5, <2>6, <2>7, <2>8, <2>9, <2>10 DEF Step
<1>2. CASE UNCHANGED vars
  BY <1>2 DEF vars, PoolInv, PoolAccounted, TakersGiveBack, SurplusExplained, NoLostWakeup,
              Kept, Surplus, Performers, Takers, Somebody
<1> QED
  BY <1>1, <1>2 DEF Next, AllEnded

(* For any jobs, chains and sizes of the pool, whichever commands are up to *)
(* date or run always and whichever way they leave: no resource and no     *)
(* wake-up is lost, who took a resource gives it back, and the pool grows  *)
(* beyond its size by the jobs of up-to-date or piped commands only.       *)
THEOREM PoolsAreSound == Spec => []PoolSound
<1>1. Init => IInv /\ Choices /\ PoolInv
  BY InitInv, InitChoices, InitPool
<1>2. IInv /\ Choices /\ PoolInv /\ [Next]_vars => (IInv /\ Choices /\ PoolInv)'
  BY NextStep, ChoicesStep, PoolStep DEF IInv
<1>3. IInv /\ Choices /\ PoolInv => PoolSound
  BY DEF IInv, Choices, PoolInv, PoolSound, TypeOK, Shape
<1> QED
  BY <1>1, <1>2, <1>3, PTL DEF Spec
=============================================================================
