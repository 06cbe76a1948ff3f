----------------------------- MODULE FileStorage -----------------------------
(***************************************************************************)
(* The time of one file as the jobs of a build read it at once:            *)
(* ConcurrentMap::insert (src/sw/builder/concurrent_map.h), the refresh    *)
(* protocol of FileData (file.cpp), registerFile (file_storage.cpp), and   *)
(* Command's use of them before and after it runs (command.cpp).           *)
(*                                                                         *)
(* Jobs have the file as an input; or one of them has it as its output, and *)
(* the plan orders readers after it, except early ones (which remember the  *)
(* file as an implicit input only). last_write_time is no atomic: every     *)
(* load and store of it is a step of its own.                               *)
(***************************************************************************)
EXTENDS Integers, FiniteSets

CONSTANTS
  Job,
  Writer,  \* the job that writes the file, if any does
  None     \* no file data

ASSUME JobsAssumption == Writer \in Job /\ None \notin Job

Time == 0..2        \* 0: the file is missing, or its time was never read
CommandTime == 1    \* mtime of the commands, from their records

VARIABLES
  pc, back,     \* where a job is, and where its refresh() returns to
  phase,        \* of the writer: "check", or "after" its program
  object,       \* data: the FileData its File refers to. One made by j is named j
  displaced,    \* oldValue: what the job found in its slot when it exchanged it
  slot,         \* the slot of the file in the map
  lwt, state,   \* last_write_time and refreshed of every FileData
  read,         \* time the job holds in refresh()
  verdict,      \* what a job concluded
  disk,         \* time of the file itself
  produced,     \* the file is an output in this build
  early         \* readers that do not wait for the writer

data == <<slot, lwt, state>>
local == <<back, phase, object, displaced, read, verdict>>
build == <<produced, early>>
vars == <<pc, local, data, disk, build>>

RefreshType == {"unrefreshed", "in_process", "not_changed", "changed"}
Verdict == {"none", "missing", "newer", "unchanged"}
PC == {"register", "exchange", "copy_time", "copy_state", "test", "settle",
       "loop", "cas", "status", "time", "compare", "store", "publish_changed",
       "publish_not_changed", "missing?", "newer?", "unset", "execute", "done", "threw"}

TypeOK ==
  /\ pc \in [Job -> PC] /\ back \in [Job -> {"loop", "unset"}]
  /\ phase \in {"check", "after"}
  /\ object \in [Job -> Job \cup {None}] /\ displaced \in [Job -> Job \cup {None}]
  /\ slot \in Job \cup {None}
  /\ lwt \in [Job -> Time] /\ state \in [Job -> RefreshType]
  /\ read \in [Job -> Time] /\ verdict \in [Job -> Verdict]
  /\ disk \in Time /\ produced \in BOOLEAN /\ early \subseteq Job \ {Writer}

Writes(j) == produced /\ j = Writer

(* The writer looks at its output before it runs unless an input made it   *)
(* outdated already: any_of stops at the first file that is newer.         *)
Init ==
  /\ produced \in BOOLEAN
  /\ early \in IF produced THEN SUBSET (Job \ {Writer}) ELSE {{}}
  /\ \E w \in {"register"} \cup (IF produced THEN {"execute"} ELSE {}) :
       pc = [j \in Job |-> IF j = Writer THEN w ELSE "register"]
  /\ phase = "check"
  /\ back = [j \in Job |-> "loop"]
  /\ object = [j \in Job |-> None] /\ displaced = [j \in Job |-> None]
  /\ slot = None
  /\ lwt = [o \in Job |-> 0] /\ state = [o \in Job |-> "unrefreshed"]
  /\ read = [j \in Job |-> 0] /\ verdict = [j \in Job |-> "none"]
  /\ disk \in Time

Goto(j, s) == pc' = [pc EXCEPT ![j] = s]

(* Where a job goes with its File: afterCommand marks an output unrefreshed *)
(* before it looks at it, all others only look.                             *)
Registered(j) == IF Writes(j) /\ phase = "after" THEN "unset" ELSE "loop"
-----------------------------------------------------------------------------
(* ConcurrentMap::insert_no_lock, called by registerFile. *)

MayRegister(j) == ~produced \/ j \in early \cup {Writer} \/ pc[Writer] \in {"done", "threw"}

Find(j) ==
  /\ pc[j] = "register" /\ MayRegister(j) /\ slot # None
  /\ object' = [object EXCEPT ![j] = slot]
  /\ Goto(j, Registered(j))
  /\ UNCHANGED <<back, phase, displaced, read, verdict, data, disk, build>>

FindNothing(j) ==
  /\ pc[j] = "register" /\ MayRegister(j) /\ slot = None
  /\ Goto(j, "exchange")
  /\ UNCHANGED <<local, data, disk, build>>

Exchange(j) ==
  /\ pc[j] = "exchange"
  /\ slot' = j
  /\ object' = [object EXCEPT ![j] = j]
  /\ displaced' = [displaced EXCEPT ![j] = slot]
  /\ back' = [back EXCEPT ![j] = Registered(j)]
  /\ Goto(j, IF slot = None THEN "cas" ELSE "copy_time")
  /\ UNCHANGED <<phase, read, verdict, lwt, state, disk, build>>

(* FileData::operator= from the displaced object, into one others may use. *)
CopyTime(j) ==
  /\ pc[j] = "copy_time"
  /\ lwt' = [lwt EXCEPT ![j] = lwt[displaced[j]]]
  /\ Goto(j, "copy_state")
  /\ UNCHANGED <<local, slot, state, disk, build>>

CopyState(j) ==
  /\ pc[j] = "copy_state"
  /\ state' = [state EXCEPT ![j] = state[displaced[j]]]
  /\ Goto(j, "test")
  /\ UNCHANGED <<local, slot, lwt, disk, build>>

TestState_Trusted(j) ==
  /\ pc[j] = "test"
  /\ Goto(j, Registered(j))
  /\ UNCHANGED <<local, data, disk, build>>
TestState(j) ==
  /\ pc[j] = "test"
  /\ Goto(j, IF state[j] = "in_process" THEN "settle" ELSE Registered(j))
  /\ UNCHANGED <<local, data, disk, build>>

Settle(j) ==
  /\ pc[j] = "settle"
  /\ state' = [state EXCEPT ![j] = "unrefreshed"]
  /\ Goto(j, Registered(j))
  /\ UNCHANGED <<local, slot, lwt, disk, build>>
-----------------------------------------------------------------------------
(* FileData::refresh *)

Acquire(j) ==
  /\ pc[j] = "cas" /\ state[object[j]] = "unrefreshed"
  /\ state' = [state EXCEPT ![object[j]] = "in_process"]
  /\ Goto(j, "status")
  /\ UNCHANGED <<local, slot, lwt, disk, build>>

LoseCas(j) ==
  /\ pc[j] = "cas" /\ state[object[j]] # "unrefreshed"
  /\ Goto(j, back[j])
  /\ UNCHANGED <<local, data, disk, build>>

Regular(j) ==
  /\ pc[j] = "status" /\ disk # 0
  /\ Goto(j, "time")
  /\ UNCHANGED <<local, data, disk, build>>

Missing(j) ==
  /\ pc[j] = "status" /\ disk = 0
  /\ lwt' = [lwt EXCEPT ![object[j]] = 0]
  /\ Goto(j, "publish_changed")
  /\ UNCHANGED <<local, slot, state, disk, build>>

ReadTime(j) ==
  /\ pc[j] = "time" /\ disk # 0
  /\ read' = [read EXCEPT ![j] = disk]
  /\ Goto(j, "compare")
  /\ UNCHANGED <<back, phase, object, displaced, verdict, data, disk, build>>

(* The file went after its status was read: last_write_time() throws, and  *)
(* nobody takes the mark of the refresh back.                              *)
Vanished(j) ==
  /\ pc[j] = "time" /\ disk = 0
  /\ Goto(j, "threw")
  /\ UNCHANGED <<local, data, disk, build>>

Compare(j) ==
  /\ pc[j] = "compare"
  /\ \/ read[j] > lwt[object[j]] /\ Goto(j, "store") /\ UNCHANGED read
     \/ read[j] <= lwt[object[j]] /\ Goto(j, "publish_not_changed") /\ read' = [read EXCEPT ![j] = 0]
  /\ UNCHANGED <<back, phase, object, displaced, verdict, data, disk, build>>

Store(j) ==
  /\ pc[j] = "store"
  /\ lwt' = [lwt EXCEPT ![object[j]] = read[j]]
  /\ read' = [read EXCEPT ![j] = 0]
  /\ Goto(j, "publish_changed")
  /\ UNCHANGED <<back, phase, object, displaced, verdict, slot, state, disk, build>>

Publish(j) ==
  /\ pc[j] \in {"publish_changed", "publish_not_changed"}
  /\ state' = [state EXCEPT ![object[j]] =
                 IF pc[j] = "publish_changed" THEN "changed" ELSE "not_changed"]
  /\ Goto(j, back[j])
  /\ UNCHANGED <<local, slot, lwt, disk, build>>
-----------------------------------------------------------------------------
(* File::isChanged, then the comparison with the command's time. While     *)
(* another job refreshes, a job spins here.                                *)

Refreshed_Begun(j) == state[object[j]] # "unrefreshed"
Refreshed(j) == state[object[j]] \in {"not_changed", "changed"}

Retry(j) ==
  /\ pc[j] = "loop" /\ state[object[j]] = "unrefreshed"
  /\ back' = [back EXCEPT ![j] = "loop"]
  /\ Goto(j, "cas")
  /\ UNCHANGED <<phase, object, displaced, read, verdict, data, disk, build>>

LeaveLoop(j) ==
  /\ pc[j] = "loop" /\ Refreshed(j)
  /\ Goto(j, IF Writes(j) /\ phase = "after" THEN "done" ELSE "missing?")
  /\ UNCHANGED <<local, data, disk, build>>

(* A job ends its check. The writer may be up to date, as far as its output *)
(* tells; it may also execute for a reason of another file.                 *)
Conclude(j, v) ==
  /\ verdict' = [verdict EXCEPT ![j] = v]
  /\ \/ Writes(j) /\ Goto(j, "execute")
     \/ (Writes(j) => v = "unchanged") /\ Goto(j, "done")
  /\ UNCHANGED <<back, phase, object, displaced, read, data, disk, build>>

IsMissing(j) == pc[j] = "missing?" /\ lwt[object[j]] = 0 /\ Conclude(j, "missing")

IsThere(j) ==
  /\ pc[j] = "missing?" /\ lwt[object[j]] # 0
  /\ Goto(j, "newer?")
  /\ UNCHANGED <<local, data, disk, build>>

IsNewer(j) ==
  /\ pc[j] = "newer?"
  /\ Conclude(j, IF lwt[object[j]] > CommandTime THEN "newer" ELSE "unchanged")
-----------------------------------------------------------------------------
(* The writer: execute1, then afterCommand. *)

(* remove_outputs_before_execution *)
RemoveOutput ==
  /\ pc[Writer] = "execute" /\ disk # 0
  /\ disk' = 0
  /\ UNCHANGED <<pc, local, data, build>>

WriteOutput ==
  /\ pc[Writer] = "execute"
  /\ disk' \in Time \ {0}
  /\ phase' = "after"
  /\ Goto(Writer, "register")
  /\ UNCHANGED <<back, object, displaced, read, verdict, data, build>>

Unset_Forgotten ==
  /\ pc[Writer] = "unset"
  /\ Goto(Writer, "loop")
  /\ UNCHANGED <<local, data, disk, build>>
Unset ==
  /\ pc[Writer] = "unset"
  /\ state' = [state EXCEPT ![object[Writer]] = "unrefreshed"]
  /\ Goto(Writer, "loop")
  /\ UNCHANGED <<local, slot, lwt, disk, build>>

Insert(j) ==
  \/ Find(j) \/ FindNothing(j) \/ Exchange(j)
  \/ CopyTime(j) \/ CopyState(j) \/ TestState(j) \/ Settle(j)

Refresh(j) ==
  \/ Acquire(j) \/ LoseCas(j) \/ Regular(j) \/ Missing(j)
  \/ ReadTime(j) \/ Vanished(j) \/ Compare(j) \/ Store(j) \/ Publish(j)

Check(j) == Retry(j) \/ LeaveLoop(j) \/ IsMissing(j) \/ IsThere(j) \/ IsNewer(j)

Step(j) == Insert(j) \/ Refresh(j) \/ Check(j)

Produce == WriteOutput \/ Unset

Next == (\E j \in Job : Step(j)) \/ RemoveOutput \/ Produce

Spec == Init /\ [][Next]_vars

(* Executor threads run, and so do programs. *)
FairSpec == Spec /\ (\A j \in Job : WF_vars(Step(j))) /\ WF_vars(Produce)
-----------------------------------------------------------------------------
Truth == IF disk = 0 THEN "missing" ELSE IF disk > CommandTime THEN "newer" ELSE "unchanged"

(* A file that no command of the build writes is seen as it is by every      *)
(* command that reads it, however many look at it first at the same moment,  *)
(* except for one reason: the reader used file data that took the place of   *)
(* older data in the map, and was copied from them while they were           *)
(* refreshed, or while it was in use itself.                                 *)
WrongOnlyWhileCopied ==
  ~produced => \A r \in Job :
    verdict[r] \notin {"none", Truth} =>
      displaced[object[r]] # None

(* The race of several jobs to enter one file has one way to go wrong.       *)
RaceHasOneFlaw == TypeOK /\ WrongOnlyWhileCopied

(* Jobs that the plan runs after the writer never take its output for     *)
(* missing, nor for unchanged when it is newer than their commands. The time *)
(* cached before the writer ran may only make them too careful.              *)
LateReadersSeeOutput ==
  produced /\ early = {} =>
    \A r \in Job \ {Writer} : verdict[r] \in {"none", "newer", Truth}

(* File data marked as being refreshed has a job that will unmark it, as     *)
(* long as no refresh threw: nobody spins in isChanged() for nothing.        *)
Unmarks(j) == pc[j] \in {"status", "time", "compare", "store", "publish_changed",
                         "publish_not_changed", "test", "settle"}
RefreshIsOwned ==
  \A o \in Job : state[o] = "in_process" =>
    \E j \in Job : object[j] = o /\ (Unmarks(j) \/ pc[j] = "threw")

(* Every job ends its looks at the file, unless a refresh threw: then those *)
(* that wait for its end spin for ever.                                     *)
ChecksEnd == <>((\A j \in Job : pc[j] = "done") \/ (\E j \in Job : pc[j] = "threw"))
==============================================================================
