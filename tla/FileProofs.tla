----------------------------- MODULE FileProofs -----------------------------
(***************************************************************************)
(* Proofs about the two models of files, which share nothing.              *)
(*                                                                         *)
(* FileStorage, for any number of jobs: the types, that a refresh which is *)
(* marked as going on has a job that ends it, that a file nobody writes is *)
(* seen wrong only through copied file data, and that jobs the plan runs   *)
(* after the writer see its output.                                        *)
(*                                                                         *)
(* RuleFiles, for any targets and any names of rules: the commands are     *)
(* those of the target, files a late pass makes are linked and it is known *)
(* which of them are not exported, a target is refused for the reasons     *)
(* given and always for them, and the passes are bounded.                  *)
(***************************************************************************)
EXTENDS FileStorage, RuleFiles, FiniteSetTheorems, TLAPS

(* Where a job has a File. *)
Holding == PC \ {"register", "exchange", "execute", "done"}
Copying == {"copy_time", "copy_state", "test", "settle"}

HasObject == \A j \in Job : pc[j] \in Holding => object[j] \in Job

(* A job copies into the object it made itself. *)
CopiesIntoOwn ==
  \A j \in Job : pc[j] \in Copying => object[j] = j /\ displaced[j] \in Job

IInv == TypeOK /\ HasObject /\ CopiesIntoOwn /\ RefreshIsOwned

LEMMA InitInv == Init => IInv
  BY JobsAssumption
  DEF Init, IInv, TypeOK, HasObject, CopiesIntoOwn, RefreshIsOwned, Holding, Copying,
      PC, RefreshType, Verdict, Time

(* A step of one job that leaves the marks of all refreshes alone, or        *)
(* removes one, and does not end a refresh whose mark stays.                 *)
LEMMA OwnedStep ==
  ASSUME IInv, NEW j \in Job,
         pc' = [pc EXCEPT ![j] = pc'[j]], object' = [object EXCEPT ![j] = object'[j]],
         \A o \in Job : state'[o] = "in_process" => state[o] = "in_process",
         \A o \in Job : object[j] = o /\ Unmarks(j) /\ state'[o] = "in_process" =>
                          object'[j] = o /\ (Unmarks(j)' \/ pc'[j] = "threw"),
         pc[j] # "threw"
  PROVE  RefreshIsOwned'
<1> SUFFICES ASSUME NEW o \in Job, state'[o] = "in_process"
             PROVE  \E k \in Job : object'[k] = o /\ (Unmarks(k)' \/ pc'[k] = "threw")
  BY DEF RefreshIsOwned
<1>1. PICK k \in Job : object[k] = o /\ (Unmarks(k) \/ pc[k] = "threw")
  BY DEF IInv, RefreshIsOwned
<1>2. CASE k = j
  BY <1>1, <1>2 DEF IInv, TypeOK
<1>3. CASE k # j
  <2>1. pc'[k] = pc[k] /\ object'[k] = object[k]
    BY <1>3 DEF IInv, TypeOK
  <2>2. Unmarks(k) => Unmarks(k)'
    BY <2>1 DEF Unmarks
  <2> QED
    BY <1>1, <2>1, <2>2
<1> QED
  BY <1>2, <1>3

(* The three conjuncts about shapes, for any step of one job. *)
LEMMA ShapeStep ==
  ASSUME IInv, NEW j \in Job,
         pc' = [pc EXCEPT ![j] = pc'[j]], object' = [object EXCEPT ![j] = object'[j]],
         displaced' = [displaced EXCEPT ![j] = displaced'[j]],
         pc'[j] \in Holding => object'[j] \in Job,
         pc'[j] \in Copying => object'[j] = j /\ displaced'[j] \in Job
  PROVE  HasObject' /\ CopiesIntoOwn'
  BY DEF IInv, TypeOK, HasObject, CopiesIntoOwn

LEMMA InsertStep ==
  ASSUME IInv, NEW j \in Job, Insert(j)
  PROVE  IInv'
<1> USE JobsAssumption DEF data, local, build
<1>t. TypeOK'
  BY DEF IInv, TypeOK, HasObject, CopiesIntoOwn, Holding, Copying, Insert, Goto, Registered,
         Find, FindNothing, Exchange, CopyTime, CopyState, TestState, Settle,
         PC, RefreshType, Time
<1>s. HasObject' /\ CopiesIntoOwn'
  BY ShapeStep
  DEF IInv, TypeOK, HasObject, CopiesIntoOwn, Holding, Copying, Insert, Registered, Goto,
      Find, FindNothing, Exchange, CopyTime, CopyState, TestState, Settle, PC
<1>o. RefreshIsOwned'
  <2>1. CASE Find(j)
    <3>1. pc' = [pc EXCEPT ![j] = pc'[j]] /\ object' = [object EXCEPT ![j] = object'[j]]
      BY <2>1 DEF Find, Goto, IInv, TypeOK
    <3>2. pc[j] = "register" /\ state' = state
      BY <2>1 DEF Find
    <3> QED
      BY <3>1, <3>2, OwnedStep DEF Unmarks
  <2>2. CASE FindNothing(j)
    <3>1. pc' = [pc EXCEPT ![j] = pc'[j]] /\ object' = [object EXCEPT ![j] = object'[j]]
      BY <2>2 DEF FindNothing, Goto, IInv, TypeOK
    <3>2. pc[j] = "register" /\ state' = state
      BY <2>2 DEF FindNothing
    <3> QED
      BY <3>1, <3>2, OwnedStep DEF Unmarks
  <2>3. CASE Exchange(j)
    <3>1. pc' = [pc EXCEPT ![j] = pc'[j]] /\ object' = [object EXCEPT ![j] = object'[j]]
      BY <2>3 DEF Exchange, Goto, IInv, TypeOK
    <3>2. pc[j] = "exchange" /\ state' = state
      BY <2>3 DEF Exchange
    <3> QED
      BY <3>1, <3>2, OwnedStep DEF Unmarks
  <2>4. CASE CopyTime(j)
    <3>1. pc' = [pc EXCEPT ![j] = pc'[j]] /\ object' = [object EXCEPT ![j] = object'[j]]
      BY <2>4 DEF CopyTime, Goto, IInv, TypeOK
    <3>2. pc[j] = "copy_time" /\ state' = state
      BY <2>4 DEF CopyTime
    <3> QED
      BY <3>1, <3>2, OwnedStep DEF Unmarks
  <2>5. CASE CopyState(j)
    \* the copied mark is owned by the job that copied it
    BY <2>5 DEF CopyState, Goto, Unmarks, IInv, TypeOK, RefreshIsOwned, CopiesIntoOwn, Copying
  <2>6. CASE TestState(j)
    <3>1. pc' = [pc EXCEPT ![j] = pc'[j]] /\ object' = [object EXCEPT ![j] = object'[j]]
      BY <2>6 DEF TestState, Goto, IInv, TypeOK
    <3>2. pc[j] = "test" /\ state' = state /\ object' = object /\ object[j] = j
      BY <2>6 DEF TestState, IInv, CopiesIntoOwn, Copying
    <3>3. state[j] = "in_process" => pc'[j] = "settle"
      BY <2>6 DEF TestState, Goto, IInv, TypeOK
    <3> QED
      BY <3>1, <3>2, <3>3, OwnedStep DEF Unmarks
  <2>7. CASE Settle(j)
    <3>1. pc' = [pc EXCEPT ![j] = pc'[j]] /\ object' = [object EXCEPT ![j] = object'[j]]
      BY <2>7 DEF Settle, Goto, IInv, TypeOK
    <3>2. pc[j] = "settle" /\ object[j] = j /\ state' = [state EXCEPT ![j] = "unrefreshed"]
      BY <2>7 DEF Settle, IInv, CopiesIntoOwn, Copying
    <3>3. \A o \in Job : state'[o] = "in_process" => state[o] = "in_process" /\ o # j
      BY <3>2 DEF IInv, TypeOK
    <3> QED
      BY <3>1, <3>2, <3>3, OwnedStep
  <2> QED
    BY <2>1, <2>2, <2>3, <2>4, <2>5, <2>6, <2>7 DEF Insert
<1> QED
  BY <1>t, <1>s, <1>o DEF IInv

LEMMA RefreshStep ==
  ASSUME IInv, NEW j \in Job, Refresh(j)
  PROVE  IInv'
<1> USE JobsAssumption DEF data, local, build
<1>t. TypeOK'
  BY DEF IInv, TypeOK, HasObject, Holding, Refresh, Goto, Acquire, LoseCas, Regular, Missing,
         ReadTime, Vanished, Compare, Store, Publish, PC, RefreshType, Time
<1>p. pc' = [pc EXCEPT ![j] = pc'[j]] /\ object' = [object EXCEPT ![j] = object'[j]]
  BY DEF IInv, TypeOK, Goto, Refresh, Acquire, LoseCas, Regular, Missing, ReadTime, Vanished,
         Compare, Store, Publish
<1>s. HasObject' /\ CopiesIntoOwn'
  <2>2. UNCHANGED <<object, displaced>>
    BY DEF Refresh, Acquire, LoseCas, Regular, Missing, ReadTime, Vanished, Compare, Store, Publish
  <2>3. pc[j] \in Holding /\ pc'[j] \notin Copying
    BY DEF IInv, TypeOK, Goto, Holding, Copying, PC, Refresh, Acquire, LoseCas, Regular, Missing,
           ReadTime, Vanished, Compare, Store, Publish
  <2> QED
    BY <1>p, <2>2, <2>3, ShapeStep DEF IInv, TypeOK, HasObject
<1>o. RefreshIsOwned'
  <2>1. CASE Acquire(j)
    BY <2>1 DEF Acquire, Goto, Unmarks, IInv, TypeOK, RefreshIsOwned, HasObject, Holding, PC
  <2>2. CASE LoseCas(j)
    <3>1. pc[j] = "cas" /\ UNCHANGED <<state, object>>
      BY <2>2 DEF LoseCas
    <3> QED
      BY <1>p, <3>1, OwnedStep DEF Unmarks
  <2>3. CASE Regular(j) \/ Missing(j) \/ ReadTime(j) \/ Vanished(j)
    <3>1. pc[j] # "threw" /\ UNCHANGED <<state, object>>
      BY <2>3 DEF Regular, Missing, ReadTime, Vanished
    <3>2. pc'[j] \in {"time", "compare", "publish_changed", "threw"}
      BY <2>3 DEF Regular, Missing, ReadTime, Vanished, Goto, IInv, TypeOK
    <3> QED
      BY <1>p, <3>1, <3>2, OwnedStep DEF Unmarks
  <2>4. CASE Compare(j) \/ Store(j)
    <3>1. pc[j] # "threw" /\ UNCHANGED <<state, object>>
      BY <2>4 DEF Compare, Store
    <3>2. pc'[j] \in {"store", "publish_changed", "publish_not_changed"}
      BY <2>4 DEF Compare, Store, Goto, IInv, TypeOK
    <3> QED
      BY <1>p, <3>1, <3>2, OwnedStep DEF Unmarks
  <2>5. CASE Publish(j)
    <3>1. pc[j] # "threw" /\ object[j] \in Job
      BY <2>5 DEF Publish, IInv, HasObject, Holding, PC
    <3>2. \A o \in Job : state'[o] = "in_process" => state[o] = "in_process" /\ o # object[j]
      BY <2>5, <3>1 DEF Publish, IInv, TypeOK
    <3> QED
      BY <1>p, <3>1, <3>2, OwnedStep
  <2> QED
    BY <2>1, <2>2, <2>3, <2>4, <2>5 DEF Refresh
<1> QED
  BY <1>t, <1>s, <1>o DEF IInv

LEMMA CheckStep ==
  ASSUME IInv, NEW j \in Job, Check(j)
  PROVE  IInv'
<1> USE DEF data, local, build
<1>t. TypeOK'
  BY DEF IInv, TypeOK, Check, Goto, Retry, LeaveLoop, IsMissing, IsThere, IsNewer, Conclude,
         PC, Verdict
<1>1. pc' = [pc EXCEPT ![j] = pc'[j]] /\ pc'[j] \in {"cas", "done", "execute", "missing?", "newer?"}
  BY DEF IInv, TypeOK, Goto, Check, Retry, LeaveLoop, IsMissing, IsThere, IsNewer, Conclude
<1>2. pc[j] \in {"loop", "missing?", "newer?"}
  BY DEF Check, Retry, LeaveLoop, IsMissing, IsThere, IsNewer
<1>3. UNCHANGED <<object, displaced, state>>
  BY DEF Check, Retry, LeaveLoop, IsMissing, IsThere, IsNewer, Conclude
<1>f. /\ object' = [object EXCEPT ![j] = object'[j]]
      /\ displaced' = [displaced EXCEPT ![j] = displaced'[j]]
  BY <1>3 DEF IInv, TypeOK
<1>s. HasObject' /\ CopiesIntoOwn'
  <2>1. pc[j] \in Holding /\ pc'[j] \notin Copying
    BY <1>1, <1>2 DEF Holding, Copying, PC
  <2> QED
    BY <1>f, <1>1, <1>3, <2>1, ShapeStep DEF IInv, TypeOK, HasObject
<1>o. RefreshIsOwned'
  BY <1>f, <1>1, <1>2, <1>3, OwnedStep DEF Unmarks
<1> QED
  BY <1>t, <1>s, <1>o DEF IInv

LEMMA ProduceStep ==
  ASSUME IInv, RemoveOutput \/ Produce
  PROVE  IInv'
<1> USE JobsAssumption DEF data, local, build
<1>t. TypeOK'
  BY DEF IInv, TypeOK, HasObject, Holding, RemoveOutput, Produce, WriteOutput, Unset, Goto,
         PC, RefreshType, Time
<1>1. CASE RemoveOutput
  BY <1>t, <1>1 DEF RemoveOutput, IInv, HasObject, CopiesIntoOwn, RefreshIsOwned, Unmarks
<1>2. CASE WriteOutput
  <2>1. HasObject' /\ CopiesIntoOwn'
    BY <1>2, ShapeStep DEF Goto, WriteOutput, IInv, TypeOK, Holding, Copying, PC
  <2>2. RefreshIsOwned'
    <3> DEFINE j == Writer
    <3>1. pc' = [pc EXCEPT ![j] = pc'[j]] /\ object' = [object EXCEPT ![j] = object'[j]]
      BY <1>2 DEF WriteOutput, Goto, IInv, TypeOK
    <3>2. pc[j] = "execute" /\ state' = state
      BY <1>2 DEF WriteOutput
    <3> QED
      BY <3>1, <3>2, OwnedStep DEF Unmarks
  <2> QED
    BY <1>t, <2>1, <2>2 DEF IInv
<1>3. CASE Unset
  <2>1. HasObject' /\ CopiesIntoOwn'
    <3>1. /\ pc[Writer] = "unset" /\ pc' = [pc EXCEPT ![Writer] = "loop"]
          /\ object' = object /\ displaced' = displaced
      BY <1>3 DEF Unset, Goto
    <3>2. pc'[Writer] = "loop" /\ object[Writer] \in Job
      BY <3>1 DEF IInv, TypeOK, HasObject, Holding, PC
    <3> QED
      BY <3>1, <3>2 DEF IInv, TypeOK, HasObject, CopiesIntoOwn, Holding, Copying
  <2>2. RefreshIsOwned'
    <3> DEFINE j == Writer
    <3>1. pc' = [pc EXCEPT ![j] = pc'[j]] /\ object' = [object EXCEPT ![j] = object'[j]]
      BY <1>3 DEF Unset, Goto, IInv, TypeOK
    <3>2. pc[j] = "unset" /\ object[j] \in Job
      BY <1>3 DEF Unset, IInv, HasObject, Holding, PC
    <3>3. \A o \in Job : state'[o] = "in_process" => state[o] = "in_process" /\ o # object[j]
      BY <1>3, <3>2 DEF Unset, IInv, TypeOK
    <3> QED
      BY <3>1, <3>2, <3>3, OwnedStep
  <2> QED
    BY <1>t, <2>1, <2>2 DEF IInv
<1> QED
  BY <1>1, <1>2, <1>3 DEF Produce

THEOREM Invariant == Spec => []IInv
<1>1. IInv /\ [Next]_vars => IInv'
  <2> SUFFICES ASSUME IInv, [Next]_vars PROVE IInv'
    OBVIOUS
  <2>1. CASE \E j \in Job : Step(j)
    BY <2>1, InsertStep, RefreshStep, CheckStep DEF Step
  <2>2. CASE RemoveOutput \/ Produce
    BY <2>2, ProduceStep
  <2>3. CASE UNCHANGED vars
    BY <2>3 DEF vars, local, data, build, IInv, TypeOK, HasObject, CopiesIntoOwn,
                RefreshIsOwned, Unmarks
  <2> QED
    BY <2>1, <2>2, <2>3 DEF Next
<1> QED
  BY <1>1, InitInv, PTL DEF Spec

(* For any number of jobs that look at a file while one of them writes it, *)
(* file data marked as in refresh has a job that ends the refresh, unless  *)
(* a refresh threw: isChanged() never waits for nobody (file.cpp:133).     *)
THEOREM RefreshesAreOwned == Spec => []RefreshIsOwned
  BY Invariant, PTL DEF IInv
-----------------------------------------------------------------------------
(* A file that no command writes.  File data is used once its maker has     *)
(* entered it, and untouched before.                                        *)
Working(j) == pc[j] \in {"status", "time", "compare", "store", "publish_changed",
                         "publish_not_changed"}
Settled == {"changed", "not_changed"}

Entries ==
  /\ \A j \in Job : pc[j] \notin {"execute", "unset"} /\ back[j] = "loop"
  /\ \A j \in Job : IF pc[j] \in {"register", "exchange"}
                    THEN object[j] = None /\ verdict[j] = "none"
                    ELSE object[j] \in Job /\ object[object[j]] = object[j]
  /\ slot # None => object[slot] = slot
  /\ \A o \in Job : object[o] # o => state[o] = "unrefreshed" /\ lwt[o] = 0

(* What a job knows of the time of the file, from file data o.              *)
Knows(j, o) ==
  /\ Working(j) => state[o] = "in_process"
                   /\ \A k \in Job : object[k] = o /\ Working(k) => k = j
  /\ pc[j] \in {"status", "time", "compare", "store"} => lwt[o] = 0
  /\ pc[j] \in {"time", "compare", "store"} => disk # 0
  /\ pc[j] \in {"compare", "store"} => read[j] = disk
  /\ pc[j] \in {"publish_changed", "publish_not_changed"} => lwt[o] = disk
  /\ pc[j] \in {"missing?", "newer?"} => state[o] \in Settled
  /\ pc[j] = "newer?" => lwt[o] # 0
  /\ verdict[j] \in {"none", Truth}

(* File data that took nobody's place is refreshed by one job, once.        *)
Good(o) ==
  /\ state[o] = "unrefreshed" => lwt[o] = 0
  /\ state[o] \in Settled => lwt[o] = disk
  /\ \A j \in Job : object[j] = o => Knows(j, o)

OriginalsAreGood == \A o \in Job : displaced[o] = None => Good(o)

ReadOnlyInv == ~produced => Entries /\ OriginalsAreGood

LEMMA InitReadOnly == Init => ReadOnlyInv
  BY JobsAssumption
  DEF Init, ReadOnlyInv, Entries, OriginalsAreGood, Good, Knows, Settled

(* A step of one job leaves the file data of the others alone.              *)
LEMMA OthersStayGood ==
  ASSUME IInv, NEW j \in Job, NEW o \in Job, Good(o),
         \A k \in Job \ {j} : /\ pc'[k] = pc[k] /\ object'[k] = object[k]
                              /\ read'[k] = read[k] /\ verdict'[k] = verdict[k],
         object'[j] # o, state'[o] = state[o], lwt'[o] = lwt[o], disk' = disk
  PROVE  Good(o)'
  BY DEF Good, Knows, Working, Settled, Truth

LEMMA InsertReads ==
  ASSUME IInv, ~produced, Entries, OriginalsAreGood, NEW j \in Job, Insert(j)
  PROVE  Entries' /\ OriginalsAreGood'
<1> USE JobsAssumption DEF IInv, TypeOK, data, local, build, Goto
<1>0. Registered(j) = "loop"
  BY DEF Registered, Writes
<1>1. CASE Find(j)
  <2>1. Entries'
    BY <1>0, <1>1 DEF Find, Entries
  <2>2. ASSUME NEW o \in Job, displaced'[o] = None PROVE Good(o)'
    BY <1>0, <1>1, <2>2 DEF Find, Entries, OriginalsAreGood, Good, Knows, Working, Settled, Truth
  <2> QED
    BY <2>1, <2>2 DEF OriginalsAreGood
<1>2. CASE FindNothing(j)
  <2>1. Entries'
    BY <1>2 DEF FindNothing, Entries
  <2>2. ASSUME NEW o \in Job, displaced'[o] = None PROVE Good(o)'
    BY <1>2, <2>2 DEF FindNothing, Entries, OriginalsAreGood, Good, Knows, Working, Settled, Truth
  <2> QED
    BY <2>1, <2>2 DEF OriginalsAreGood
<1>3. CASE Exchange(j)
  <2>1. Entries'
    BY <1>0, <1>3 DEF Exchange, Entries
  <2>2. ASSUME NEW o \in Job, displaced'[o] = None PROVE Good(o)'
    <3>1. CASE o # j
      BY <1>3, <2>2, <3>1, OthersStayGood DEF Exchange, OriginalsAreGood
    <3>2. CASE o = j
      <4>1. state'[o] = "unrefreshed" /\ lwt'[o] = 0
        BY <1>3, <3>2 DEF Exchange, Entries
      <4>2. \A k \in Job : object'[k] = o => k = j
        BY <1>3, <3>2 DEF Exchange, Entries
      <4>3. pc'[j] = "cas" /\ verdict'[j] = "none"
        BY <1>3, <2>2, <3>2 DEF Exchange, Entries
      <4> QED
        BY <4>1, <4>2, <4>3 DEF Good, Knows, Working, Settled
    <3> QED
      BY <3>1, <3>2
  <2> QED
    BY <2>1, <2>2 DEF OriginalsAreGood
<1>4. CASE CopyTime(j) \/ CopyState(j) \/ TestState(j) \/ Settle(j)
  <2>1. pc[j] \in Copying /\ object[j] = j /\ displaced[j] # None
    BY <1>4 DEF CopyTime, CopyState, TestState, Settle, Copying, CopiesIntoOwn
  <2>2. /\ UNCHANGED <<back, object, displaced, read, verdict, slot, disk>>
        /\ pc' = [pc EXCEPT ![j] = pc'[j]]
        /\ pc'[j] \in {"copy_state", "test", "settle", "loop"}
    BY <1>0, <1>4 DEF CopyTime, CopyState, TestState, Settle
  <2>3. \A o \in Job \ {j} : state'[o] = state[o] /\ lwt'[o] = lwt[o]
    BY <1>4 DEF CopyTime, CopyState, TestState, Settle
  <2>4. Entries'
    BY <2>1, <2>2, <2>3 DEF Entries, Copying
  <2>5. ASSUME NEW o \in Job, displaced'[o] = None PROVE Good(o)'
    BY <2>1, <2>2, <2>3, <2>5, OthersStayGood DEF OriginalsAreGood
  <2> QED
    BY <2>4, <2>5 DEF OriginalsAreGood
<1> QED
  BY <1>1, <1>2, <1>3, <1>4 DEF Insert

(* A refresh and a check change the file data the job holds, and only that. *)
LEMMA LooksRead ==
  ASSUME IInv, ~produced, Entries, OriginalsAreGood, NEW j \in Job, Refresh(j) \/ Check(j)
  PROVE  Entries' /\ OriginalsAreGood'
<1> USE JobsAssumption DEF IInv, TypeOK, data, local, build, Goto
<1>1. /\ pc[j] \in {"cas", "status", "time", "compare", "store", "publish_changed",
                    "publish_not_changed", "loop", "missing?", "newer?"}
      /\ object[j] \in Job /\ object[object[j]] = object[j] /\ back[j] = "loop"
  BY DEF Refresh, Acquire, LoseCas, Regular, Missing, ReadTime, Vanished, Compare, Store,
         Publish, Check, Retry, LeaveLoop, IsMissing, IsThere, IsNewer, Entries
<1>2. /\ UNCHANGED <<object, displaced, slot, disk, produced>>
      /\ pc' = [pc EXCEPT ![j] = pc'[j]]
      /\ \A k \in Job \ {j} : read'[k] = read[k] /\ verdict'[k] = verdict[k]
      /\ \A o \in Job \ {object[j]} : state'[o] = state[o] /\ lwt'[o] = lwt[o]
  BY DEF Refresh, Acquire, LoseCas, Regular, Missing, ReadTime, Vanished, Compare, Store,
         Publish, Check, Retry, LeaveLoop, IsMissing, IsThere, IsNewer, Conclude
<1>3. /\ pc'[j] \in {"cas", "status", "time", "compare", "store", "publish_changed", "threw",
                     "publish_not_changed", "loop", "missing?", "newer?", "done"}
      /\ \A k \in Job : back'[k] = "loop"
  BY <1>1 DEF Refresh, Acquire, LoseCas, Regular, Missing, ReadTime, Vanished, Compare, Store,
         Publish, Check, Retry, LeaveLoop, IsMissing, IsThere, IsNewer, Conclude, Writes, Entries
<1>4. Entries'
  BY <1>1, <1>2, <1>3 DEF Entries
<1>5. ASSUME NEW o \in Job, displaced'[o] = None, o # object[j] PROVE Good(o)'
  BY <1>2, <1>5, OthersStayGood DEF OriginalsAreGood
<1>6. ASSUME displaced'[object[j]] = None PROVE Good(object[j])'
  <2> DEFINE o == object[j]
  <2>1. Good(o)
    BY <1>1, <1>2, <1>6 DEF OriginalsAreGood
  <2> USE DEF Good, Knows, Working, Settled, Truth
  <2>2. CASE Acquire(j)
    BY <1>1, <1>2, <2>1, <2>2 DEF Acquire
  <2>3. CASE LoseCas(j)
    BY <1>1, <1>2, <2>1, <2>3 DEF LoseCas
  <2>4. CASE Regular(j) \/ Missing(j)
    BY <1>1, <1>2, <2>1, <2>4 DEF Regular, Missing
  <2>5. CASE ReadTime(j) \/ Vanished(j)
    BY <1>1, <1>2, <2>1, <2>5 DEF ReadTime, Vanished
  <2>6. CASE Compare(j)
    BY <1>1, <1>2, <2>1, <2>6 DEF Compare, Time
  <2>7. CASE Store(j)
    BY <1>1, <1>2, <2>1, <2>7 DEF Store
  <2>8. CASE Publish(j)
    BY <1>1, <1>2, <2>1, <2>8 DEF Publish
  <2>9. CASE Retry(j) \/ LeaveLoop(j) \/ IsThere(j)
    BY <1>1, <1>2, <2>1, <2>9 DEF Retry, LeaveLoop, IsThere, Refreshed, Writes
  <2>10. CASE IsMissing(j)
    BY <1>1, <1>2, <2>1, <2>10 DEF IsMissing, Conclude, Writes
  <2>11. CASE IsNewer(j)
    BY <1>1, <1>2, <2>1, <2>11 DEF IsNewer, Conclude, Writes
  <2> QED
    BY <2>2, <2>3, <2>4, <2>5, <2>6, <2>7, <2>8, <2>9, <2>10, <2>11 DEF Refresh, Check
<1> QED
  BY <1>2, <1>4, <1>5, <1>6 DEF OriginalsAreGood

LEMMA ReadOnlyStep == IInv /\ ReadOnlyInv /\ [Next]_vars => ReadOnlyInv'
<1> SUFFICES ASSUME IInv, ReadOnlyInv, [Next]_vars, ~produced'
             PROVE  Entries' /\ OriginalsAreGood'
  BY DEF ReadOnlyInv
<1>1. produced' = produced
  BY DEF Next, Step, Insert, Refresh, Check, Find, FindNothing, Exchange, CopyTime, CopyState,
         TestState, Settle, Acquire, LoseCas, Regular, Missing, ReadTime, Vanished, Compare,
         Store, Publish, Retry, LeaveLoop, IsMissing, IsThere, IsNewer, Conclude, RemoveOutput,
         Produce, WriteOutput, Unset, vars, data, local, build
<1>2. ~produced /\ Entries /\ OriginalsAreGood
  BY <1>1 DEF ReadOnlyInv
<1>3. ~(RemoveOutput \/ Produce)
  BY <1>2, JobsAssumption DEF RemoveOutput, Produce, WriteOutput, Unset, Entries
<1>4. CASE \E j \in Job : Step(j)
  BY <1>2, <1>4, InsertReads, LooksRead DEF Step
<1>5. CASE UNCHANGED vars
  BY <1>2, <1>5 DEF vars, data, local, build, Entries, OriginalsAreGood, Good, Knows, Working,
                    Settled, Truth
<1> QED
  BY <1>3, <1>4, <1>5 DEF Next

(* A file that no command writes is seen as it is by every job, however     *)
(* many look at once, unless its file data was copied from older data.      *)
THEOREM OneFlaw == Spec => []RaceHasOneFlaw
<1>1. IInv /\ ReadOnlyInv /\ [Next]_vars => ReadOnlyInv'
  BY ReadOnlyStep
<1>2. IInv /\ ReadOnlyInv => RaceHasOneFlaw
  BY DEF IInv, TypeOK, ReadOnlyInv, Entries, OriginalsAreGood, Good, Knows, RaceHasOneFlaw,
         WrongOnlyWhileCopied
<1> QED
  BY Invariant, InitReadOnly, <1>1, <1>2, PTL DEF Spec
-----------------------------------------------------------------------------
(* An output that only jobs after the writer read.  They share the file     *)
(* data of the writer, which it refreshed last and alone.                   *)
Others == Job \ {Writer}

(* The cached time is that of the file, or not less once it was written.    *)
Fresh == IF phase = "check" THEN lwt[Writer] = disk ELSE lwt[Writer] >= disk /\ disk # 0

WriterLooks ==
  /\ pc[Writer] \notin Copying \cup {"threw"}
  /\ slot \in {None, Writer} /\ (slot = None => state[Writer] = "unrefreshed")
  /\ pc[Writer] \in Holding => object[Writer] = Writer /\ slot = Writer
  /\ pc[Writer] = "exchange" => slot = None
  /\ back[Writer] = "unset" \/ pc[Writer] = "unset" => phase = "after"
  /\ pc[Writer] \in {"missing?", "newer?"} => phase = "check" /\ state[Writer] \in Settled
  /\ pc[Writer] = "execute" => phase = "check"
  /\ phase = "after" => disk # 0
  /\ phase = "check" =>
       /\ state[Writer] = "unrefreshed" => lwt[Writer] = 0
       /\ pc[Writer] \in {"status", "time", "compare", "store"} => lwt[Writer] = 0
       /\ pc[Writer] \in {"register", "exchange"} => slot = None
  /\ Working(Writer) => state[Writer] = "in_process"
  /\ pc[Writer] \in {"time", "compare", "store"} => disk # 0
  /\ pc[Writer] \in {"compare", "store"} => read[Writer] = disk
  /\ pc[Writer] = "store" => read[Writer] > lwt[Writer]
  /\ pc[Writer] \in {"publish_changed", "publish_not_changed"} => Fresh
  /\ pc[Writer] \in {"cas", "loop", "missing?", "newer?", "done"} =>
       (state[Writer] \in Settled => Fresh)
  /\ pc[Writer] = "newer?" => lwt[Writer] # 0
  /\ pc[Writer] = "done" => slot = Writer /\ state[Writer] \in Settled

ReaderLooks(r) ==
  /\ pc[r] # "register" => pc[Writer] = "done" /\ object[r] = Writer
  /\ pc[r] \in {"register", "loop", "missing?", "newer?", "done"}
  /\ pc[r] = "newer?" => lwt[Writer] # 0
  /\ pc[r] = "register" => verdict[r] = "none"
  /\ verdict[r] \in {"none", "newer", Truth}

LateInv == produced /\ early = {} => WriterLooks /\ \A r \in Others : ReaderLooks(r)

LEMMA InitLate == Init => LateInv
  BY JobsAssumption
  DEF Init, LateInv, WriterLooks, ReaderLooks, Others, Copying, Holding, Working, Settled,
      PC, Fresh

(* While the writer works nobody else does anything.                        *)
LEMMA WriterStep ==
  ASSUME IInv, produced, early = {}, WriterLooks, \A r \in Others : ReaderLooks(r),
         Step(Writer) \/ RemoveOutput \/ Produce
  PROVE  WriterLooks' /\ \A r \in Others : ReaderLooks(r)'
<1> USE JobsAssumption DEF IInv, TypeOK, data, local, build, Goto
<1>1. /\ pc[Writer] # "done"
      /\ pc' = [pc EXCEPT ![Writer] = pc'[Writer]]
      /\ \A r \in Others : pc'[r] = pc[r] /\ verdict'[r] = verdict[r]
  <2>1. CASE Insert(Writer)
    BY <2>1 DEF Others, Insert, Find, FindNothing, Exchange, CopyTime, CopyState, TestState,
                Settle
  <2>2. CASE Refresh(Writer)
    BY <2>2 DEF Others, Refresh, Acquire, LoseCas, Regular, Missing, ReadTime, Vanished,
                Compare, Store, Publish
  <2>3. CASE Check(Writer)
    BY <2>3 DEF Others, Check, Retry, LeaveLoop, IsMissing, IsThere, IsNewer, Conclude
  <2>4. CASE RemoveOutput \/ Produce
    BY <2>4 DEF Others, RemoveOutput, Produce, WriteOutput, Unset
  <2> QED
    BY <2>1, <2>2, <2>3, <2>4 DEF Step
<1>2. \A r \in Others : ReaderLooks(r)'
  BY <1>1 DEF ReaderLooks
<1>3. Registered(Writer) = IF phase = "after" THEN "unset" ELSE "loop"
  BY DEF Registered, Writes
<1>4. WriterLooks'
  <2> USE DEF WriterLooks, Working, Settled, Fresh, Holding, Copying, PC
  <2>1. CASE Find(Writer)
    BY <1>3, <2>1 DEF Find
  <2>2. CASE FindNothing(Writer)
    BY <2>2 DEF FindNothing
  <2>3. CASE Exchange(Writer)
    BY <1>3, <2>3 DEF Exchange
  <2>4. CASE Acquire(Writer)
    BY <2>4 DEF Acquire
  <2>5. CASE LoseCas(Writer)
    BY <2>5 DEF LoseCas
  <2>6. CASE Regular(Writer) \/ Missing(Writer)
    <3>1. CASE Regular(Writer)
      BY <3>1 DEF Regular
    <3>2. CASE Missing(Writer)
      BY <3>2 DEF Missing
    <3> QED
      BY <2>6, <3>1, <3>2
  <2>7. CASE ReadTime(Writer)
    BY <2>7 DEF ReadTime
  <2>8. CASE Compare(Writer)
    BY <2>8 DEF Compare, Time
  <2>9. CASE Store(Writer)
    BY <2>9 DEF Store, Time
  <2>10. CASE Publish(Writer)
    BY <2>10 DEF Publish
  <2>11. CASE Retry(Writer) \/ IsThere(Writer)
    <3>1. CASE Retry(Writer)
      BY <3>1 DEF Retry
    <3>2. CASE IsThere(Writer)
      BY <3>2 DEF IsThere
    <3> QED
      BY <2>11, <3>1, <3>2
  <2>12. CASE LeaveLoop(Writer)
    BY <2>12 DEF LeaveLoop, Refreshed, Writes
  <2>13. CASE IsMissing(Writer)
    BY <2>13 DEF IsMissing, Conclude, Writes
  <2>14. CASE IsNewer(Writer)
    BY <2>14 DEF IsNewer, Conclude, Writes
  <2>15. CASE RemoveOutput \/ WriteOutput
    <3>1. CASE RemoveOutput
      BY <3>1 DEF RemoveOutput
    <3>2. CASE WriteOutput
      BY <3>2 DEF WriteOutput, Time
    <3> QED
      BY <2>15, <3>1, <3>2
  <2>16. CASE Unset
    BY <2>16 DEF Unset
  <2>17. ~(CopyTime(Writer) \/ CopyState(Writer) \/ TestState(Writer) \/ Settle(Writer)
           \/ Vanished(Writer))
    BY DEF CopyTime, CopyState, TestState, Settle, Vanished
  <2> QED
    BY <2>1, <2>2, <2>3, <2>4, <2>5, <2>6, <2>7, <2>8, <2>9, <2>10, <2>11, <2>12, <2>13,
       <2>14, <2>15, <2>16, <2>17 DEF Step, Insert, Refresh, Check, Produce
<1> QED
  BY <1>2, <1>4

(* After it, the others only look.                                          *)
LEMMA ReaderStep ==
  ASSUME IInv, produced, early = {}, WriterLooks, \A r \in Others : ReaderLooks(r),
         NEW j \in Others, Step(j)
  PROVE  WriterLooks' /\ \A r \in Others : ReaderLooks(r)'
<1> USE JobsAssumption DEF IInv, TypeOK, data, local, build, Goto, Others
<1>1. /\ pc[j] \in {"register", "loop", "missing?", "newer?"}
      /\ pc[j] # "register" => object[j] = Writer
  BY DEF ReaderLooks, Step, Insert, Refresh, Check, Find, FindNothing, Exchange, CopyTime,
         CopyState, TestState, Settle, Acquire, LoseCas, Regular, Missing, ReadTime, Vanished,
         Compare, Store, Publish, Retry, LeaveLoop, IsMissing, IsThere, IsNewer, Conclude
<1>2. pc[Writer] = "done"
  BY <1>1 DEF WriterLooks, ReaderLooks, Step, Insert, Refresh, Check, Find, FindNothing, Exchange,
         CopyTime, CopyState, TestState, Settle, Acquire, LoseCas, Regular, Missing, ReadTime,
         Vanished, Compare, Store, Publish, Retry, LeaveLoop, IsMissing, IsThere, IsNewer,
         MayRegister
<1>3. slot = Writer /\ state[Writer] \in Settled /\ Fresh
  BY <1>2 DEF WriterLooks
<1>4. Find(j) \/ LeaveLoop(j) \/ IsMissing(j) \/ IsThere(j) \/ IsNewer(j)
  BY <1>1, <1>3 DEF Settled, Step, Insert, Refresh, Check, FindNothing, Exchange, CopyTime,
         CopyState, TestState, Settle, Acquire, LoseCas, Regular, Missing, ReadTime, Vanished,
         Compare, Store, Publish, Retry
<1>5. /\ UNCHANGED <<phase, slot, lwt, state, disk>>
      /\ pc' = [pc EXCEPT ![j] = pc'[j]] /\ object' = [object EXCEPT ![j] = object'[j]]
      /\ verdict' = [verdict EXCEPT ![j] = verdict'[j]]
      /\ read' = read /\ back' = back
  <2>1. CASE Find(j)
    BY <2>1 DEF Find
  <2>2. CASE LeaveLoop(j) \/ IsThere(j)
    BY <2>2 DEF LeaveLoop, IsThere
  <2>3. CASE IsMissing(j) \/ IsNewer(j)
    BY <2>3 DEF IsMissing, IsNewer, Conclude
  <2> QED
    BY <1>4, <2>1, <2>2, <2>3
<1>6. WriterLooks'
  BY <1>2, <1>5 DEF WriterLooks, Working, Fresh, Settled, Holding, Copying, PC
<1>7. ReaderLooks(j)'
  <2> USE DEF ReaderLooks, Truth
  <2>1. CASE Find(j)
    BY <1>2, <1>3, <2>1 DEF Find, Registered, Writes
  <2>2. CASE LeaveLoop(j) \/ IsThere(j)
    BY <1>1, <1>2, <2>2 DEF LeaveLoop, IsThere, Writes
  <2>3. CASE IsMissing(j)
    BY <1>1, <1>2, <1>3, <2>3 DEF IsMissing, Conclude, Writes, Fresh, Time
  <2>4. CASE IsNewer(j)
    BY <1>1, <1>2, <1>3, <2>4 DEF IsNewer, Conclude, Writes, Fresh, Time, CommandTime
  <2> QED
    BY <1>4, <2>1, <2>2, <2>3, <2>4
<1>8. \A r \in Others : ReaderLooks(r)'
  BY <1>2, <1>5, <1>7 DEF ReaderLooks, Truth
<1> QED
  BY <1>6, <1>8

LEMMA LateStep == IInv /\ LateInv /\ [Next]_vars => LateInv'
<1> SUFFICES ASSUME IInv, LateInv, [Next]_vars, produced', early' = {}
             PROVE  WriterLooks' /\ \A r \in Others : ReaderLooks(r)'
  BY DEF LateInv
<1>1. produced' = produced /\ early' = early
  BY DEF Next, Step, Insert, Refresh, Check, Find, FindNothing, Exchange, CopyTime, CopyState,
         TestState, Settle, Acquire, LoseCas, Regular, Missing, ReadTime, Vanished, Compare,
         Store, Publish, Retry, LeaveLoop, IsMissing, IsThere, IsNewer, Conclude, RemoveOutput,
         Produce, WriteOutput, Unset, vars, data, local, build
<1>2. WriterLooks /\ \A r \in Others : ReaderLooks(r)
  BY <1>1 DEF LateInv
<1>3. CASE Step(Writer) \/ RemoveOutput \/ Produce
  BY <1>1, <1>2, <1>3, WriterStep
<1>4. CASE \E j \in Others : Step(j)
  BY <1>1, <1>2, <1>4, ReaderStep
<1>5. CASE UNCHANGED vars
  BY <1>2, <1>5 DEF vars, data, local, build, WriterLooks, ReaderLooks, Working, Fresh, Truth
<1> QED
  BY <1>3, <1>4, <1>5 DEF Next, Others

(* Jobs that the plan runs after the writer never take its output for       *)
(* missing, nor for unchanged when it is newer, for any number of jobs.     *)
THEOREM OutputIsSeen == Spec => []LateReadersSeeOutput
<1>1. IInv /\ LateInv /\ [Next]_vars => LateInv'
  BY LateStep
<1>2. LateInv => LateReadersSeeOutput
  BY DEF LateInv, ReaderLooks, Others, LateReadersSeeOutput
<1> QED
  BY Invariant, InitLate, <1>1, <1>2, PTL DEF Spec
-----------------------------------------------------------------------------
(* RuleFiles: what the rules make, and when they have nothing left to add.   *)

(* The unity build writes no file of its own. *)
Plain == target.unity => \A f \in Sources(target) : f.ext = "asm"

(* What a target starts from: its sources, which no command ever makes.      *)
FilesShape ==
  /\ target \in Targets /\ order \in OrdersOf(target)
  /\ stage \in {"pass", "collect", "done", "failed"} /\ at \in 1..Len(order) + 1
  /\ IsFiniteSet(DOMAIN rfs) /\ target.sources \subseteq DOMAIN rfs
  /\ \A f \in target.sources : rfs[f] = No(f)
  /\ size \in Nat /\ Cardinality(target.sources) <= size /\ size <= Cardinality(DOMAIN rfs)

UnitySources == {File("c", <<"Module">>), File("cpp", <<"Module">>)}

(* How the rules make a file: the object o of the source g; another one.     *)
IsObject(o, g) ==
  /\ g \in Files /\ o = Object(g) /\ g.ext \in CompilerRules
  /\ rfs[o] = [made |-> TRUE, inputs |-> {g}, deps |-> {g}]
  /\ g \in Sources(target) \/ (~Plain /\ g \in UnitySources)
  /\ Plain => g \in DOMAIN rfs

IsMade(o) ==
  \/ \E g \in rfs[o].deps : IsObject(o, g)
  \/ o = Pdb /\ rfs[o] = No(o) /\ Provided(target, {"pdb"}) = {}
  \/ /\ rfs[o].made /\ rfs[o].deps = {}
     /\ \/ o \in Generated(target) \cup ResourceFiles \cup {Output}
        \/ o = DefFile /\ ExportsSymbols /\ Provided(target, {"def"}) = {}

FilesMade == \A o \in DOMAIN rfs \ target.sources : IsMade(o)

(* A rule would add nothing to the files there are.                          *)
CompilerClosed(r) ==
  IF Plain THEN \A f \in DOMAIN rfs : f.ext = r => Object(f) \in DOMAIN rfs
  ELSE r # "asm" /\ Of(r) # {} => Object(File(r, <<"Module">>)) \in DOMAIN rfs
LinkerClosed ==
  Linked \cup Of("def") # {} =>
    Output \in DOMAIN rfs /\ rfs[Output].inputs = Linked \cup Defs
OutputsClosed(from, to) == \A f \in DOMAIN rfs : f.ext = from => From(to, f) \in DOMAIN rfs

Closed(r) ==
  /\ r \in CompilerRules => CompilerClosed(r) /\ Cardinality(Of("pdb")) <= 1
  /\ r \in LinkerRules => LinkerClosed /\ Cardinality(Of("def")) <= 1
  /\ r = "rc" => OutputsClosed("rc", "res")
  /\ r \notin NativeRules => OutputsClosed("proto", "cpp")

Applied(r) == \E i \in 1..at - 1 : order[i] = r

(* A pass that added nothing yet has left every rule it applied with nothing *)
(* to add; that is why the commands may be taken when it ends.               *)
RulesSettled ==
  /\ stage = "pass" /\ size = Cardinality(DOMAIN rfs) =>
       \A r \in Named(order) : Applied(r) => Closed(r)
  /\ stage \in {"collect", "done"} => \A r \in Named(order) : Closed(r)

(* The sources that rules make come when a rule of the user's has been       *)
(* applied; resources come at the end of the first pass.                     *)
FirstPass == size = Cardinality(target.sources)
UserApplied == \E i \in 1..at - 1 : order[i] \notin NativeRules
LateArrivals ==
  /\ UserApplied \/ ~FirstPass => Generated(target) \subseteq DOMAIN rfs
  /\ FirstPass /\ MadeLate /\ Plain =>
       /\ ~Applied("cpp") => Generated(target) \cap DOMAIN rfs = {}
       /\ \A f \in Generated(target) : Object(f) \in target.sources \/ Object(f) \notin DOMAIN rfs
  /\ FirstPass /\ ~Applied("rc") => ResourceFiles \cap DOMAIN rfs \subseteq target.sources

(* Before the definition file is made, a missed file has no object, for a    *)
(* pass that made an object also links; and only when nothing could be       *)
(* linked in the first pass is the definition file not made in it.           *)
Exporter == Plain /\ ExportsSymbols /\ Provided(target, {"def"}) = {}
Awaited ==
  /\ missed # {} => ~Applied("link") /\ Of("obj") # {}
  /\ \A f \in missed : f \in Sources(target) /\ Applied(f.ext) /\ Object(f) \notin DOMAIN rfs
  /\ \A f \in Sources(target) : Applied(f.ext) =>
       \/ Object(f) \in DOMAIN rfs \/ f \in missed
       \/ f \in Generated(target) /\ MadeLate /\ FirstPass
  /\ ~FirstPass \/ Applied("link") => ~LinksFirst

(* What the definition file is made from stays, and what has no object then  *)
(* had been missed or comes too late.                                        *)
Seen == rfs[DefFile].inputs
Exported ==
  /\ Provided(target, {"obj"}) \subseteq Seen /\ Seen \subseteq Of("obj")
  /\ missed \subseteq Sources(target)
  /\ \A f \in Sources(target) :
       Object(f) \in target.sources \/ (Object(f) \in Seen <=> f \notin missed \cup LateSources)

Exporting ==
  /\ LateArrivals
  /\ Exporter => IF DefFile \in DOMAIN rfs THEN Exported ELSE Awaited

(* The commands are those of the files, none of which depends on a file that *)
(* is not there.                                                             *)
Collected ==
  stage = "done" =>
    /\ \A f \in DOMAIN rfs : rfs[f].deps \subseteq DOMAIN rfs
    /\ commands = [f \in {g \in DOMAIN rfs : rfs[g].made} |->
                    [inputs |-> rfs[f].inputs, before |-> Before(f)]]

FailsForCause ==
  stage = "failed" => TwoOf("pdb") \/ TwoOf("def") \/ UnityOf({"c", "cpp"})

RulesInv ==
  FilesShape /\ FilesMade /\ RulesSettled /\ Exporting /\ Collected /\ FailsForCause
-----------------------------------------------------------------------------
(* What the names of files tell.                                             *)

LEMMA FromIs ==
  ASSUME NEW f \in Files, NEW e \in Word
  PROVE  /\ From(e, f) \in Files /\ From(e, f).ext = e
         /\ From(e, f).name = Append(f.name, f.ext)
  BY DEF From, File, Files

(* Different files give different files. *)
LEMMA FromInjective ==
  ASSUME NEW f \in Files, NEW g \in Files, NEW e, From(e, f) = From(e, g)
  PROVE  f = g
  BY SMTT(30) DEF From, File, Files

LEMMA ObjectIs ==
  ASSUME NEW f \in Files
  PROVE  /\ Object(f) \in Files /\ Object(f).ext \in {"o", "obj"}
         /\ Object(f).ext = ObjectExt
         /\ \A g \in Files : Object(f) = Object(g) => f = g
<1>1. ObjectExt \in Word /\ ObjectExt \in {"o", "obj"}
  BY WordAssumption DEF ObjectExt
<1> QED
  BY <1>1, FromIs, FromInjective DEF Object

LEMMA TargetIs ==
  ASSUME NEW t \in Targets
  PROVE  /\ t \in Target /\ IsFiniteSet(t.sources) /\ t.sources \subseteq Files
         /\ Generated(t) \subseteq Files /\ Sources(t) \subseteq Files
         /\ \A f \in Generated(t) : f.ext = "cpp" /\ f \notin t.sources
         /\ \A f \in Sources(t) : f.ext \in CompilerRules
<1>1. t \in Target /\ IsFiniteSet(t.sources) /\ t.sources \subseteq Files
  BY TargetsAssumption DEF Target
<1>2. \A f \in t.sources : f.ext = "proto" => From("cpp", f) \notin t.sources
  BY TargetsAssumption
<1>3. \A f \in Generated(t) : f \in Files /\ f.ext = "cpp" /\ f \notin t.sources
  <2> SUFFICES ASSUME NEW p \in t.sources, p.ext = "proto"
               PROVE  /\ From("cpp", p) \in Files /\ From("cpp", p).ext = "cpp"
                      /\ From("cpp", p) \notin t.sources
    BY DEF Generated, Provided
  <2>1. p \in Files /\ "cpp" \in Word
    BY <1>1, WordAssumption
  <2> QED
    BY <1>2, <2>1, FromIs
<1> QED
  BY <1>1, <1>3 DEF Sources, Provided, CompilerRules

LEMMA OthersAre ==
  ASSUME target \in Targets
  PROVE  /\ {Pdb, DefFile, Output, ImportLibrary} \subseteq Files
         /\ Pdb.ext = "pdb" /\ DefFile.ext = "def"
         /\ Output.ext \in {"lib", "a", "dll", "so", "exe"}
         /\ Output.ext \in {"lib", "a"} => Output = ImportLibrary
         /\ Output.name = <<"out">> /\ ImportLibrary.name = <<"out">>
         /\ ImportLibrary.ext \in {"lib", "a"}
         /\ ResourceFiles \subseteq Files /\ \A f \in ResourceFiles : f.ext = "res"
<1>1. target.kind \in Kinds /\ target.windows \in BOOLEAN
  BY TargetIs DEF Target
<1>2. \A f \in ResourceFiles : f \in Files /\ f.ext = "res"
  <2> SUFFICES ASSUME NEW p \in target.sources
               PROVE  From("res", p) \in Files /\ From("res", p).ext = "res"
    BY DEF ResourceFiles, Provided
  <2>1. p \in Files /\ "res" \in Word
    BY TargetIs, WordAssumption
  <2> QED
    BY <2>1, FromIs
<1>3. <<"out">> \in Seq(Word) /\ <<"sw">> \in Seq(Word) /\ <<"sw", "symbols">> \in Seq(Word)
  BY WordAssumption
<1>4. LibraryExt \in {"lib", "a"}
  BY DEF LibraryExt
<1>5. Output = File(IF target.kind = "static" THEN LibraryExt
                    ELSE IF target.kind = "shared"
                         THEN IF target.windows THEN "dll" ELSE "so" ELSE "exe", <<"out">>)
  BY <1>1 DEF Output, Kinds
<1>6. /\ Output \in Files /\ Output.ext \in {"lib", "a", "dll", "so", "exe"}
      /\ Output.ext \in {"lib", "a"} => Output = ImportLibrary
      /\ Output.name = <<"out">>
  BY <1>3, <1>4, <1>5, WordAssumption DEF File, Files, ImportLibrary
<1>7. /\ ImportLibrary \in Files /\ ImportLibrary.name = <<"out">>
      /\ ImportLibrary.ext \in {"lib", "a"}
  BY <1>3, <1>4, WordAssumption DEF File, Files, ImportLibrary
<1>8. /\ Pdb \in Files /\ DefFile \in Files /\ Pdb.ext = "pdb" /\ DefFile.ext = "def"
  BY <1>3, WordAssumption DEF File, Files, Pdb, DefFile
<1> QED
  BY <1>2, <1>6, <1>7, <1>8

(* No target has the files that unity builds write, or their objects.        *)
LEMMA UnityIs ==
  ASSUME target \in Targets, NEW e \in {"c", "cpp"}
  PROVE  /\ File(e, <<"Module">>) \in Files /\ File(e, <<"Module">>).ext = e
         /\ File(e, <<"Module">>) \notin Sources(target)
         /\ File(e, <<"Module">>) \notin target.sources
         /\ Object(File(e, <<"Module">>)) \notin target.sources
<1> DEFINE u == File(e, <<"Module">>)
<1>1. u \in Files /\ u.ext = e /\ u.name = <<"Module">>
  BY WordAssumption DEF File, Files
<1>2. \A f \in target.sources : f.name = <<>> \/ f.name[1] # "Module"
  BY TargetsAssumption
<1>3. u \notin target.sources
  BY <1>1, <1>2
<1>4. Object(u).name = Append(<<"Module">>, e)
  BY <1>1 DEF Object, From, File
<1>5. Object(u).name # <<>> /\ Object(u).name[1] = "Module"
  BY <1>4
<1>6. Object(u) \notin target.sources
  BY <1>2, <1>5
<1>7. u \notin Generated(target)
  <2> SUFFICES ASSUME NEW p \in target.sources, p.ext = "proto", u = From("cpp", p)
               PROVE  FALSE
    BY DEF Generated, Provided
  <2>1. p \in Files /\ u.name = Append(p.name, "proto")
    <3>1. p \in Files /\ "cpp" \in Word
      BY TargetIs, WordAssumption
    <3> QED
      BY <3>1, FromIs
  <2>2. Len(u.name) = Len(p.name) + 1 /\ u.name[Len(p.name) + 1] = "proto"
    BY <2>1 DEF Files
  <2> QED
    BY <1>1, <2>1, <2>2 DEF Files
<1> QED
  BY <1>1, <1>3, <1>6, <1>7 DEF Sources, Provided

(* All of this is about the target, which stays.                             *)
LEMMA Static ==
  ASSUME target' = target, order' = order
  PROVE  /\ Plain' = Plain /\ Output' = Output /\ ImportLibrary' = ImportLibrary
         /\ ResourceFiles' = ResourceFiles /\ Objects' = Objects
         /\ Sources(target)' = Sources(target) /\ Generated(target)' = Generated(target)
         /\ LateSources' = LateSources /\ MadeLate' = MadeLate /\ LinksFirst' = LinksFirst
         /\ IsLinker' = IsLinker /\ ExportsSymbols' = ExportsSymbols /\ Exporter' = Exporter
         /\ \A f : Object(f)' = Object(f)
         /\ \A es : Provided(target, es)' = Provided(target, es)
  BY DEF Plain, Output, ImportLibrary, LibraryExt, ResourceFiles, HasRule, Objects, Sources,
         Generated, Provided, LateSources, MadeLate, LinksFirst, IsLinker, ExportsSymbols,
         Exporter, Object, ObjectExt
-----------------------------------------------------------------------------
(* What a rule does to the files.                                            *)

LEMMA FilesKnown ==
  ASSUME FilesShape, FilesMade
  PROVE  /\ DOMAIN rfs \subseteq Files
         /\ \A r : Inputs(r) \subseteq Files /\ \A f \in Inputs(r) : f.ext = r
         /\ \A r : Inputs(r) \subseteq
              DOMAIN rfs \cup {File("c", <<"Module">>), File("cpp", <<"Module">>)}
         /\ \A r : IsFiniteSet(Inputs(r))
<1>0. target \in Targets
  BY DEF FilesShape
<1>1. ASSUME NEW o \in DOMAIN rfs PROVE o \in Files
  <2>1. CASE o \in target.sources
    BY <1>0, <2>1, TargetIs
  <2>2. CASE IsMade(o)
    BY <1>0, <2>2, TargetIs, OthersAre, ObjectIs DEF IsMade, IsObject
  <2> QED
    BY <2>1, <2>2 DEF FilesMade
<1>2. UnityFiles \subseteq {File("c", <<"Module">>), File("cpp", <<"Module">>)}
  BY DEF UnityFiles, Of
<1>3. ASSUME NEW r
      PROVE  Inputs(r) \subseteq
               DOMAIN rfs \cup {File("c", <<"Module">>), File("cpp", <<"Module">>)}
  BY <1>2 DEF Inputs
<1>4. {File("c", <<"Module">>), File("cpp", <<"Module">>)} \subseteq Files
  BY <1>0, UnityIs
<1>5. IsFiniteSet(DOMAIN rfs \cup {File("c", <<"Module">>), File("cpp", <<"Module">>)})
  <2>1. IsFiniteSet({File("c", <<"Module">>)}) /\ IsFiniteSet({File("cpp", <<"Module">>)})
    BY FS_Singleton
  <2>2. IsFiniteSet({File("c", <<"Module">>)} \cup {File("cpp", <<"Module">>)})
    BY <2>1, FS_Union
  <2>3. IsFiniteSet(DOMAIN rfs \cup ({File("c", <<"Module">>)} \cup {File("cpp", <<"Module">>)}))
    BY <2>2, FS_Union DEF FilesShape
  <2>4. DOMAIN rfs \cup ({File("c", <<"Module">>)} \cup {File("cpp", <<"Module">>)}) =
          DOMAIN rfs \cup {File("c", <<"Module">>), File("cpp", <<"Module">>)}
    OBVIOUS
  <2> QED
    BY <2>3, <2>4
<1>6. \A r : IsFiniteSet(Inputs(r))
  BY <1>3, <1>5, FS_Subset
<1>7. \A r : \A f \in Inputs(r) : f.ext = r
  BY DEF Inputs
<1> QED
  BY <1>1, <1>3, <1>4, <1>6, <1>7

LEMMA CompileEffect ==
  ASSUME FilesShape, FilesMade, NEW r, Compile(r)
  PROVE  \E files \in SUBSET Inputs(r), pdb \in SUBSET {Pdb} :
           /\ files = {} => Inputs(r) = {}
           /\ target.unity /\ UnityFiles # {} => files = Inputs(r)
           /\ DOMAIN rfs' = DOMAIN rfs \cup {Object(f) : f \in files} \cup pdb
           /\ \A f \in files : rfs'[Object(f)] = [made |-> TRUE, inputs |-> {f}, deps |-> {f}]
           /\ pdb # {} => rfs'[Pdb] = No(Pdb) /\ Of("pdb") = {}
           /\ \A d \in DOMAIN rfs : rfs'[d] = rfs[d]
           /\ missed' = missed \cup (Inputs(r) \ files)
<1>0. target \in Targets
  BY DEF FilesShape
<1>1. PICK files \in SUBSET Inputs(r) :
        /\ files = {} => Inputs(r) = {}
        /\ target.unity /\ UnityFiles # {} => files = Inputs(r)
        /\ rfs' = LET source(o) == {f \in files : o = Object(f)}
                      pdb == IF SetsPdb(r) THEN {Pdb} ELSE {}
                  IN  Adding([o \in {Object(f) : f \in files} \cup pdb |->
                                IF o = Pdb THEN No(Pdb)
                                ELSE [made |-> TRUE, inputs |-> source(o), deps |-> source(o)]])
        /\ missed' = missed \cup (Inputs(r) \ files)
  BY DEF Compile
<1> DEFINE source(o) == {f \in files : o = Object(f)}
           pdb == IF SetsPdb(r) THEN {Pdb} ELSE {}
           new == {Object(f) : f \in files} \cup pdb
           made == [o \in new |->
                      IF o = Pdb THEN No(Pdb)
                      ELSE [made |-> TRUE, inputs |-> source(o), deps |-> source(o)]]
<1>2. DOMAIN made = new /\ rfs' = Adding(made)
  BY <1>1
<1> HIDE DEF made
<1>3. /\ DOMAIN rfs' = new \cup DOMAIN rfs
      /\ \A o \in new : rfs'[o] = made[o]
      /\ \A d \in DOMAIN rfs \ new : rfs'[d] = rfs[d]
  BY <1>2 DEF Adding
<1>4. ASSUME NEW f \in files PROVE Object(f) # Pdb /\ source(Object(f)) = {f}
  <2>1. files \subseteq Files
    BY FilesKnown
  <2> QED
    BY <1>0, <2>1, ObjectIs, OthersAre
<1>5. ASSUME NEW f \in files
      PROVE  rfs'[Object(f)] = [made |-> TRUE, inputs |-> {f}, deps |-> {f}]
  <2>1. rfs'[Object(f)] = made[Object(f)]
    BY <1>3
  <2>2. made[Object(f)] = [made |-> TRUE, inputs |-> source(Object(f)),
                           deps |-> source(Object(f))]
    BY <1>4 DEF made
  <2> QED
    BY <1>4, <2>1, <2>2
<1>6. ASSUME pdb # {} PROVE rfs'[Pdb] = No(Pdb) /\ Of("pdb") = {}
  <2>1. SetsPdb(r) /\ Pdb \in new
    BY <1>6
  <2>2. made[Pdb] = No(Pdb)
    BY <2>1 DEF made
  <2> QED
    BY <1>3, <2>1, <2>2 DEF SetsPdb
<1>7. DOMAIN rfs \cap new = {}
  <2>1. \A f \in files : Object(f) \notin DOMAIN rfs
    BY DEF Inputs
  <2>2. pdb # {} => Pdb \notin DOMAIN rfs
    BY <1>0, <1>6, OthersAre DEF Of
  <2> QED
    BY <2>1, <2>2
<1>8. /\ pdb \in SUBSET {Pdb}
      /\ DOMAIN rfs' = DOMAIN rfs \cup {Object(f) : f \in files} \cup pdb
  BY <1>3
<1>9. \A d \in DOMAIN rfs : rfs'[d] = rfs[d]
  BY <1>3, <1>7
<1> HIDE DEF pdb, source, new
<1> QED
  BY <1>1, <1>5, <1>6, <1>8, <1>9

LEMMA LinkEffect ==
  ASSUME FilesShape, FilesMade, NEW r, Link(r)
  PROVE  /\ missed' = missed
         /\ \/ Linked \cup Of("def") = {} /\ rfs' = rfs
            \/ /\ Linked \cup Of("def") # {}
               /\ \E def \in SUBSET {DefFile} :
                    /\ def # {} <=> MakesDef
                    /\ DOMAIN rfs' = DOMAIN rfs \cup {Output} \cup def
                    /\ rfs'[Output] = Command(Linked \cup Defs \cup def)
                    /\ def # {} => rfs'[DefFile] = Command(Of("obj"))
                    /\ \A d \in DOMAIN rfs \ {Output} : rfs'[d] = rfs[d]
<1>0. target \in Targets
  BY DEF FilesShape
<1>1. missed' = missed
  BY DEF Link
<1>2. CASE Linked = {} /\ Of("def") = {}
  BY <1>1, <1>2 DEF Link
<1>3. CASE ~(Linked = {} /\ Of("def") = {})
  <2>1. rfs' = Linking
    BY <1>3 DEF Link
  <2> DEFINE def == IF MakesDef THEN {DefFile} ELSE {}
             made == [f \in {Output} \cup def |->
                        Command(IF f = Output THEN Linked \cup Defs \cup def ELSE DefInputs)]
  <2>2. rfs' = Adding(made) /\ DOMAIN made = {Output} \cup def
    BY <2>1 DEF Linking
  <2>3. Output # DefFile
    BY <1>0, OthersAre
  <2>4. made[Output] = Command(Linked \cup Defs \cup def)
    OBVIOUS
  <2>5. def # {} => made[DefFile] = Command(Of("obj"))
    BY <2>3 DEF DefInputs
  <2>6. def # {} => DefFile \notin DOMAIN rfs
    BY <1>0, OthersAre DEF MakesDef, Of
  <2> HIDE DEF made
  <2>7. /\ DOMAIN rfs' = DOMAIN rfs \cup {Output} \cup def
        /\ rfs'[Output] = Command(Linked \cup Defs \cup def)
        /\ def # {} => rfs'[DefFile] = Command(Of("obj"))
        /\ \A d \in DOMAIN rfs \ {Output} : rfs'[d] = rfs[d]
    BY <2>2, <2>4, <2>5, <2>6 DEF Adding
  <2>8. def \in SUBSET {DefFile} /\ (def # {} <=> MakesDef)
    OBVIOUS
  <2> HIDE DEF def
  <2> QED
    BY <1>1, <1>3, <2>7, <2>8
<1> QED
  BY <1>2, <1>3

LEMMA OutputsEffect ==
  ASSUME NEW from, NEW to, AddOutputs(from, to)
  PROVE  /\ DOMAIN rfs' = DOMAIN rfs \cup {From(to, f) : f \in Of(from)}
         /\ \A o \in DOMAIN rfs' \ DOMAIN rfs : rfs'[o].made /\ rfs'[o].deps = {}
         /\ \A d \in DOMAIN rfs : rfs'[d] = rfs[d]
<1> DEFINE outputs == {From(to, f) : f \in Of(from)} \ DOMAIN rfs
           made == [o \in outputs |-> Command({f \in Of(from) : o = From(to, f)})]
<1>1. rfs' = Adding(made) /\ DOMAIN made = outputs
  BY DEF AddOutputs
<1>2. \A o \in outputs : made[o].made /\ made[o].deps = {}
  BY DEF Command
<1> HIDE DEF made, outputs
<1>3. /\ DOMAIN rfs' = outputs \cup DOMAIN rfs
      /\ \A o \in outputs : rfs'[o] = made[o]
      /\ \A d \in DOMAIN rfs \ outputs : rfs'[d] = rfs[d]
  BY <1>1 DEF Adding
<1>4. outputs \cap DOMAIN rfs = {}
  BY DEF outputs
<1> USE DEF outputs
<1> QED
  BY <1>2, <1>3, <1>4
-----------------------------------------------------------------------------
(* What files of some kind are.                                              *)

LEMMA KnownKinds ==
  ASSUME FilesShape, FilesMade, NEW f \in DOMAIN rfs
  PROVE  /\ f.ext \in {"proto", "rc"} => f \in target.sources
         /\ f.ext \in CompilerRules => f \in Sources(target)
<1>0. target \in Targets
  BY DEF FilesShape
<1>1. CASE f \in target.sources
  BY <1>1 DEF Sources, Provided
<1>2. CASE IsMade(f)
  <2>1. f \in Generated(target) \/ f.ext \notin {"proto", "rc"} \cup CompilerRules
    BY <1>0, <1>2, OthersAre, ObjectIs DEF IsMade, IsObject, CompilerRules
  <2>2. f \in Generated(target) => f.ext = "cpp"
    BY <1>0, TargetIs
  <2> QED
    BY <2>1, <2>2 DEF Sources
<1> QED
  BY <1>1, <1>2 DEF FilesMade

(* Without unity files, the compilers take the sources that have no object.  *)
LEMMA PlainInputs ==
  ASSUME FilesShape, FilesMade, Plain \/ ~target.unity, NEW r
  PROVE  /\ Inputs(r) = {f \in DOMAIN rfs : f.ext = r /\ Object(f) \notin DOMAIN rfs}
         /\ ~(target.unity /\ UnityFiles # {})
<1>1. CASE ~target.unity
  BY <1>1 DEF Inputs
<1>2. CASE Plain /\ target.unity
  <2>1. Of("c") = {} /\ Of("cpp") = {}
    BY <1>2, KnownKinds DEF Plain, Of, CompilerRules
  <2>2. UnityFiles = {}
    BY <2>1 DEF UnityFiles
  <2> QED
    BY <2>2 DEF Inputs
<1> QED
  BY <1>1, <1>2

(* How a file was made holds on, as other files come and the output gets a   *)
(* new command.                                                              *)
LEMMA MadeStays ==
  ASSUME target' = target, order' = order, DOMAIN rfs \subseteq DOMAIN rfs',
         NEW o \in DOMAIN rfs, IsMade(o), rfs'[o] = rfs[o]
  PROVE  IsMade(o)'
<1> USE Static
<1>1. CASE \E g \in rfs[o].deps : IsObject(o, g)
  <2>1. PICK g \in rfs[o].deps : IsObject(o, g)
    BY <1>1
  <2>2. IsObject(o, g)'
    BY <2>1 DEF IsObject, UnitySources, File
  <2>3. g \in rfs'[o].deps
    BY <2>1
  <2> QED
    BY <2>2, <2>3 DEF IsMade
<1>2. CASE ~\E g \in rfs[o].deps : IsObject(o, g)
  <2>1. /\ Pdb' = Pdb /\ DefFile' = DefFile /\ No(o)' = No(o)
        /\ Provided(target, {"pdb"})' = Provided(target, {"pdb"})
        /\ Provided(target, {"def"})' = Provided(target, {"def"})
    BY DEF Pdb, DefFile, No
  <2> QED
    BY <1>2, <2>1 DEF IsMade
<1> QED
  BY <1>1, <1>2

LEMMA ImageFinite ==
  ASSUME NEW S, IsFiniteSet(S), NEW e
  PROVE  IsFiniteSet({From(e, f) : f \in S})
<1> DEFINE T == {From(e, f) : f \in S}
           g == [f \in S |-> From(e, f)]
<1>1. g \in Surjection(S, T)
  BY DEF Surjection
<1> HIDE DEF g, T
<1>2. IsFiniteSet(T)
  BY <1>1, FS_Surjection
<1> QED
  BY <1>2 DEF T

(* The files a step adds, and the shape they leave.                          *)
LEMMA ShapeGrows ==
  ASSUME FilesShape, target' = target, order' = order, stage' = stage, size' = size,
         at' \in 1..Len(order) + 1,
         NEW new, IsFiniteSet(new), DOMAIN rfs' = DOMAIN rfs \cup new,
         \A f \in target.sources : rfs'[f] = rfs[f]
  PROVE  FilesShape' /\ Cardinality(DOMAIN rfs) <= Cardinality(DOMAIN rfs')
<1>1. IsFiniteSet(DOMAIN rfs')
  BY FS_Union DEF FilesShape
<1>2. /\ Cardinality(DOMAIN rfs) <= Cardinality(DOMAIN rfs')
      /\ Cardinality(DOMAIN rfs) \in Nat /\ Cardinality(DOMAIN rfs') \in Nat
  BY <1>1, FS_Subset, FS_CardinalityType
<1>3. OrdersOf(target)' = OrdersOf(target)
  BY DEF OrdersOf, HasRule
<1>4. size <= Cardinality(DOMAIN rfs')
  BY <1>2 DEF FilesShape
<1>5. \A f \in target.sources : rfs'[f] = No(f)
  BY DEF FilesShape
<1> QED
  BY <1>1, <1>2, <1>3, <1>4, <1>5 DEF FilesShape, No

(* The output is made where no source lies: no command makes a source anew.  *)
LEMMA OutputIsNoSource ==
  ASSUME target \in Targets
  PROVE  Output \notin target.sources /\ ImportLibrary \notin target.sources
  BY OthersAre, TargetsAssumption
-----------------------------------------------------------------------------
(* The shape, and how files were made.                                       *)

LEMMA OrderIs ==
  ASSUME FilesShape
  PROVE  /\ order \in RuleNames /\ order \in Seq(STRING) /\ Len(order) \in Nat
         /\ DOMAIN order = 1..Len(order) /\ CompilerRules \subseteq Named(order)
         /\ \E i \in 1..Len(order) : order[i] \notin NativeRules
         /\ \A i, j \in 1..Len(order) :
              /\ order[i] = order[j] => i = j
              /\ order[i] \in CompilerRules /\ order[j] \in NativeRules \ CompilerRules => i < j
              /\ order[i] \in LinkerRules /\ order[j] = "rc" => i < j
         /\ \A r \in {"lib", "link", "rc"} : r \in Named(order) <=> HasRule(target, r)
<1>1. /\ order \in RuleNames
      /\ \A r \in {"lib", "link", "rc"} : r \in Named(order) <=> HasRule(target, r)
  BY DEF FilesShape, OrdersOf
<1>2. /\ order \in Seq(STRING) /\ CompilerRules \subseteq Named(order)
      /\ ~(Named(order) \subseteq NativeRules)
      /\ \A i, j \in DOMAIN order :
           /\ order[i] = order[j] => i = j
           /\ order[i] \in CompilerRules /\ order[j] \in NativeRules \ CompilerRules => i < j
           /\ order[i] \in LinkerRules /\ order[j] = "rc" => i < j
  BY <1>1, RulesAssumption
<1>3. Len(order) \in Nat /\ DOMAIN order = 1..Len(order)
  BY <1>2
<1> QED
  BY <1>1, <1>2, <1>3 DEF Named

LEMMA NextIndex ==
  ASSUME FilesShape, at <= Len(order), at' = at + 1
  PROVE  at' \in 1..Len(order) + 1
  BY OrderIs DEF FilesShape

LEMMA CompileMakes ==
  ASSUME FilesShape, FilesMade, NEW r, Compile(r)
  PROVE  FilesShape' /\ FilesMade'
<1>0. /\ target \in Targets /\ target' = target /\ order' = order /\ stage' = stage
      /\ size' = size /\ at' \in 1..Len(order) + 1 /\ r \in CompilerRules
  BY NextIndex DEF FilesShape, Compile, Turn, NextRule
<1>1. PICK files \in SUBSET Inputs(r), pdb \in SUBSET {Pdb} :
        /\ files = {} => Inputs(r) = {}
        /\ target.unity /\ UnityFiles # {} => files = Inputs(r)
        /\ DOMAIN rfs' = DOMAIN rfs \cup {Object(f) : f \in files} \cup pdb
        /\ \A f \in files : rfs'[Object(f)] = [made |-> TRUE, inputs |-> {f}, deps |-> {f}]
        /\ pdb # {} => rfs'[Pdb] = No(Pdb) /\ Of("pdb") = {}
        /\ \A d \in DOMAIN rfs : rfs'[d] = rfs[d]
        /\ missed' = missed \cup (Inputs(r) \ files)
  BY CompileEffect
<1>2. FilesShape'
  <2>1. IsFiniteSet(files) /\ IsFiniteSet(pdb)
    BY FilesKnown, FS_Subset, FS_Singleton
  <2>2. IsFiniteSet({Object(f) : f \in files})
    BY <2>1, ImageFinite DEF Object
  <2>3. IsFiniteSet({Object(f) : f \in files} \cup pdb)
    BY <2>1, <2>2, FS_Union
  <2>4. DOMAIN rfs' = DOMAIN rfs \cup ({Object(f) : f \in files} \cup pdb)
    BY <1>1
  <2>5. \A f \in target.sources : rfs'[f] = rfs[f]
    BY <1>1 DEF FilesShape
  <2> QED
    BY <1>0, <2>3, <2>4, <2>5, ShapeGrows
<1>3. FilesMade'
  <2> SUFFICES ASSUME NEW o \in DOMAIN rfs', o \notin target.sources
               PROVE  IsMade(o)'
    BY <1>0 DEF FilesMade
  <2>1. CASE o \in DOMAIN rfs
    <3>1. IsMade(o) /\ rfs'[o] = rfs[o] /\ DOMAIN rfs \subseteq DOMAIN rfs'
      BY <1>1, <2>1 DEF FilesMade
    <3> QED
      BY <1>0, <2>1, <3>1, MadeStays
  <2>2. CASE \E f \in files : o = Object(f)
    <3>1. PICK f \in files : o = Object(f)
      BY <2>2
    <3>2. f \in Files /\ f.ext = r /\ f \in Inputs(r)
      BY FilesKnown
    <3>3. rfs'[o] = [made |-> TRUE, inputs |-> {f}, deps |-> {f}]
      BY <1>1, <3>1
    <3>4. f \in Sources(target) \/ (~Plain /\ f \in UnitySources)
      <4>1. f \in DOMAIN rfs => f \in Sources(target)
        BY <1>0, <3>2, KnownKinds
      <4>2. Plain => f \in DOMAIN rfs
        BY <3>2, PlainInputs
      <4>3. f \in DOMAIN rfs \/ f \in UnitySources
        BY <3>2, FilesKnown DEF UnitySources
      <4> QED
        BY <4>1, <4>2, <4>3
    <3>5. Plain => f \in DOMAIN rfs'
      BY <1>1, <3>2, PlainInputs
    <3>6. IsObject(o, f)'
      BY <1>0, <3>1, <3>2, <3>3, <3>4, <3>5, Static DEF IsObject, UnitySources, File
    <3> QED
      BY <3>3, <3>6 DEF IsMade
  <2>3. CASE o \in pdb
    <3>1. o = Pdb /\ rfs'[o] = No(o) /\ Of("pdb") = {}
      BY <1>1, <2>3
    <3>2. Provided(target, {"pdb"}) = {}
      BY <3>1 DEF Provided, Of, FilesShape
    <3>3. Provided(target, {"pdb"})' = {} /\ Pdb' = Pdb /\ No(o)' = No(o)
      BY <1>0, <3>2, Static DEF Pdb, No
    <3> QED
      BY <3>1, <3>3 DEF IsMade
  <2> QED
    BY <1>1, <2>1, <2>2, <2>3
<1> QED
  BY <1>2, <1>3

LEMMA LinkMakes ==
  ASSUME FilesShape, FilesMade, NEW r, Link(r)
  PROVE  FilesShape' /\ FilesMade'
<1>0. /\ target \in Targets /\ target' = target /\ order' = order /\ stage' = stage
      /\ size' = size /\ at' \in 1..Len(order) + 1
  BY NextIndex DEF FilesShape, Link, Turn, NextRule
<1>1. CASE rfs' = rfs
  <2>1. DOMAIN rfs' = DOMAIN rfs \cup {} /\ IsFiniteSet({})
    BY <1>1, FS_EmptySet
  <2>2. \A f \in target.sources : rfs'[f] = rfs[f]
    BY <1>1
  <2>3. FilesShape'
    BY <1>0, <2>1, <2>2, ShapeGrows
  <2>4. ASSUME NEW o \in DOMAIN rfs, o \notin target.sources PROVE IsMade(o)'
    BY <1>0, <1>1, <2>4, MadeStays DEF FilesMade
  <2>5. FilesMade'
    BY <1>0, <1>1, <2>4 DEF FilesMade
  <2> QED
    BY <2>3, <2>5
<1>2. CASE \E def \in SUBSET {DefFile} :
             /\ def # {} <=> MakesDef
             /\ DOMAIN rfs' = DOMAIN rfs \cup {Output} \cup def
             /\ rfs'[Output] = Command(Linked \cup Defs \cup def)
             /\ def # {} => rfs'[DefFile] = Command(Of("obj"))
             /\ \A d \in DOMAIN rfs \ {Output} : rfs'[d] = rfs[d]
  <2>1. PICK def \in SUBSET {DefFile} :
             /\ def # {} <=> MakesDef
             /\ DOMAIN rfs' = DOMAIN rfs \cup {Output} \cup def
             /\ rfs'[Output] = Command(Linked \cup Defs \cup def)
             /\ def # {} => rfs'[DefFile] = Command(Of("obj"))
             /\ \A d \in DOMAIN rfs \ {Output} : rfs'[d] = rfs[d]
    BY <1>2
  <2>2. FilesShape'
    <3>1. IsFiniteSet({Output}) /\ IsFiniteSet(def)
      BY FS_Singleton, FS_Subset
    <3>2. IsFiniteSet({Output} \cup def)
      BY <3>1, FS_Union
    <3>3. DOMAIN rfs' = DOMAIN rfs \cup ({Output} \cup def)
      BY <2>1
    <3>4. \A f \in target.sources : rfs'[f] = rfs[f]
      BY <1>0, <2>1, OutputIsNoSource DEF FilesShape
    <3> QED
      BY <1>0, <3>2, <3>3, <3>4, ShapeGrows
  <2>3. ASSUME NEW o \in DOMAIN rfs', o \notin target.sources PROVE IsMade(o)'
    <3>1. CASE o = Output
      <4>1. rfs'[o].made /\ rfs'[o].deps = {} /\ Output' = Output
        BY <1>0, <2>1, <3>1, Static DEF Command
      <4> QED
        BY <3>1, <4>1 DEF IsMade
    <3>2. CASE o \in DOMAIN rfs /\ o # Output
      <4>1. IsMade(o) /\ rfs'[o] = rfs[o] /\ DOMAIN rfs \subseteq DOMAIN rfs'
        BY <2>1, <2>3, <3>2 DEF FilesMade
      <4> QED
        BY <1>0, <3>2, <4>1, MadeStays
    <3>3. CASE o \in def
      <4>1. o = DefFile /\ MakesDef /\ rfs'[o] = Command(Of("obj"))
        BY <2>1, <3>3
      <4>2. ExportsSymbols /\ Of("def") = {} /\ rfs'[o].made /\ rfs'[o].deps = {}
        BY <4>1 DEF MakesDef, Command
      <4>3. Provided(target, {"def"}) = {}
        BY <4>2 DEF Provided, Of, FilesShape
      <4>4. Provided(target, {"def"})' = {} /\ DefFile' = DefFile /\ ExportsSymbols'
        BY <1>0, <4>2, <4>3, Static DEF DefFile
      <4> QED
        BY <1>0, <4>1, <4>2, <4>4 DEF IsMade
    <3> QED
      BY <2>1, <3>1, <3>2, <3>3
  <2>4. FilesMade'
    BY <1>0, <2>3 DEF FilesMade
  <2> QED
    BY <2>2, <2>4
<1> QED
  BY <1>1, <1>2, LinkEffect

(* The outputs of a rule are those of the sources it takes.                  *)
LEMMA OutputsMake ==
  ASSUME FilesShape, FilesMade, NEW from, NEW to, AddOutputs(from, to),
         target' = target, order' = order, stage' = stage, size' = size,
         at' \in 1..Len(order) + 1,
         \A f \in Of(from) : From(to, f) \in Generated(target) \cup ResourceFiles
  PROVE  FilesShape' /\ FilesMade'
<1> DEFINE outputs == {From(to, f) : f \in Of(from)}
<1>1. /\ DOMAIN rfs' = DOMAIN rfs \cup outputs
      /\ \A o \in DOMAIN rfs' \ DOMAIN rfs : rfs'[o].made /\ rfs'[o].deps = {}
      /\ \A d \in DOMAIN rfs : rfs'[d] = rfs[d]
  BY OutputsEffect
<1>2. IsFiniteSet(outputs)
  <2>1. IsFiniteSet(Of(from))
    BY FS_Subset DEF FilesShape, Of
  <2> QED
    BY <2>1, ImageFinite
<1>3. \A o \in outputs : o \in Generated(target) \cup ResourceFiles
  OBVIOUS
<1> HIDE DEF outputs
<1>4. FilesShape'
  <2>1. \A f \in target.sources : rfs'[f] = rfs[f]
    BY <1>1 DEF FilesShape
  <2> QED
    BY <1>1, <1>2, <2>1, ShapeGrows
<1>5. ASSUME NEW o \in DOMAIN rfs', o \notin target.sources PROVE IsMade(o)'
  <2>1. CASE o \in DOMAIN rfs
    <3>1. IsMade(o) /\ rfs'[o] = rfs[o] /\ DOMAIN rfs \subseteq DOMAIN rfs'
      BY <1>1, <1>5, <2>1 DEF FilesMade
    <3> QED
      BY <2>1, <3>1, MadeStays
  <2>2. CASE o \notin DOMAIN rfs
    <3>1. o \in Generated(target)' \cup ResourceFiles'
      BY <1>1, <1>3, <2>2, Static
    <3> QED
      BY <1>1, <2>2, <3>1 DEF IsMade
  <2> QED
    BY <1>1, <2>1, <2>2
<1>6. FilesMade'
  BY <1>5 DEF FilesMade
<1> QED
  BY <1>4, <1>6

LEMMA ResourcesMake ==
  ASSUME FilesShape, FilesMade, Resources
  PROVE  FilesShape' /\ FilesMade'
<1>1. /\ target' = target /\ order' = order /\ stage' = stage /\ size' = size
      /\ at' \in 1..Len(order) + 1 /\ AddOutputs("rc", "res")
      /\ order[at] = "rc" /\ at \in 1..Len(order)
  BY NextIndex, OrderIs DEF FilesShape, Resources, Turn, NextRule
<1>2. HasRule(target, "rc")
  BY <1>1, OrderIs DEF Named
<1>3. \A f \in Of("rc") : From("res", f) \in ResourceFiles
  BY <1>2, KnownKinds DEF Of, ResourceFiles, Provided
<1> QED
  BY <1>1, <1>3, OutputsMake

LEMMA UserRuleMakes ==
  ASSUME FilesShape, FilesMade, NEW r, UserRule(r)
  PROVE  FilesShape' /\ FilesMade'
<1>1. /\ target' = target /\ order' = order /\ stage' = stage /\ size' = size
      /\ at' \in 1..Len(order) + 1 /\ AddOutputs("proto", "cpp")
  BY NextIndex DEF FilesShape, UserRule, Turn, NextRule
<1>2. \A f \in Of("proto") : From("cpp", f) \in Generated(target)
  BY KnownKinds DEF Of, Generated, Provided
<1> QED
  BY <1>1, <1>2, OutputsMake
-----------------------------------------------------------------------------
(* A pass that adds no file finds every rule done.                           *)

LEMMA SameFiles ==
  ASSUME FilesShape, IsFiniteSet(DOMAIN rfs'), size' = size, DOMAIN rfs \subseteq DOMAIN rfs',
         size' = Cardinality(DOMAIN rfs')
  PROVE  DOMAIN rfs' = DOMAIN rfs /\ size = Cardinality(DOMAIN rfs)
<1>1. Cardinality(DOMAIN rfs) <= Cardinality(DOMAIN rfs')
  BY FS_Subset
<1>2. Cardinality(DOMAIN rfs) \in Nat /\ Cardinality(DOMAIN rfs') \in Nat
  BY FS_CardinalityType DEF FilesShape
<1>3. Cardinality(DOMAIN rfs) = Cardinality(DOMAIN rfs') /\ size = Cardinality(DOMAIN rfs)
  BY <1>1, <1>2 DEF FilesShape
<1> QED
  BY <1>3, FS_Subset

LEMMA SameLinked ==
  ASSUME target' = target, DOMAIN rfs' = DOMAIN rfs
  PROVE  Linked' = Linked /\ Defs' = Defs /\ \A e : Of(e)' = Of(e)
  BY DEF Linked, Defs, Of, IsLinker, ImportLibrary, LibraryExt

LEMMA ClosedStays ==
  ASSUME target' = target, order' = order, DOMAIN rfs' = DOMAIN rfs,
         Output \in DOMAIN rfs =>
           rfs'[Output].inputs \in {rfs[Output].inputs, Linked \cup Defs},
         NEW r, Closed(r)
  PROVE  Closed(r)'
<1>1. CompilerClosed(r) => CompilerClosed(r)'
  BY Static, SameLinked DEF CompilerClosed, File
<1>2. LinkerClosed => LinkerClosed'
  BY Static, SameLinked DEF LinkerClosed
<1>3. /\ OutputsClosed("rc", "res") => OutputsClosed("rc", "res")'
      /\ OutputsClosed("proto", "cpp") => OutputsClosed("proto", "cpp")'
  BY DEF OutputsClosed, From, File
<1> QED
  BY <1>1, <1>2, <1>3, SameLinked DEF Closed, CompilerRules, LinkerRules, NativeRules

LEMMA SettledStep ==
  ASSUME FilesShape, RulesSettled, FilesShape', target' = target, order' = order,
         stage = "pass", stage' = stage, size' = size, at' = at + 1, at <= Len(order),
         DOMAIN rfs \subseteq DOMAIN rfs', NEW r, r = order[at],
         DOMAIN rfs' = DOMAIN rfs =>
           /\ Closed(r)'
           /\ Output \in DOMAIN rfs =>
                rfs'[Output].inputs \in {rfs[Output].inputs, Linked \cup Defs}
  PROVE  RulesSettled'
<1> SUFFICES ASSUME size' = Cardinality(DOMAIN rfs'), NEW q \in Named(order), Applied(q)'
             PROVE  Closed(q)'
  BY DEF RulesSettled, Named
<1>1. IsFiniteSet(DOMAIN rfs')
  BY DEF FilesShape
<1>2. DOMAIN rfs' = DOMAIN rfs /\ size = Cardinality(DOMAIN rfs)
  BY <1>1, SameFiles
<1>3. CASE q = r
  BY <1>2, <1>3
<1>4. CASE q # r
  <2>1. Applied(q)
    BY <1>4, OrderIs DEF Applied, FilesShape
  <2>2. Closed(q)
    BY <1>2, <2>1 DEF RulesSettled
  <2> QED
    BY <1>2, <2>2, ClosedStays
<1> QED
  BY <1>3, <1>4

LEMMA CompileSettles ==
  ASSUME FilesShape, FilesMade, RulesSettled, NEW r, Compile(r)
  PROVE  RulesSettled'
<1>0. /\ target' = target /\ order' = order /\ stage' = stage /\ stage = "pass" /\ at' = at + 1
      /\ size' = size /\ at <= Len(order) /\ r = order[at] /\ r \in CompilerRules
      /\ Cardinality(Of("pdb")) <= 1
  BY DEF Compile, Turn, NextRule
<1>1. FilesShape' /\ FilesMade'
  BY CompileMakes
<1>2. PICK files \in SUBSET Inputs(r), pdb \in SUBSET {Pdb} :
        /\ files = {} => Inputs(r) = {}
        /\ DOMAIN rfs' = DOMAIN rfs \cup {Object(f) : f \in files} \cup pdb
        /\ \A d \in DOMAIN rfs : rfs'[d] = rfs[d]
  BY CompileEffect
<1>3. ASSUME DOMAIN rfs' = DOMAIN rfs
      PROVE  Closed(r)'
  <2>1. Inputs(r) = {}
    BY <1>2, <1>3 DEF Inputs
  <2>2. CompilerClosed(r)
    <3>1. CASE Plain
      BY <2>1, <3>1, PlainInputs DEF CompilerClosed
    <3>2. CASE ~Plain
      <4> SUFFICES ASSUME r # "asm", Of(r) # {}
                   PROVE  Object(File(r, <<"Module">>)) \in DOMAIN rfs
        BY <3>2 DEF CompilerClosed
      <4>1. target.unity /\ r \in {"c", "cpp"}
        BY <1>0, <3>2 DEF Plain, CompilerRules
      <4>2. File(r, <<"Module">>) \in UnityFiles
        BY <4>1 DEF UnityFiles, Of
      <4>3. File(r, <<"Module">>).ext = r
        BY DEF File
      <4> QED
        BY <2>1, <4>1, <4>2, <4>3 DEF Inputs
    <3> QED
      BY <3>1, <3>2
  <2>3. Closed(r)
    BY <1>0, <2>2 DEF Closed, CompilerRules, LinkerRules, NativeRules
  <2> QED
    BY <1>0, <1>2, <1>3, <2>3, ClosedStays
<1> QED
  BY <1>0, <1>1, <1>2, <1>3, SettledStep

LEMMA LinkSettles ==
  ASSUME FilesShape, FilesMade, RulesSettled, NEW r, Link(r)
  PROVE  RulesSettled'
<1>0. /\ target \in Targets /\ target' = target /\ order' = order /\ stage' = stage
      /\ stage = "pass" /\ at' = at + 1
      /\ size' = size /\ at <= Len(order) /\ r = order[at] /\ r \in LinkerRules
      /\ Cardinality(Of("def")) <= 1
  BY DEF FilesShape, Link, Turn, NextRule
<1>1. FilesShape' /\ FilesMade'
  BY LinkMakes
<1>2. r \notin CompilerRules /\ r # "rc" /\ r \in NativeRules
  BY <1>0 DEF LinkerRules, CompilerRules, NativeRules
<1>3. CASE Linked \cup Of("def") = {} /\ rfs' = rfs
  <2>1. LinkerClosed'
    BY <1>0, <1>3, SameLinked DEF LinkerClosed
  <2>2. Closed(r)'
    BY <1>0, <1>2, <1>3, <2>1, SameLinked DEF Closed, LinkerRules, CompilerRules, NativeRules
  <2> QED
    BY <1>0, <1>1, <1>3, <2>2, SettledStep
<1>4. CASE \E def \in SUBSET {DefFile} :
             /\ def # {} <=> MakesDef
             /\ DOMAIN rfs' = DOMAIN rfs \cup {Output} \cup def
             /\ rfs'[Output] = Command(Linked \cup Defs \cup def)
  <2>1. PICK def \in SUBSET {DefFile} :
             /\ def # {} <=> MakesDef
             /\ DOMAIN rfs' = DOMAIN rfs \cup {Output} \cup def
             /\ rfs'[Output] = Command(Linked \cup Defs \cup def)
    BY <1>4
  <2>2. ASSUME DOMAIN rfs' = DOMAIN rfs
        PROVE  rfs'[Output].inputs = Linked \cup Defs /\ Closed(r)'
    <3>1. def = {}
      BY <1>0, <2>1, <2>2, OthersAre DEF MakesDef, Of
    <3>2. rfs'[Output].inputs = Linked \cup Defs /\ Output \in DOMAIN rfs
      BY <2>1, <2>2, <3>1 DEF Command
    <3>3. LinkerClosed'
      BY <1>0, <2>2, <3>2, SameLinked, Static DEF LinkerClosed
    <3> QED
      BY <1>0, <1>2, <2>2, <3>2, <3>3, SameLinked
      DEF Closed, LinkerRules, CompilerRules, NativeRules
  <2> QED
    BY <1>0, <1>1, <2>1, <2>2, SettledStep
<1> QED
  BY <1>3, <1>4, LinkEffect

LEMMA OutputsSettle ==
  ASSUME FilesShape, RulesSettled, FilesShape', NEW r, Turn(r), NextRule, NEW from, NEW to,
         AddOutputs(from, to), r \notin CompilerRules \cup LinkerRules,
         OutputsClosed(from, to) => Closed(r)
  PROVE  RulesSettled'
<1>0. /\ target' = target /\ order' = order /\ stage' = stage /\ stage = "pass" /\ at' = at + 1
      /\ size' = size /\ at <= Len(order) /\ r = order[at]
  BY DEF Turn, NextRule
<1>1. /\ DOMAIN rfs' = DOMAIN rfs \cup {From(to, f) : f \in Of(from)}
      /\ \A d \in DOMAIN rfs : rfs'[d] = rfs[d]
  BY OutputsEffect
<1>2. ASSUME DOMAIN rfs' = DOMAIN rfs PROVE Closed(r)'
  <2>1. OutputsClosed(from, to)
    BY <1>1, <1>2 DEF OutputsClosed, Of
  <2> QED
    BY <1>0, <1>1, <1>2, <2>1, ClosedStays
<1> QED
  BY <1>0, <1>1, <1>2, SettledStep
-----------------------------------------------------------------------------
(* Which objects the definition file is made from.                           *)

(* Whose turn has come, as rules have their turns in the order of the names. *)
LEMMA Turns ==
  ASSUME FilesShape, at <= Len(order)
  PROVE  /\ order[at] \in Named(order) /\ ~Applied(order[at])
         /\ order[at] \in LinkerRules =>
              /\ \A r \in CompilerRules : Applied(r)
              /\ ~Applied("rc")
         /\ order[at] \in CompilerRules => ~Applied("link")
         /\ order[at] \notin NativeRules /\ MadeLate => Applied("cpp")
         /\ order[at] = "cpp" /\ ~MadeLate => UserApplied
<1>1. at \in 1..Len(order) /\ Len(order) \in Nat /\ DOMAIN order = 1..Len(order)
  BY OrderIs DEF FilesShape
<1>2. \A i \in 1..at - 1 : i \in 1..Len(order) /\ i < at
  BY <1>1
<1>3. order[at] \in Named(order) /\ ~Applied(order[at])
  BY <1>1, <1>2, OrderIs DEF Applied, Named
<1>4. ASSUME order[at] \in LinkerRules, NEW r \in CompilerRules PROVE Applied(r)
  <2>1. PICK i \in 1..Len(order) : order[i] = r
    BY OrderIs DEF Named
  <2>2. order[at] \in NativeRules \ CompilerRules
    BY <1>4 DEF LinkerRules, NativeRules, CompilerRules
  <2>3. i < at
    BY <1>1, <1>4, <2>1, <2>2, OrderIs
  <2> QED
    BY <1>1, <2>1, <2>3 DEF Applied
<1>5. order[at] \in LinkerRules => ~Applied("rc")
  <2> SUFFICES ASSUME order[at] \in LinkerRules, NEW i \in 1..at - 1, order[i] = "rc"
               PROVE  FALSE
    BY DEF Applied
  <2>1. at < i
    BY <1>1, <1>2, OrderIs
  <2> QED
    BY <1>1, <2>1
<1>6. order[at] \in CompilerRules => ~Applied("link")
  <2> SUFFICES ASSUME order[at] \in CompilerRules, NEW i \in 1..at - 1, order[i] = "link"
               PROVE  FALSE
    BY DEF Applied
  <2>1. order[i] \in NativeRules \ CompilerRules
    BY DEF LinkerRules, NativeRules, CompilerRules
  <2>2. at < i
    BY <1>1, <1>2, <2>1, OrderIs
  <2> QED
    BY <1>1, <2>2
<1>7. PICK i \in 1..Len(order) : order[i] = "cpp"
  BY OrderIs DEF Named, CompilerRules
<1>8. "cpp" \in NativeRules
  BY DEF NativeRules, CompilerRules
<1>9. order[at] \notin NativeRules /\ MadeLate => Applied("cpp")
  BY <1>1, <1>7 DEF MadeLate, Applied
<1>10. order[at] = "cpp" /\ ~MadeLate => UserApplied
  <2> SUFFICES ASSUME order[at] = "cpp", NEW k \in DOMAIN order, NEW j \in DOMAIN order,
                      order[k] = "cpp", order[j] \notin NativeRules, ~(k < j)
               PROVE  UserApplied
    BY DEF MadeLate
  <2>1. k = at
    BY <1>1, OrderIs
  <2>2. j # k
    BY <1>8
  <2>3. j \in 1..at - 1
    BY <1>1, <2>1, <2>2
  <2> QED
    BY <2>3 DEF UserApplied
<1> QED
  BY <1>3, <1>4, <1>5, <1>6, <1>9, <1>10

LEMMA AppliedNext ==
  ASSUME FilesShape, order' = order, at' = at + 1, at <= Len(order)
  PROVE  /\ \A r : Applied(r)' <=> Applied(r) \/ r = order[at]
         /\ UserApplied' <=> UserApplied \/ order[at] \notin NativeRules
<1>1. \A i : i \in 1..at' - 1 <=> i \in 1..at - 1 \/ i = at
  BY OrderIs DEF FilesShape
<1>2. ASSUME NEW r PROVE Applied(r)' <=> Applied(r) \/ r = order[at]
  <2>1. Applied(r)' <=> \E i \in 1..at' - 1 : order[i] = r
    BY DEF Applied
  <2> QED
    BY <1>1, <2>1 DEF Applied
<1>3. UserApplied' <=> \E i \in 1..at' - 1 : order[i] \notin NativeRules
  BY DEF UserApplied, NativeRules, CompilerRules, LinkerRules
<1> QED
  BY <1>1, <1>2, <1>3 DEF UserApplied

(* A rule adds the sources that rules make when it is the user's, resources  *)
(* when it is rc, and the object of a source that is there when it is the    *)
(* compiler for it.                                                          *)
LEMMA ArrivalsStep ==
  ASSUME FilesShape, LateArrivals, target' = target, order' = order, size' = size,
         at' = at + 1, at <= Len(order), NEW new, DOMAIN rfs' = DOMAIN rfs \cup new,
         order[at] \notin NativeRules => Generated(target) \subseteq DOMAIN rfs',
         order[at] \in NativeRules => new \cap Generated(target) = {},
         new \cap ResourceFiles \subseteq DOMAIN rfs \/ order[at] = "rc",
         Plain => \A f \in Generated(target) :
                    Object(f) \in new => order[at] = "cpp" /\ f \in DOMAIN rfs
  PROVE  LateArrivals'
<1> USE Static
<1>0. /\ \A r : Applied(r)' <=> Applied(r) \/ r = order[at]
      /\ UserApplied' <=> UserApplied \/ order[at] \notin NativeRules
      /\ FirstPass' = FirstPass
  BY AppliedNext DEF FirstPass
<1>1. UserApplied' \/ ~FirstPass' => Generated(target)' \subseteq DOMAIN rfs'
  BY <1>0 DEF LateArrivals
<1>2. ASSUME FirstPass', MadeLate', Plain'
      PROVE  /\ ~Applied("cpp")' => Generated(target)' \cap DOMAIN rfs' = {}
             /\ \A f \in Generated(target)' :
                  Object(f)' \in target'.sources \/ Object(f)' \notin DOMAIN rfs'
  <2>1. /\ ~Applied("cpp") => Generated(target) \cap DOMAIN rfs = {}
        /\ \A f \in Generated(target) : Object(f) \in target.sources \/ Object(f) \notin DOMAIN rfs
    BY <1>0, <1>2 DEF LateArrivals
  <2>2. ASSUME ~Applied("cpp")' PROVE Generated(target)' \cap DOMAIN rfs' = {}
    <3>1. ~Applied("cpp")
      BY <1>0, <2>2
    <3>2. order[at] \in NativeRules
      BY <1>2, <3>1, Turns
    <3> QED
      BY <2>1, <3>1, <3>2
  <2>3. ASSUME NEW f \in Generated(target)
        PROVE  Object(f) \in target.sources \/ Object(f) \notin DOMAIN rfs'
    <3>1. CASE Object(f) \in new
      <4>1. order[at] = "cpp" /\ f \in DOMAIN rfs
        BY <1>2, <3>1
      <4>2. ~Applied("cpp")
        BY <4>1, Turns
      <4> QED
        BY <2>1, <4>1, <4>2
    <3>2. CASE Object(f) \notin new
      BY <2>1, <3>2
    <3> QED
      BY <3>1, <3>2
  <2> QED
    BY <2>2, <2>3
<1>3. FirstPass' /\ ~Applied("rc")' => ResourceFiles' \cap DOMAIN rfs' \subseteq target'.sources
  BY <1>0 DEF LateArrivals
<1> QED
  BY <1>1, <1>2, <1>3 DEF LateArrivals

(* A step that adds no object.                                               *)
LEMMA NoObjectStep ==
  ASSUME FilesShape, Exporter, IF DefFile \in DOMAIN rfs THEN Exported ELSE Awaited,
         target' = target, order' = order, size' = size, missed' = missed,
         at' = at + 1, at <= Len(order), order[at] \notin CompilerRules \cup LinkerRules,
         DOMAIN rfs \subseteq DOMAIN rfs',
         \A f \in DOMAIN rfs' \ DOMAIN rfs : f.ext \notin {"obj", "o", "def"},
         DefFile \in DOMAIN rfs => rfs'[DefFile] = rfs[DefFile]
  PROVE  IF DefFile' \in DOMAIN rfs' THEN Exported' ELSE Awaited'
<1> USE Static
<1>0. /\ \A r : Applied(r)' <=> Applied(r) \/ r = order[at]
      /\ FirstPass' = FirstPass /\ DefFile' = DefFile /\ target \in Targets
  BY AppliedNext DEF FirstPass, DefFile, File, FilesShape
<1>1. Of("obj")' = Of("obj")
  BY DEF Of
<1>2. DefFile \in DOMAIN rfs' <=> DefFile \in DOMAIN rfs
  BY <1>0, OthersAre
<1>3. ASSUME DefFile \in DOMAIN rfs PROVE Exported'
  <2>1. Exported /\ rfs'[DefFile'] = rfs[DefFile]
    BY <1>0, <1>3
  <2>2. Seen' = Seen
    BY <2>1 DEF Seen
  <2> QED
    BY <1>1, <2>1, <2>2 DEF Exported
<1>4. ASSUME DefFile \notin DOMAIN rfs PROVE Awaited'
  <2>1. Awaited
    BY <1>4
  <2>2. order[at] # "link" /\ \A f \in Sources(target) : order[at] # f.ext
    BY <1>0, TargetIs DEF LinkerRules
  <2>3. ASSUME NEW f \in Sources(target)
        PROVE  Object(f) \in DOMAIN rfs' <=> Object(f) \in DOMAIN rfs
    <3>1. Object(f).ext \in {"o", "obj"}
      BY <1>0, TargetIs, ObjectIs
    <3> QED
      BY <3>1
  <2>4. ASSUME NEW f \in Sources(target) PROVE Applied(f.ext)' <=> Applied(f.ext)
    <3>1. PICK r : r = f.ext
      OBVIOUS
    <3>2. Applied(f.ext)' <=> \E i \in 1..at' - 1 : order[i] = r
      BY <3>1 DEF Applied
    <3>3. Applied(r)' <=> \E i \in 1..at' - 1 : order[i] = r
      BY DEF Applied
    <3> QED
      BY <1>0, <2>2, <3>1, <3>2, <3>3
  <2>5. missed' # {} => ~Applied("link")' /\ Of("obj")' # {}
    BY <1>0, <1>1, <2>1, <2>2 DEF Awaited
  <2>6. \A f \in missed' :
          f \in Sources(target)' /\ Applied(f.ext)' /\ Object(f)' \notin DOMAIN rfs'
    BY <2>1, <2>3, <2>4 DEF Awaited
  <2>7. \A f \in Sources(target)' : Applied(f.ext)' =>
          \/ Object(f)' \in DOMAIN rfs' \/ f \in missed'
          \/ f \in Generated(target)' /\ MadeLate' /\ FirstPass'
    BY <1>0, <2>1, <2>3, <2>4 DEF Awaited
  <2>8. ~FirstPass' \/ Applied("link")' => ~LinksFirst'
    BY <1>0, <2>1, <2>2 DEF Awaited
  <2> QED
    BY <2>5, <2>6, <2>7, <2>8 DEF Awaited
<1> QED
  BY <1>0, <1>2, <1>3, <1>4

(* Compilers run before the linker, so that a pass that misses a file has    *)
(* something to link all the same.                                           *)
LEMMA CompileAwaits ==
  ASSUME FilesShape, FilesMade, LateArrivals, Awaited, Exporter, NEW r, Compile(r),
         NEW files \in SUBSET Inputs(r), NEW pdb \in SUBSET {Pdb},
         files = {} => Inputs(r) = {},
         DOMAIN rfs' = DOMAIN rfs \cup {Object(f) : f \in files} \cup pdb,
         missed' = missed \cup (Inputs(r) \ files)
  PROVE  Awaited'
<1> USE Static
<1>0. /\ target \in Targets /\ target' = target /\ order' = order /\ at' = at + 1
      /\ at <= Len(order) /\ r = order[at] /\ r \in CompilerRules /\ FirstPass' = FirstPass
  BY DEF FilesShape, Compile, Turn, NextRule, FirstPass
<1>1. /\ \A q : Applied(q)' <=> Applied(q) \/ q = r
      /\ ~Applied(r) /\ ~Applied("link") /\ r # "link"
  BY <1>0, AppliedNext, Turns DEF CompilerRules
<1>2. Inputs(r) = {f \in DOMAIN rfs : f.ext = r /\ Object(f) \notin DOMAIN rfs}
  BY PlainInputs DEF Exporter
<1>3. \A f \in Inputs(r) : f \in Files /\ f \in Sources(target)
  BY <1>0, <1>2, FilesKnown, KnownKinds
<1>4. ASSUME NEW f \in Files, Object(f) \in DOMAIN rfs'
      PROVE  Object(f) \in DOMAIN rfs \/ f \in files
  <2>1. Object(f) # Pdb
    BY <1>0, ObjectIs, OthersAre
  <2>2. \A g \in files : Object(f) = Object(g) => f = g
    BY <1>3, ObjectIs
  <2> QED
    BY <1>4, <2>1, <2>2
<1>5. ASSUME NEW f \in Sources(target) PROVE Applied(f.ext)' <=> Applied(f.ext) \/ f.ext = r
  <2>1. PICK q : q = f.ext
    OBVIOUS
  <2>2. Applied(f.ext)' <=> \E i \in 1..at' - 1 : order[i] = q
    BY <1>0, <2>1 DEF Applied
  <2>3. Applied(q)' <=> \E i \in 1..at' - 1 : order[i] = q
    BY <1>0 DEF Applied
  <2> QED
    BY <1>1, <2>1, <2>2, <2>3
<1>6. missed' # {} => ~Applied("link")' /\ Of("obj")' # {}
  <2>1. ASSUME missed # {} PROVE Of("obj")' # {}
    <3>1. Of("obj") # {}
      BY <2>1 DEF Awaited
    <3> QED
      BY <3>1 DEF Of
  <2>2. ASSUME Inputs(r) \ files # {} PROVE Of("obj")' # {}
    <3>1. PICK f \in files : TRUE
      BY <2>2
    <3>2. Object(f) \in DOMAIN rfs' /\ Object(f).ext = "obj"
      BY <1>3, ObjectIs DEF ObjectExt, Exporter, ExportsSymbols
    <3> QED
      BY <3>2 DEF Of
  <2> QED
    BY <1>1, <2>1, <2>2
<1>7. ASSUME NEW f \in missed'
      PROVE  f \in Sources(target) /\ Applied(f.ext)' /\ Object(f) \notin DOMAIN rfs'
  <2>1. CASE f \in missed
    <3>1. f \in Sources(target) /\ Applied(f.ext) /\ Object(f) \notin DOMAIN rfs
      BY <2>1 DEF Awaited
    <3>2. f.ext # r
      BY <1>1, <3>1
    <3>3. f \notin files
      BY <1>2, <3>2
    <3> QED
      BY <1>0, <1>4, <1>5, <3>1, <3>3, TargetIs
  <2>2. CASE f \in Inputs(r) \ files
    <3>1. f \in Sources(target) /\ f \in Files /\ f.ext = r /\ Object(f) \notin DOMAIN rfs
      BY <1>2, <1>3, <2>2
    <3> QED
      BY <1>4, <1>5, <2>2, <3>1
  <2> QED
    BY <2>1, <2>2
<1>8. ASSUME NEW f \in Sources(target), Applied(f.ext)'
      PROVE  \/ Object(f) \in DOMAIN rfs' \/ f \in missed'
             \/ f \in Generated(target) /\ MadeLate /\ FirstPass
  <2>1. CASE Applied(f.ext)
    BY <2>1 DEF Awaited
  <2>2. CASE f.ext = r /\ f \in DOMAIN rfs
    BY <1>2, <2>2
  <2>3. CASE f.ext = r /\ f \notin DOMAIN rfs
    <3>1. f \in Generated(target) /\ f.ext = "cpp"
      BY <1>0, <2>3, TargetIs DEF Sources, Provided, FilesShape
    <3>2. FirstPass /\ ~UserApplied
      BY <2>3, <3>1 DEF LateArrivals
    <3>3. MadeLate
      BY <1>0, <2>3, <3>1, <3>2, Turns
    <3> QED
      BY <3>1, <3>2, <3>3
  <2> QED
    BY <1>5, <1>8, <2>1, <2>2, <2>3
<1>9. ~FirstPass' \/ Applied("link")' => ~LinksFirst'
  BY <1>0, <1>1 DEF Awaited
<1> QED
  BY <1>0, <1>6, <1>7, <1>8, <1>9 DEF Awaited

LEMMA CompileExports ==
  ASSUME FilesShape, FilesMade, Exporting, NEW r, Compile(r)
  PROVE  Exporting'
<1> USE Static
<1>0. /\ target \in Targets /\ target' = target /\ order' = order /\ at' = at + 1 /\ size' = size
      /\ at <= Len(order) /\ r = order[at] /\ r \in CompilerRules /\ r \in NativeRules
      /\ DefFile' = DefFile
  BY DEF FilesShape, Compile, Turn, NextRule, NativeRules, DefFile, File
<1>1. PICK files \in SUBSET Inputs(r), pdb \in SUBSET {Pdb} :
        /\ files = {} => Inputs(r) = {}
        /\ DOMAIN rfs' = DOMAIN rfs \cup {Object(f) : f \in files} \cup pdb
        /\ \A d \in DOMAIN rfs : rfs'[d] = rfs[d]
        /\ missed' = missed \cup (Inputs(r) \ files)
  BY CompileEffect
<1>2. files \subseteq Files
  BY FilesKnown
<1>3. \A f \in files : Object(f).ext \in {"o", "obj"}
  BY <1>2, ObjectIs
<1>4. LateArrivals'
  <2> DEFINE new == {Object(f) : f \in files} \cup pdb
  <2>1. \A f \in new : f.ext \in {"o", "obj", "pdb"}
    BY <1>0, <1>3, OthersAre
  <2>2. new \cap Generated(target) = {} /\ new \cap ResourceFiles = {}
    BY <1>0, <2>1, TargetIs, OthersAre
  <2>3. ASSUME Plain, NEW f \in Generated(target), Object(f) \in new
        PROVE  order[at] = "cpp" /\ f \in DOMAIN rfs
    <3>1. f \in Files /\ f.ext = "cpp"
      BY <1>0, TargetIs
    <3>2. Object(f).ext # Pdb.ext
      BY <1>0, <3>1, ObjectIs, OthersAre
    <3>3. PICK g \in files : Object(f) = Object(g)
      BY <2>3, <3>2
    <3>4. f \in Inputs(r)
      BY <1>2, <3>1, <3>3, ObjectIs
    <3> QED
      BY <1>0, <2>3, <3>1, <3>4, PlainInputs
  <2>4. DOMAIN rfs' = DOMAIN rfs \cup new
    BY <1>1
  <2> HIDE DEF new
  <2> QED
    BY <1>0, <2>2, <2>3, <2>4, ArrivalsStep DEF Exporting
<1>5. ASSUME Exporter PROVE IF DefFile \in DOMAIN rfs' THEN Exported' ELSE Awaited'
  <2>1. DefFile \in DOMAIN rfs' <=> DefFile \in DOMAIN rfs
    BY <1>0, <1>1, <1>3, OthersAre
  <2>2. CASE DefFile \notin DOMAIN rfs
    BY <1>1, <1>5, <2>1, <2>2, CompileAwaits DEF Exporting
  <2>3. CASE DefFile \in DOMAIN rfs
    <3>1. Exported /\ Seen' = Seen
      BY <1>0, <1>1, <1>5, <2>3 DEF Exporting, Seen
    <3>2. Of("obj") \subseteq Of("obj")'
      BY <1>1 DEF Of
    <3>3. ASSUME NEW f \in Inputs(r) \ files
          PROVE  f \in Sources(target) /\ f \in missed \cup LateSources
      <4>1. f \in DOMAIN rfs /\ f.ext = r /\ Object(f) \notin DOMAIN rfs
        BY <1>5, PlainInputs DEF Exporter
      <4>2. f \in Sources(target)
        BY <1>0, <4>1, KnownKinds
      <4>3. Object(f) \notin Seen /\ Object(f) \notin target.sources
        BY <3>1, <4>1 DEF Exported, Of, FilesShape
      <4> QED
        BY <3>1, <4>2, <4>3 DEF Exported
    <3>4. missed' \cup LateSources = missed \cup LateSources /\ missed' \subseteq Sources(target)
      BY <1>1, <3>1, <3>3 DEF Exported
    <3>5. Exported'
      BY <1>0, <3>1, <3>2, <3>4 DEF Exported
    <3> QED
      BY <2>1, <2>3, <3>5
  <2> QED
    BY <2>2, <2>3
<1> QED
  BY <1>0, <1>4, <1>5 DEF Exporting

(* What the linker finds in the first pass, when the sources come late.      *)
LEMMA FirstLinked ==
  ASSUME FilesShape, FilesMade, LateArrivals, Exporter, FirstPass, MadeLate, ~LinksFirst,
         ~Applied("rc")
  PROVE  Linked = {}
<1>0. target \in Targets /\ IsLinker /\ target.windows
  BY DEF FilesShape, Exporter, ExportsSymbols
<1> SUFFICES ASSUME NEW h \in Linked PROVE FALSE
  OBVIOUS
<1>1. h \in DOMAIN rfs /\ h # ImportLibrary /\ h.ext \in {"obj", "lib", "res", "exp"}
  BY DEF Linked
<1>2. h \notin target.sources
  BY <1>1 DEF LinksFirst, Provided
<1>3. h # Pdb /\ h # DefFile /\ h # Output /\ h \notin Generated(target)
  BY <1>0, <1>1, OthersAre, TargetIs
<1>4. h \notin ResourceFiles
  BY <1>1, <1>2 DEF LateArrivals
<1>5. PICK g : IsObject(h, g)
  BY <1>1, <1>2, <1>3, <1>4 DEF FilesMade, IsMade
<1>6. g \in Sources(target) /\ h = Object(g)
  BY <1>5 DEF IsObject, Exporter
<1>7. g \in Generated(target)
  BY <1>0, <1>6, TargetIs DEF Sources, Provided, LinksFirst
<1> QED
  BY <1>1, <1>2, <1>6, <1>7 DEF LateArrivals, Exporter

(* What there is to link when no definition file is made.                    *)
LEMMA NothingFirst ==
  ASSUME FilesShape, FilesMade, Awaited, Exporter, order[at] = "link", at <= Len(order),
         Linked = {}
  PROVE  missed = {} /\ ~LinksFirst
<1>0. /\ target \in Targets /\ IsLinker /\ target.windows /\ ObjectExt = "obj"
      /\ \A r \in CompilerRules : Applied(r)
  BY Turns DEF FilesShape, Exporter, ExportsSymbols, LinkerRules, ObjectExt
<1>1. \A f \in DOMAIN rfs : f.ext \notin {"obj", "lib", "res", "exp"} \/ f = ImportLibrary
  BY <1>0 DEF Linked
<1>2. \A f \in Sources(target) : Object(f) \notin DOMAIN rfs
  <2>1. \A f \in Sources(target) : Object(f).ext = "obj"
    BY <1>0, ObjectIs, TargetIs
  <2> QED
    BY <1>0, <1>1, <2>1, OthersAre
<1>3. missed = {}
  <2>1. Of("obj") = {}
    BY <1>0, <1>1, OthersAre DEF Of
  <2> QED
    BY <2>1 DEF Awaited
<1>4. ASSUME NEW p \in target.sources, p.ext \in CompilerRules PROVE FALSE
  <2>1. p \in Sources(target) /\ p \notin Generated(target) /\ Applied(p.ext)
    BY <1>0, <1>4, TargetIs DEF Sources, Provided
  <2> QED
    BY <1>2, <1>3, <2>1 DEF Awaited
<1>5. ASSUME NEW p \in target.sources, p.ext \in {"obj", "lib", "res", "exp"} PROVE FALSE
  BY <1>0, <1>1, <1>5, OutputIsNoSource DEF FilesShape
<1> QED
  BY <1>3, <1>4, <1>5 DEF LinksFirst, Provided

LEMMA LinkExports ==
  ASSUME FilesShape, FilesMade, Exporting, NEW r, Link(r)
  PROVE  Exporting'
<1> USE Static
<1>0. /\ target \in Targets /\ target' = target /\ order' = order /\ at' = at + 1 /\ size' = size
      /\ at <= Len(order) /\ r = order[at] /\ r \in LinkerRules /\ r \in NativeRules
      /\ r \notin CompilerRules /\ r # "rc" /\ DefFile' = DefFile /\ FirstPass' = FirstPass
      /\ missed' = missed
  BY LinkEffect
  DEF FilesShape, Link, Turn, NextRule, NativeRules, LinkerRules, CompilerRules, DefFile, File,
      FirstPass
<1>1. \/ Linked \cup Of("def") = {} /\ rfs' = rfs
      \/ /\ Linked \cup Of("def") # {}
         /\ \E def \in SUBSET {DefFile} :
              /\ def # {} <=> MakesDef
              /\ DOMAIN rfs' = DOMAIN rfs \cup {Output} \cup def
              /\ def # {} => rfs'[DefFile] = Command(Of("obj"))
              /\ \A d \in DOMAIN rfs \ {Output} : rfs'[d] = rfs[d]
  BY LinkEffect
<1>2. PICK new \in SUBSET {Output, DefFile} : DOMAIN rfs' = DOMAIN rfs \cup new
  <2>1. CASE rfs' = rfs
    <3>1. DOMAIN rfs' = DOMAIN rfs \cup {} /\ {} \in SUBSET {Output, DefFile}
      BY <2>1
    <3> QED
      BY <3>1
  <2>2. CASE \E def \in SUBSET {DefFile} : DOMAIN rfs' = DOMAIN rfs \cup {Output} \cup def
    <3>1. PICK def \in SUBSET {DefFile} : DOMAIN rfs' = DOMAIN rfs \cup {Output} \cup def
      BY <2>2
    <3>2. DOMAIN rfs' = DOMAIN rfs \cup ({Output} \cup def)
      BY <3>1
    <3> QED
      BY <3>2
  <2> QED
    BY <1>1, <2>1, <2>2
<1>3. \A f \in new : f.ext \in {"lib", "a", "dll", "so", "exe", "def"}
  BY <1>0, OthersAre
<1>4. LateArrivals'
  <2>1. new \cap Generated(target) = {} /\ new \cap ResourceFiles = {}
    BY <1>0, <1>3, TargetIs, OthersAre
  <2>2. \A f \in Generated(target) : Object(f) \notin new
    BY <1>0, <1>3, TargetIs, ObjectIs
  <2> QED
    BY <1>0, <1>2, <2>1, <2>2, ArrivalsStep DEF Exporting
<1>5. ASSUME Exporter PROVE IF DefFile \in DOMAIN rfs' THEN Exported' ELSE Awaited'
  <2>0. /\ r = "link" /\ Output # DefFile /\ IsLinker /\ ObjectExt = "obj"
        /\ \A q \in CompilerRules : Applied(q)
        /\ ~Applied("rc") /\ ~Applied("link")
        /\ \A q : Applied(q)' <=> Applied(q) \/ q = "link"
    <3>1. IsLinker /\ ObjectExt = "obj" /\ Output # DefFile
      BY <1>0, <1>5, OthersAre DEF Exporter, ExportsSymbols, ObjectExt
    <3>2. r \in Named(order)
      BY <1>0, Turns
    <3>3. r # "lib"
      BY <3>1, <3>2, OrderIs DEF HasRule, IsLinker
    <3>4. r = "link"
      BY <1>0, <3>3 DEF LinkerRules
    <3> QED
      BY <1>0, <3>1, <3>4, Turns, AppliedNext
  <2>1. CASE DefFile \in DOMAIN rfs
    <3>1. rfs'[DefFile] = rfs[DefFile] /\ DefFile \in DOMAIN rfs'
      BY <1>1, <1>2, <2>0, <2>1
    <3>2. Exported /\ Seen' = Seen
      BY <1>0, <1>5, <2>1, <3>1 DEF Exporting, Seen
    <3>3. Of("obj") \subseteq Of("obj")'
      BY <1>2 DEF Of
    <3>4. Exported'
      BY <1>0, <3>2, <3>3 DEF Exported
    <3> QED
      BY <3>1, <3>4
  <2>2. CASE DefFile \notin DOMAIN rfs
    <3>0. Awaited /\ LateArrivals
      BY <1>5, <2>2 DEF Exporting
    <3>1. Of("def") = {}
      <4>1. ASSUME NEW f \in DOMAIN rfs, f.ext = "def" PROVE FALSE
        <5>1. f \notin target.sources
          BY <1>5, <4>1 DEF Exporter, Provided
        <5> QED
          BY <1>0, <2>2, <4>1, <5>1, ObjectIs, OthersAre, TargetIs
          DEF FilesMade, IsMade, IsObject
      <4> QED
        BY <4>1 DEF Of
    <3>2. MakesDef
      BY <1>5, <3>1 DEF MakesDef, Exporter
    <3>3. CASE Linked = {}
      <4>1. rfs' = rfs
        BY <1>1, <3>1, <3>3
      <4>2. missed = {} /\ ~LinksFirst
        BY <1>0, <1>5, <2>0, <3>0, <3>3, NothingFirst
      <4>3. ASSUME NEW f \in Sources(target), Applied(f.ext)'
            PROVE  Object(f) \in DOMAIN rfs' \/ (f \in Generated(target) /\ MadeLate /\ FirstPass)
        <5>1. Applied(f.ext)
          BY <1>0, <2>0, TargetIs
        <5> QED
          BY <3>0, <4>1, <4>2, <5>1 DEF Awaited
      <4>4. Awaited'
        BY <1>0, <4>2, <4>3 DEF Awaited
      <4> QED
        BY <2>2, <4>1, <4>4
    <3>4. CASE Linked # {}
      <4>1. /\ DefFile \in DOMAIN rfs' /\ rfs'[DefFile] = Command(Of("obj"))
            /\ DOMAIN rfs \subseteq DOMAIN rfs'
        BY <1>1, <3>2, <3>4
      <4>2. Seen' = Of("obj")
        BY <1>0, <4>1 DEF Seen, Command
      <4>3. Provided(target, {"obj"}) \subseteq Of("obj") /\ Of("obj") \subseteq Of("obj")'
        BY <4>1 DEF Provided, Of, FilesShape
      <4>4. missed \subseteq Sources(target)
        BY <3>0 DEF Awaited
      <4>5. ASSUME NEW f \in Sources(target), Object(f) \notin target.sources
            PROVE  Object(f) \in Of("obj") <=> f \notin missed \cup LateSources
        <5>1. Object(f) \in Of("obj") <=> Object(f) \in DOMAIN rfs
          BY <1>0, <2>0, TargetIs, ObjectIs DEF Of
        <5>2. Applied(f.ext)
          BY <1>0, <2>0, TargetIs
        <5>3. CASE f \in missed
          BY <3>0, <5>1, <5>3 DEF Awaited
        <5>4. CASE f \in LateSources
          <6>1. MadeLate /\ LinksFirst /\ f \in Generated(target)
            BY <5>4 DEF LateSources
          <6>2. FirstPass
            BY <3>0, <6>1 DEF Awaited
          <6>3. Object(f) \notin DOMAIN rfs
            BY <1>5, <3>0, <4>5, <6>1, <6>2 DEF LateArrivals, Exporter
          <6> QED
            BY <5>1, <5>4, <6>3
        <5>5. CASE f \notin missed \cup LateSources
          <6>1. Object(f) \in DOMAIN rfs \/ (f \in Generated(target) /\ MadeLate /\ FirstPass)
            BY <3>0, <5>2, <5>5 DEF Awaited
          <6>2. ~(f \in Generated(target) /\ MadeLate /\ FirstPass)
            BY <1>5, <2>0, <3>0, <3>4, <5>5, FirstLinked DEF LateSources
          <6> QED
            BY <5>1, <5>5, <6>1, <6>2
        <5> QED
          BY <5>3, <5>4, <5>5
      <4>6. Exported'
        BY <1>0, <4>2, <4>3, <4>4, <4>5 DEF Exported
      <4> QED
        BY <4>1, <4>6
    <3> QED
      BY <3>3, <3>4
  <2> QED
    BY <2>1, <2>2
<1> QED
  BY <1>0, <1>4, <1>5 DEF Exporting

LEMMA OutputsExport ==
  ASSUME FilesShape, FilesMade, Exporting, NEW r, Turn(r), NextRule, missed' = missed,
         NEW from, NEW to, AddOutputs(from, to), r \notin CompilerRules \cup LinkerRules,
         \A f \in Of(from) : From(to, f).ext \notin {"obj", "o", "def"},
         r \notin NativeRules => Generated(target) \subseteq DOMAIN rfs',
         \A f \in Of(from) : From(to, f).ext = IF r = "rc" THEN "res" ELSE "cpp",
         r \in NativeRules => r = "rc"
  PROVE  Exporting'
<1> USE Static
<1>0. /\ target \in Targets /\ target' = target /\ order' = order /\ at' = at + 1 /\ size' = size
      /\ at <= Len(order) /\ r = order[at] /\ DefFile' = DefFile
  BY DEF FilesShape, Turn, NextRule, DefFile, File
<1>1. /\ DOMAIN rfs' = DOMAIN rfs \cup {From(to, f) : f \in Of(from)}
      /\ \A d \in DOMAIN rfs : rfs'[d] = rfs[d]
  BY OutputsEffect
<1>2. LateArrivals'
  <2> DEFINE new == {From(to, f) : f \in Of(from)}
  <2>1. \A f \in new : f.ext = IF r = "rc" THEN "res" ELSE "cpp"
    OBVIOUS
  <2>2. r \in NativeRules => new \cap Generated(target) = {}
    BY <1>0, <2>1, TargetIs
  <2>3. new \cap ResourceFiles = {} \/ r = "rc"
    BY <1>0, <2>1, OthersAre
  <2>4. \A f \in Generated(target) : Object(f) \notin new
    BY <1>0, <2>1, TargetIs, ObjectIs
  <2>5. DOMAIN rfs' = DOMAIN rfs \cup new
    BY <1>1
  <2> HIDE DEF new
  <2> QED
    BY <1>0, <2>2, <2>3, <2>4, <2>5, ArrivalsStep DEF Exporting
<1>3. ASSUME Exporter PROVE IF DefFile \in DOMAIN rfs' THEN Exported' ELSE Awaited'
  <2>1. \A f \in DOMAIN rfs' \ DOMAIN rfs : f.ext \notin {"obj", "o", "def"}
    BY <1>1
  <2> QED
    BY <1>0, <1>1, <1>3, <2>1, NoObjectStep DEF Exporting
<1> QED
  BY <1>0, <1>2, <1>3 DEF Exporting

LEMMA ResourcesStep ==
  ASSUME FilesShape, FilesMade, RulesSettled, Exporting, Resources
  PROVE  RulesSettled' /\ Exporting'
<1>1. /\ Turn("rc") /\ NextRule /\ AddOutputs("rc", "res") /\ missed' = missed
      /\ at <= Len(order) /\ order[at] = "rc"
  BY DEF Resources, Turn
<1>2. FilesShape'
  BY ResourcesMake
<1>3. "rc" \notin CompilerRules \cup LinkerRules /\ "rc" \in NativeRules
  BY DEF CompilerRules, LinkerRules, NativeRules
<1>4. OutputsClosed("rc", "res") => Closed("rc")
  BY <1>3 DEF Closed
<1>5. RulesSettled'
  BY <1>1, <1>2, <1>3, <1>4, OutputsSettle
<1>6. \A f \in Of("rc") : From("res", f).ext = "res"
  BY DEF From, File
<1>7. Exporting'
  BY <1>1, <1>3, <1>6, OutputsExport
<1> QED
  BY <1>5, <1>7

LEMMA UserRuleStep ==
  ASSUME FilesShape, FilesMade, RulesSettled, Exporting, NEW r, UserRule(r)
  PROVE  RulesSettled' /\ Exporting'
<1>1. /\ Turn(r) /\ NextRule /\ AddOutputs("proto", "cpp") /\ missed' = missed
      /\ r \notin NativeRules
  BY DEF UserRule
<1>2. FilesShape'
  BY UserRuleMakes
<1>3. r \notin CompilerRules \cup LinkerRules /\ r # "rc"
  BY <1>1 DEF CompilerRules, LinkerRules, NativeRules
<1>4. OutputsClosed("proto", "cpp") => Closed(r)
  BY <1>3 DEF Closed
<1>5. RulesSettled'
  BY <1>1, <1>2, <1>3, <1>4, OutputsSettle
<1>6. \A f \in Of("proto") : From("cpp", f).ext = "cpp"
  BY DEF From, File
<1>7. Generated(target) \subseteq DOMAIN rfs'
  <2>1. Generated(target) \subseteq {From("cpp", f) : f \in Of("proto")}
    BY DEF Generated, Provided, Of, FilesShape
  <2>2. DOMAIN rfs' = DOMAIN rfs \cup {From("cpp", f) : f \in Of("proto")}
    BY <1>1, OutputsEffect
  <2> QED
    BY <2>1, <2>2
<1>8. Exporting'
  BY <1>1, <1>3, <1>6, <1>7, OutputsExport
<1> QED
  BY <1>5, <1>8
-----------------------------------------------------------------------------
(* How it ends.                                                              *)

LEMMA FailureStep ==
  ASSUME FilesShape, FilesMade, GetCommandsFails \/ \E r : TooMany(r)
  PROVE  FailsForCause'
<1>0. target' = target /\ order' = order /\ target \in Targets
  BY DEF GetCommandsFails, TooMany, Fails, FilesShape
<1>1. CASE GetCommandsFails
  <2>1. PICK f \in DOMAIN rfs : ~(rfs[f].deps \subseteq DOMAIN rfs)
    BY <1>1 DEF GetCommandsFails
  <2>2. rfs[f].deps # {}
    BY <2>1
  <2>3. f \notin target.sources
    BY <2>2 DEF FilesShape, No
  <2>4. PICK g \in rfs[f].deps : IsObject(f, g)
    BY <2>2, <2>3 DEF FilesMade, IsMade, No
  <2>5. ~Plain
    BY <2>1, <2>4 DEF IsObject
  <2>6. UnityOf({"c", "cpp"})
    BY <1>0, <2>5, TargetIs DEF Plain, UnityOf, CompilerRules
  <2> QED
    BY <1>0, <2>6, Static DEF FailsForCause, UnityOf
<1>2. CASE \E r : TooMany(r)
  <2>1. Cardinality(Of("pdb")) > 1 \/ Cardinality(Of("def")) > 1
    BY <1>2 DEF TooMany
  <2>2. ASSUME NEW e \in {"pdb", "def"}, NEW one \in Files,
               \A f \in DOMAIN rfs \ target.sources :
                 f.ext = e => f = one /\ Provided(target, {e}) = {},
               Cardinality(Of(e)) > 1
        PROVE  Cardinality(Provided(target, {e})) > 1
    <3>1. CASE Provided(target, {e}) = {}
      <4>1. Of(e) \subseteq {one}
        BY <2>2, <3>1 DEF Of, Provided
      <4>2. IsFiniteSet({one}) /\ Cardinality({one}) = 1
        BY FS_Singleton
      <4>3. Cardinality(Of(e)) <= 1 /\ Cardinality(Of(e)) \in Nat
        BY <4>1, <4>2, FS_Subset, FS_CardinalityType
      <4> QED
        BY <2>2, <4>3
    <3>2. CASE Provided(target, {e}) # {}
      <4>1. Of(e) = Provided(target, {e})
        BY <2>2, <3>2 DEF Of, Provided, FilesShape
      <4> QED
        BY <2>2, <4>1
    <3> QED
      BY <3>1, <3>2
  <2>3. \A f \in DOMAIN rfs \ target.sources :
          /\ f.ext = "pdb" => f = Pdb /\ Provided(target, {"pdb"}) = {}
          /\ f.ext = "def" => f = DefFile /\ Provided(target, {"def"}) = {}
    BY <1>0, ObjectIs, OthersAre, TargetIs DEF FilesMade, IsMade, IsObject
  <2>4. \/ Cardinality(Provided(target, {"pdb"})) > 1
        \/ Cardinality(Provided(target, {"def"})) > 1
    BY <1>0, <2>1, <2>2, <2>3, OthersAre
  <2> QED
    BY <1>0, <2>4, Static DEF FailsForCause, TwoOf
<1> QED
  BY <1>1, <1>2

LEMMA RulesInitially == RulesInit => RulesInv
<1> SUFFICES ASSUME RulesInit PROVE RulesInv
  OBVIOUS
<1>1. /\ target \in Targets /\ order \in OrdersOf(target) /\ DOMAIN rfs = target.sources
      /\ stage = "pass" /\ at = 1 /\ size = Cardinality(target.sources)
      /\ \A f \in target.sources : rfs[f] = No(f)
  BY DEF RulesInit
<1>2. IsFiniteSet(target.sources) /\ Cardinality(target.sources) \in Nat
  BY <1>1, TargetIs, FS_CardinalityType
<1>3. order \in Seq(STRING)
  BY <1>1, RulesAssumption DEF OrdersOf
<1>4. FilesShape
  BY <1>1, <1>2, <1>3 DEF FilesShape
<1>5. FilesMade
  BY <1>1 DEF FilesMade
<1>6. \A r : ~Applied(r)
  BY <1>1 DEF Applied
<1>7. RulesSettled
  BY <1>1, <1>6 DEF RulesSettled
<1>8. Exporting
  <2>1. FirstPass /\ missed = {} /\ ~UserApplied
    BY <1>1 DEF RulesInit, FirstPass, UserApplied
  <2>2. Generated(target) \cap DOMAIN rfs = {}
    BY <1>1, TargetIs
  <2>3. LateArrivals
    BY <1>1, <1>6, <2>1, <2>2 DEF LateArrivals
  <2>4. Exporter => DefFile \notin DOMAIN rfs
    BY <1>1, OthersAre DEF Exporter, Provided
  <2>5. Awaited
    BY <1>6, <2>1 DEF Awaited
  <2> QED
    BY <2>3, <2>4, <2>5 DEF Exporting
<1>9. Collected /\ FailsForCause
  BY <1>1 DEF Collected, FailsForCause
<1> QED
  BY <1>4, <1>5, <1>7, <1>8, <1>9 DEF RulesInv

(* The files stay as they are when a pass ends and when commands are taken.  *)
LEMMA SameFilesStep ==
  ASSUME RulesInv, UNCHANGED <<target, order, rfs, missed>>
  PROVE  /\ FilesMade' /\ (\A r : Closed(r)' <=> Closed(r))
         /\ UNCHANGED <<at, size>> => Exporting'
<1>1. FilesMade'
  <2>1. ASSUME NEW o \in DOMAIN rfs, o \notin target.sources PROVE IsMade(o)'
    BY <2>1, MadeStays DEF RulesInv, FilesMade
  <2> QED
    BY <2>1 DEF FilesMade
<1>2. \A r : Closed(r)' <=> Closed(r)
  BY DEF Closed, CompilerClosed, LinkerClosed, OutputsClosed, Plain, Sources, Generated,
         Provided, Object, ObjectExt, Of, Linked, Defs, IsLinker, ImportLibrary, LibraryExt, Output,
         From, File
<1>3. ASSUME UNCHANGED <<at, size>> PROVE Exporting'
  <2>1. FirstPass' = FirstPass /\ (UserApplied' <=> UserApplied) /\ DefFile' = DefFile
    BY <1>3 DEF FirstPass, UserApplied, DefFile, File
  <2>2. LateArrivals'
    BY <1>3, <2>1, Static DEF RulesInv, Exporting, LateArrivals, Applied
  <2>3. Awaited => Awaited'
    BY <1>3, <2>1, Static DEF Awaited, Applied, Of
  <2>4. Exported => Exported'
    BY <1>3, <2>1, Static DEF Exported, Seen, Of
  <2> QED
    BY <2>1, <2>2, <2>3, <2>4, Static DEF RulesInv, Exporting
<1> QED
  BY <1>1, <1>2, <1>3

(* When a pass that added files ends, every source is there; if there is no  *)
(* definition file yet, no file was missed.                                  *)
LEMMA NewPassStep ==
  ASSUME RulesInv, UNCHANGED <<target, order, rfs, missed>>, at > Len(order), at' = 1,
         size' = Cardinality(DOMAIN rfs), size # Cardinality(DOMAIN rfs)
  PROVE  Exporting'
<1> USE Static DEF RulesInv
<1>0. /\ \A r \in Named(order) : Applied(r)
      /\ UserApplied /\ DefFile' = DefFile
  BY OrderIs DEF FilesShape, Named, Applied, UserApplied, DefFile, File
<1>1. ~FirstPass'
  <2>1. Cardinality(DOMAIN rfs) \in Nat /\ Cardinality(target.sources) \in Nat
    BY FS_Subset, FS_CardinalityType DEF FilesShape
  <2> QED
    BY <2>1 DEF FirstPass, FilesShape
<1>2. Generated(target) \subseteq DOMAIN rfs
  BY <1>0 DEF Exporting, LateArrivals
<1>3. \A r : ~Applied(r)'
  BY DEF Applied
<1>4. LateArrivals'
  BY <1>1, <1>2 DEF LateArrivals
<1>5. Exported => Exported'
  BY DEF Exported, Seen, Of
<1>6. ASSUME Exporter, Awaited PROVE Awaited'
  <2>1. Applied("link")
    BY <1>0, <1>6, OrderIs DEF HasRule, Exporter, ExportsSymbols, IsLinker
  <2>2. missed = {} /\ ~LinksFirst
    BY <1>6, <2>1 DEF Awaited
  <2>3. \A f \in Sources(target)' : ~Applied(f.ext)'
    BY DEF Applied
  <2> QED
    BY <2>2, <2>3 DEF Awaited
<1> QED
  BY <1>0, <1>4, <1>5, <1>6 DEF Exporting

LEMMA RulesStep == RulesInv /\ [RulesNext]_rulesVars => RulesInv'
<1> SUFFICES ASSUME RulesInv, [RulesNext]_rulesVars PROVE RulesInv'
  OBVIOUS
<1> USE DEF RulesInv
<1>0. ASSUME stage' = "pass" PROVE Collected' /\ FailsForCause'
  BY <1>0 DEF Collected, FailsForCause
<1>1. ASSUME NEW r, Compile(r) PROVE RulesInv'
  <2>1. stage' = "pass"
    BY <1>1 DEF Compile, Turn, NextRule
  <2> QED
    BY <1>0, <1>1, <2>1, CompileMakes, CompileSettles, CompileExports
<1>2. ASSUME NEW r, Link(r) PROVE RulesInv'
  <2>1. stage' = "pass"
    BY <1>2 DEF Link, Turn, NextRule
  <2> QED
    BY <1>0, <1>2, <2>1, LinkMakes, LinkSettles, LinkExports
<1>3. ASSUME NEW r, UserRule(r) PROVE RulesInv'
  <2>1. stage' = "pass"
    BY <1>3 DEF UserRule, Turn, NextRule
  <2> QED
    BY <1>0, <1>3, <2>1, UserRuleMakes, UserRuleStep
<1>4. CASE Resources
  <2>1. stage' = "pass"
    BY <1>4 DEF Resources, Turn, NextRule
  <2> QED
    BY <1>0, <1>4, <2>1, ResourcesMake, ResourcesStep
<1>5. CASE GetCommandsFails \/ \E r : TooMany(r)
  <2>1. stage' = "failed" /\ UNCHANGED <<target, order, rfs, at, size, missed>>
    BY <1>5 DEF GetCommandsFails, TooMany, Fails
  <2>2. FilesShape'
    BY <2>1 DEF FilesShape, OrdersOf, HasRule, No
  <2>3. RulesSettled' /\ Collected'
    BY <2>1 DEF RulesSettled, Collected
  <2> QED
    BY <1>5, <2>1, <2>2, <2>3, SameFilesStep, FailureStep
<1>6. CASE EndPass
  <2>1. UNCHANGED <<target, order, rfs, missed>> /\ stage = "pass" /\ at > Len(order)
    BY <1>6 DEF EndPass
  <2>2. CASE size = Cardinality(DOMAIN rfs)
    <3>1. stage' = "collect" /\ UNCHANGED <<at, size>>
      BY <1>6, <2>2 DEF EndPass
    <3>2. FilesShape'
      BY <2>1, <3>1 DEF FilesShape, OrdersOf, HasRule, No
    <3>3. \A r \in Named(order) : Applied(r)
      BY <2>1, OrderIs DEF Named, Applied, FilesShape
    <3>4. \A r \in Named(order) : Closed(r)'
      BY <2>1, <2>2, <3>3, SameFilesStep DEF RulesSettled
    <3>5. RulesSettled'
      BY <2>1, <3>1, <3>4 DEF RulesSettled, Named
    <3> QED
      BY <2>1, <3>1, <3>2, <3>5, SameFilesStep DEF Collected, FailsForCause
  <2>3. CASE size # Cardinality(DOMAIN rfs)
    <3>1. stage' = "pass" /\ size' = Cardinality(DOMAIN rfs) /\ at' = 1
      BY <1>6, <2>1, <2>3 DEF EndPass
    <3>2. Cardinality(DOMAIN rfs) \in Nat /\ Cardinality(target.sources) \in Nat
      BY FS_Subset, FS_CardinalityType DEF FilesShape
    <3>3. FilesShape'
      BY <2>1, <3>1, <3>2, OrderIs DEF FilesShape, OrdersOf, HasRule, No
    <3>4. \A r : ~Applied(r)'
      BY <3>1 DEF Applied
    <3>5. RulesSettled'
      BY <3>1, <3>4 DEF RulesSettled
    <3> QED
      BY <1>0, <2>1, <2>3, <3>1, <3>3, <3>5, SameFilesStep, NewPassStep
  <2> QED
    BY <2>2, <2>3
<1>7. CASE GetCommands
  <2>1. /\ UNCHANGED <<target, order, rfs, at, size, missed>>
        /\ stage = "collect" /\ stage' = "done"
        /\ \A f \in DOMAIN rfs : rfs[f].deps \subseteq DOMAIN rfs
        /\ commands' = [f \in {g \in DOMAIN rfs : rfs[g].made} |->
                         [inputs |-> rfs[f].inputs, before |-> Before(f)]]
    BY <1>7 DEF GetCommands
  <2>2. FilesShape'
    BY <2>1 DEF FilesShape, OrdersOf, HasRule, No
  <2>3. RulesSettled'
    BY <2>1, SameFilesStep DEF RulesSettled, Named
  <2>4. Collected'
    BY <2>1 DEF Collected, Before
  <2> QED
    BY <2>1, <2>2, <2>3, <2>4, SameFilesStep DEF FailsForCause
<1>8. CASE UNCHANGED rulesVars
  <2>1. UNCHANGED <<target, order, rfs, stage, at, size, missed, commands>>
    BY <1>8 DEF rulesVars
  <2>2. FilesShape'
    BY <2>1 DEF FilesShape, OrdersOf, HasRule, No
  <2>3. RulesSettled'
    <3>1. \A r : Applied(r)' <=> Applied(r)
      BY <2>1 DEF Applied
    <3> QED
      BY <2>1, <3>1, SameFilesStep DEF RulesSettled, Named
  <2>4. Collected'
    BY <2>1 DEF Collected, Before
  <2>5. FailsForCause'
    BY <2>1, Static DEF FailsForCause, TwoOf, UnityOf
  <2> QED
    BY <2>1, <2>2, <2>3, <2>4, <2>5, SameFilesStep
<1> QED
  BY <1>1, <1>2, <1>3, <1>4, <1>5, <1>6, <1>7, <1>8
  DEF RulesNext, Apply, Finished

(* Between any two steps of a target every file that is not a source is      *)
(* known by the rule that made it, and the rules that have nothing to add    *)
(* are known when a pass adds nothing (RuleSystem::runRules).                *)
THEOREM RulesInvariant == RulesSpec => []RulesInv
  BY RulesInitially, RulesStep, PTL DEF RulesSpec
-----------------------------------------------------------------------------
(* What holds when the commands are there.                                   *)

LEMMA AllClosed ==
  ASSUME RulesInv, stage = "done"
  PROVE  /\ Sources(target) \subseteq DOMAIN rfs /\ Plain
         /\ \A f \in Sources(target) : Object(f) \in DOMAIN rfs
         /\ ResourceFiles \subseteq DOMAIN rfs
         /\ LinkerClosed
         /\ Cardinality(Of("pdb")) <= 1 /\ Cardinality(Of("def")) <= 1
<1> USE DEF RulesInv
<1>0. target \in Targets
  BY DEF FilesShape
<1>1. \A r \in Named(order) : Closed(r)
  BY DEF RulesSettled
<1>2. Generated(target) \subseteq DOMAIN rfs
  <2>1. PICK i \in 1..Len(order) : order[i] \notin NativeRules
    BY OrderIs
  <2>2. PICK r : r = order[i]
    OBVIOUS
  <2>3. r \in Named(order) /\ r \notin NativeRules
    BY <2>1, <2>2, OrderIs DEF Named
  <2>4. OutputsClosed("proto", "cpp")
    BY <1>1, <2>3 DEF Closed
  <2> QED
    BY <2>4 DEF OutputsClosed, Generated, Provided, FilesShape
<1>3. Sources(target) \subseteq DOMAIN rfs
  BY <1>2 DEF Sources, Provided, FilesShape
<1>4. \A r \in CompilerRules : CompilerClosed(r)
  BY <1>1, OrderIs DEF Closed
<1>5. Plain
  <2> SUFFICES ASSUME ~Plain PROVE FALSE
    OBVIOUS
  <2>1. PICK f \in Sources(target) : f.ext # "asm"
    BY DEF Plain
  <2>2. PICK e \in {"c", "cpp"} : e = f.ext
    BY <1>0, <2>1, TargetIs DEF CompilerRules
  <2> DEFINE u == File(e, <<"Module">>)
  <2>3. /\ u \in Files /\ u.ext = e /\ u \notin Sources(target)
        /\ u \notin target.sources /\ Object(u) \notin target.sources
    BY <1>0, UnityIs
  <2> HIDE DEF u
  <2>4. Object(u) \in DOMAIN rfs
    <3>1. CompilerClosed(e) /\ e # "asm"
      BY <1>4, <2>2 DEF CompilerRules
    <3>2. Of(e) # {}
      BY <1>3, <2>1, <2>2 DEF Of
    <3> QED
      BY <3>1, <3>2 DEF CompilerClosed, u
  <2>5. IsMade(Object(u)) /\ Object(u).ext \in {"o", "obj"}
    BY <2>3, <2>4, ObjectIs DEF FilesMade
  <2>6. PICK g \in rfs[Object(u)].deps : IsObject(Object(u), g)
    BY <1>0, <2>5, OthersAre, TargetIs DEF IsMade
  <2>7. g = u
    BY <2>3, <2>6, ObjectIs DEF IsObject
  <2>8. u \in DOMAIN rfs
    BY <2>4, <2>6, <2>7 DEF Collected
  <2>9. u.ext \in CompilerRules
    BY <2>3 DEF CompilerRules
  <2> QED
    BY <2>3, <2>8, <2>9, KnownKinds
<1>6. ASSUME NEW f \in Sources(target) PROVE Object(f) \in DOMAIN rfs
  <2>1. f.ext \in CompilerRules
    BY <1>0, TargetIs
  <2> QED
    BY <1>3, <1>4, <1>5, <2>1 DEF CompilerClosed
<1>7. ResourceFiles \subseteq DOMAIN rfs
  <2>1. CASE HasRule(target, "rc")
    <3>1. Closed("rc")
      BY <1>1, <2>1, OrderIs
    <3> QED
      BY <2>1, <3>1 DEF Closed, OutputsClosed, ResourceFiles, Provided, FilesShape
  <2>2. CASE ~HasRule(target, "rc")
    BY <2>2 DEF ResourceFiles
  <2> QED
    BY <2>1, <2>2
<1>8. LinkerClosed /\ Cardinality(Of("def")) <= 1
  <2>1. HasRule(target, "lib") \/ HasRule(target, "link")
    BY DEF HasRule
  <2>2. "lib" \in Named(order) \/ "link" \in Named(order)
    BY <2>1, OrderIs
  <2>3. Closed("lib") \/ Closed("link")
    BY <1>1, <2>2
  <2> QED
    BY <2>3 DEF Closed, LinkerRules
<1>9. Cardinality(Of("pdb")) <= 1
  <2>1. "c" \in Named(order) /\ "c" \in CompilerRules
    BY OrderIs DEF CompilerRules
  <2> QED
    BY <1>1, <2>1 DEF Closed
<1> QED
  BY <1>3, <1>5, <1>6, <1>7, <1>8, <1>9

(* What of a target's files was made, and from what.                         *)
LEMMA MadeFiles ==
  ASSUME FilesShape, FilesMade, Plain, NEW o \in DOMAIN rfs \ target.sources
  PROVE  /\ ~rfs[o].made => o = Pdb
         /\ \/ \E f \in Sources(target) :
                 o = Object(f) /\ rfs[o] = [made |-> TRUE, inputs |-> {f}, deps |-> {f}]
            \/ o \in Generated(target) \cup ResourceFiles \cup {Output, DefFile, Pdb}
         /\ o = DefFile => ExportsSymbols /\ Provided(target, {"def"}) = {}
<1>0. target \in Targets
  BY DEF FilesShape
<1>1. CASE \E g \in rfs[o].deps : IsObject(o, g)
  <2>1. PICK g \in rfs[o].deps : IsObject(o, g)
    BY <1>1
  <2>2. o.ext \in {"o", "obj"} /\ g \in Sources(target)
    BY <2>1, ObjectIs DEF IsObject
  <2>3. o # DefFile
    BY <1>0, <2>2, OthersAre
  <2>4. o = Object(g) /\ rfs[o] = [made |-> TRUE, inputs |-> {g}, deps |-> {g}]
    BY <2>1 DEF IsObject
  <2>5. rfs[o].made
    BY <2>4
  <2> QED
    BY <2>2, <2>3, <2>4, <2>5
<1>2. CASE ~\E g \in rfs[o].deps : IsObject(o, g)
  BY <1>0, <1>2, OthersAre, TargetIs DEF FilesMade, IsMade
<1> QED
  BY <1>1, <1>2

LEMMA CommandsAre ==
  ASSUME RulesInv
  PROVE  CommandsOfTarget
<1> SUFFICES ASSUME stage = "done"
             PROVE  /\ DOMAIN commands \ {Output, DefFile} =
                         (Generated(target) \cup Objects \cup ResourceFiles) \ target.sources
                    /\ \A f \in Sources(target) : Object(f) \in target.sources \/
                         commands[Object(f)] =
                           [inputs |-> {f}, before |-> Generated(target) \cap {f}]
  BY DEF CommandsOfTarget
<1> USE DEF RulesInv
<1>0. target \in Targets
  BY DEF FilesShape
<1>1. /\ Sources(target) \subseteq DOMAIN rfs /\ Plain
      /\ \A f \in Sources(target) : Object(f) \in DOMAIN rfs
      /\ ResourceFiles \subseteq DOMAIN rfs
  BY AllClosed
<1>2. commands = [f \in {g \in DOMAIN rfs : rfs[g].made} |->
                    [inputs |-> rfs[f].inputs, before |-> Before(f)]]
  BY DEF Collected
<1>3. DOMAIN commands = {g \in DOMAIN rfs : rfs[g].made}
  BY <1>2
<1>4. \A f \in target.sources : ~rfs[f].made
  BY DEF FilesShape, No
<1>5. ASSUME NEW o \in DOMAIN commands \ {Output, DefFile}
      PROVE  o \in (Generated(target) \cup Objects \cup ResourceFiles) \ target.sources
  <2>1. o \in DOMAIN rfs \ target.sources /\ rfs[o].made
    BY <1>3, <1>4
  <2>2. o # Pdb
    <3>1. ASSUME o = Pdb PROVE FALSE
      <4>1. ~IsObject(o, o) /\ \A g : ~IsObject(o, g)
        BY <1>0, <3>1, ObjectIs, OthersAre DEF IsObject
      <4>2. rfs[o] = No(o)
        BY <1>0, <2>1, <3>1, <4>1, OthersAre, TargetIs DEF FilesMade, IsMade
      <4> QED
        BY <2>1, <4>2 DEF No
    <3> QED
      BY <3>1
  <2> QED
    BY <1>1, <2>1, <2>2, MadeFiles DEF Objects
<1>6. ASSUME NEW o \in (Generated(target) \cup Objects \cup ResourceFiles) \ target.sources
      PROVE  o \in DOMAIN commands \ {Output, DefFile}
  <2>1. o \in DOMAIN rfs
    BY <1>1, <1>6 DEF Objects, Sources
  <2>2. o.ext \in {"cpp", "o", "obj", "res"}
    BY <1>0, TargetIs, OthersAre, ObjectIs DEF Objects
  <2>3. o # Output /\ o # DefFile /\ o # Pdb
    BY <1>0, <2>2, OthersAre
  <2>4. rfs[o].made
    BY <1>1, <2>1, <2>3, MadeFiles
  <2> QED
    BY <1>3, <2>1, <2>3, <2>4
<1>7. ASSUME NEW f \in Sources(target), Object(f) \notin target.sources
      PROVE  commands[Object(f)] = [inputs |-> {f}, before |-> Generated(target) \cap {f}]
  <2> DEFINE o == Object(f)
  <2>1. f \in Files /\ f.ext \in CompilerRules
    BY <1>0, TargetIs
  <2>2. o \in DOMAIN rfs \ target.sources /\ o.ext \in {"o", "obj"}
    BY <1>1, <1>7, <2>1, ObjectIs
  <2>3. o \notin Generated(target) \cup ResourceFiles \cup {Output, DefFile, Pdb}
    BY <1>0, <2>2, OthersAre, TargetIs
  <2>4. PICK g \in Sources(target) :
          o = Object(g) /\ rfs[o] = [made |-> TRUE, inputs |-> {g}, deps |-> {g}]
    BY <1>1, <2>2, <2>3, MadeFiles
  <2>5. g = f
    BY <1>0, <2>1, <2>4, ObjectIs, TargetIs
  <2>6. rfs[f].made <=> f \in Generated(target)
    <3>1. CASE f \in target.sources
      BY <1>0, <1>4, <3>1, TargetIs
    <3>2. CASE f \notin target.sources
      <4>1. f \in Generated(target)
        BY <3>2 DEF Sources, Provided
      <4>2. f # Pdb /\ f \in DOMAIN rfs
        BY <1>0, <1>1, <4>1, TargetIs, OthersAre
      <4> QED
        BY <1>1, <3>2, <4>1, <4>2, MadeFiles
    <3> QED
      BY <3>1, <3>2
  <2>7. Before(o) = Generated(target) \cap {f}
    BY <2>4, <2>5, <2>6 DEF Before
  <2>8. o \in {d \in DOMAIN rfs : rfs[d].made}
    BY <2>2, <2>4
  <2>9. commands[o] = [inputs |-> rfs[o].inputs, before |-> Before(o)]
    BY <1>2, <2>8 DEF Before
  <2>10. rfs[o].inputs = {f}
    BY <2>4, <2>5
  <2> QED
    BY <2>7, <2>9, <2>10
<1> QED
  BY <1>5, <1>6, <1>7

LEMMA LinkedAre ==
  ASSUME RulesInv, target.windows
  PROVE  AllLinked
<1> DEFINE all == Objects \cup ResourceFiles \cup
             Provided(target, {ObjectExt, "lib"} \cup (IF IsLinker THEN {"exp", "res"} ELSE {}))
<1> SUFFICES ASSUME stage = "done", all # {}
             PROVE  Output \in DOMAIN commands /\ commands[Output].inputs = all \cup Defs
  BY DEF AllLinked
<1> USE DEF RulesInv
<1>0. target \in Targets /\ ObjectExt = "obj"
  BY DEF FilesShape, ObjectExt
<1>1. /\ Sources(target) \subseteq DOMAIN rfs /\ Plain
      /\ \A f \in Sources(target) : Object(f) \in DOMAIN rfs
      /\ ResourceFiles \subseteq DOMAIN rfs /\ LinkerClosed
  BY AllClosed
<1>2. Linked = all
  <2>1. ASSUME NEW f \in all PROVE f \in Linked
    <3>1. CASE f \in Objects
      <4>1. f \in DOMAIN rfs /\ f.ext = "obj"
        BY <1>0, <1>1, <3>1, ObjectIs, TargetIs DEF Objects
      <4> QED
        BY <1>0, <4>1, OthersAre DEF Linked
    <3>2. CASE f \in ResourceFiles
      <4>1. f \in DOMAIN rfs /\ f.ext = "res" /\ IsLinker
        BY <1>0, <1>1, <3>2, OthersAre DEF ResourceFiles, HasRule, IsLinker
      <4> QED
        BY <1>0, <4>1, OthersAre DEF Linked
    <3>3. CASE f \in Provided(target,
                 {ObjectExt, "lib"} \cup (IF IsLinker THEN {"exp", "res"} ELSE {}))
      <4>1. f \in DOMAIN rfs /\ f # ImportLibrary
        BY <1>0, <3>3, OutputIsNoSource DEF Provided, FilesShape
      <4>2. f.ext \in {"obj", "lib"} \cup (IF IsLinker THEN {"res", "exp"} ELSE {})
        BY <1>0, <3>3 DEF Provided
      <4> QED
        BY <4>1, <4>2 DEF Linked
    <3> QED
      BY <3>1, <3>2, <3>3
  <2>2. ASSUME NEW f \in Linked PROVE f \in all
    <3>1. /\ f \in DOMAIN rfs /\ f # ImportLibrary
          /\ f.ext \in {"obj", "lib"} \cup (IF IsLinker THEN {"res", "exp"} ELSE {})
      BY <2>2 DEF Linked
    <3>2. CASE f \in target.sources
      BY <1>0, <3>1, <3>2 DEF Provided
    <3>3. CASE f \notin target.sources
      <4>1. f # Output /\ f # DefFile /\ f # Pdb /\ f \notin Generated(target)
        BY <1>0, <3>1, OthersAre, TargetIs
      <4> QED
        BY <1>1, <3>1, <3>3, <4>1, MadeFiles DEF Objects
    <3> QED
      BY <3>2, <3>3
  <2> QED
    BY <2>1, <2>2
<1> HIDE DEF all
<1>3. Output \in DOMAIN rfs /\ rfs[Output].inputs = all \cup Defs
  BY <1>1, <1>2 DEF LinkerClosed
<1>4. Output \notin target.sources /\ Output # Pdb
  BY <1>0, OutputIsNoSource, OthersAre
<1>5. rfs[Output].made
  BY <1>1, <1>3, <1>4, MadeFiles
<1> QED
  BY <1>3, <1>5 DEF Collected

LEMMA ExportsAre ==
  ASSUME RulesInv
  PROVE  NotExported
<1> USE DEF RulesInv
<1> SUFFICES ASSUME stage = "done", DefFile \in DOMAIN commands
             PROVE  /\ commands[DefFile].inputs \subseteq Of("obj")
                    /\ Of("obj") \ commands[DefFile].inputs =
                         {Object(f) : f \in missed \cup LateSources} \ target.sources
  BY DEF NotExported
<1>0. target \in Targets
  BY DEF FilesShape
<1>1. Plain /\ \A f \in Sources(target) : Object(f) \in DOMAIN rfs
  BY AllClosed
<1>2. DefFile \in DOMAIN rfs /\ rfs[DefFile].made /\ commands[DefFile].inputs = Seen
  BY DEF Collected, Seen
<1>3. DefFile \notin target.sources
  BY <1>2 DEF FilesShape, No
<1>4. Exporter /\ Exported
  BY <1>1, <1>2, <1>3, MadeFiles DEF Exporter, Exporting
<1>5. ASSUME NEW o \in Of("obj") \ Seen
      PROVE  o \in {Object(f) : f \in missed \cup LateSources} \ target.sources
  <2>1. o \in DOMAIN rfs /\ o.ext = "obj" /\ o \notin target.sources
    BY <1>4 DEF Of, Exported, Provided
  <2>2. o \notin Generated(target) \cup ResourceFiles \cup {Output, DefFile, Pdb}
    BY <1>0, <2>1, OthersAre, TargetIs
  <2>3. PICK f \in Sources(target) : o = Object(f)
    BY <1>1, <2>1, <2>2, MadeFiles
  <2>4. f \in missed \cup LateSources
    BY <1>4, <1>5, <2>1, <2>3 DEF Exported
  <2> QED
    BY <2>1, <2>3, <2>4
<1>6. ASSUME NEW f \in missed \cup LateSources, Object(f) \notin target.sources
      PROVE  Object(f) \in Of("obj") \ Seen
  <2>1. f \in Sources(target)
    BY <1>4 DEF Exported, LateSources, Sources
  <2>2. Object(f).ext = "obj"
    BY <1>0, <1>4, <2>1, TargetIs, ObjectIs DEF Exporter, ExportsSymbols, ObjectExt
  <2> QED
    BY <1>1, <1>4, <1>6, <2>1, <2>2 DEF Of, Exported
<1>7. Seen \subseteq Of("obj")
  BY <1>4 DEF Exported
<1> QED
  BY <1>2, <1>5, <1>6, <1>7

LEMMA RefusedAre ==
  ASSUME RulesInv
  PROVE  FailsExactly
<1> USE DEF RulesInv
<1> SUFFICES ASSUME stage = "done"
             PROVE  ~TwoOf("pdb") /\ ~TwoOf("def") /\ ~UnityOf({"c", "cpp"})
  BY DEF FailsForCause, FailsExactly
<1>1. Plain /\ Cardinality(Of("pdb")) <= 1 /\ Cardinality(Of("def")) <= 1
  BY AllClosed
<1>2. ASSUME NEW e, Cardinality(Of(e)) <= 1 PROVE ~TwoOf(e)
  <2>1. Provided(target, {e}) \subseteq Of(e) /\ IsFiniteSet(Of(e))
    BY FS_Subset DEF Provided, Of, FilesShape
  <2>2. /\ Cardinality(Provided(target, {e})) <= Cardinality(Of(e))
        /\ Cardinality(Provided(target, {e})) \in Nat /\ Cardinality(Of(e)) \in Nat
    BY <2>1, FS_Subset, FS_CardinalityType
  <2> QED
    BY <1>2, <2>2 DEF TwoOf
<1>3. ~UnityOf({"c", "cpp"})
  BY <1>1 DEF Plain, UnityOf
<1> QED
  BY <1>1, <1>2, <1>3
-----------------------------------------------------------------------------
(* Why the passes end: all the files there can be, of which each pass but    *)
(* the last adds one.                                                        *)
MostFiles ==
  target.sources \cup Generated(target) \cup ResourceFiles \cup {Pdb, Output, DefFile}
    \cup {Object(f) : f \in Sources(target) \cup UnitySources}

LEMMA FilesBounded ==
  ASSUME FilesShape, FilesMade
  PROVE  DOMAIN rfs \subseteq MostFiles /\ IsFiniteSet(MostFiles)
<1>0. target \in Targets
  BY DEF FilesShape
<1>1. ASSUME NEW o \in DOMAIN rfs PROVE o \in MostFiles
  <2>1. CASE o \in target.sources
    BY <2>1 DEF MostFiles
  <2>2. CASE IsMade(o)
    BY <2>2 DEF IsMade, IsObject, MostFiles
  <2> QED
    BY <2>1, <2>2 DEF FilesMade
<1>2. \A es : IsFiniteSet(Provided(target, es))
  BY <1>0, TargetIs, FS_Subset DEF Provided
<1>3. IsFiniteSet(Generated(target))
  BY <1>2, ImageFinite DEF Generated
<1>4. IsFiniteSet(ResourceFiles)
  <2>1. IsFiniteSet({From("res", f) : f \in Provided(target, {"rc"})})
    BY <1>2, ImageFinite
  <2> QED
    BY <2>1, FS_EmptySet DEF ResourceFiles
<1>5. IsFiniteSet({Pdb, Output, DefFile})
  <2>1. {Pdb, Output, DefFile} = ({Pdb} \cup {Output}) \cup {DefFile}
    OBVIOUS
  <2>2. IsFiniteSet({Pdb}) /\ IsFiniteSet({Output}) /\ IsFiniteSet({DefFile})
    BY FS_Singleton
  <2>3. IsFiniteSet({Pdb} \cup {Output})
    BY <2>2, FS_Union
  <2>4. IsFiniteSet(({Pdb} \cup {Output}) \cup {DefFile})
    BY <2>2, <2>3, FS_Union
  <2> QED
    BY <2>1, <2>4
<1>6. IsFiniteSet(Sources(target) \cup UnitySources)
  <2>1. IsFiniteSet(Sources(target))
    BY <1>2, <1>3, FS_Union DEF Sources
  <2>2. IsFiniteSet(UnitySources)
    <3>1. UnitySources = {File("c", <<"Module">>)} \cup {File("cpp", <<"Module">>)}
      BY DEF UnitySources
    <3> QED
      BY <3>1, FS_Singleton, FS_Union
  <2> QED
    BY <2>1, <2>2, FS_Union
<1>7. IsFiniteSet({Object(f) : f \in Sources(target) \cup UnitySources})
  BY <1>6, ImageFinite DEF Object
<1>8. IsFiniteSet(MostFiles)
  <2>1. IsFiniteSet(target.sources)
    BY <1>0, TargetIs
  <2>2. IsFiniteSet(target.sources \cup Generated(target))
    BY <1>3, <2>1, FS_Union
  <2>3. IsFiniteSet(target.sources \cup Generated(target) \cup ResourceFiles)
    BY <1>4, <2>2, FS_Union
  <2>4. IsFiniteSet(target.sources \cup Generated(target) \cup ResourceFiles
                      \cup {Pdb, Output, DefFile})
    BY <1>5, <2>3, FS_Union
  <2> QED
    BY <1>7, <2>4, FS_Union DEF MostFiles
<1> QED
  BY <1>1, <1>8

LEMMA PassGrows ==
  ASSUME RulesInv, RulesNext, at' # at + 1, stage' = "pass"
  PROVE  size < size' /\ size' <= Cardinality(MostFiles)
<1>1. \A r : ~Compile(r) /\ ~Link(r) /\ ~UserRule(r)
  BY DEF Compile, Link, UserRule, NextRule
<1>2. ~Resources /\ ~GetCommands /\ ~GetCommandsFails /\ ~Finished
  BY DEF Resources, NextRule, GetCommands, GetCommandsFails, Fails, Finished, rulesVars
<1>3. \A r : ~TooMany(r)
  BY DEF TooMany, Fails
<1>4. EndPass
  BY <1>1, <1>2, <1>3 DEF RulesNext, Apply
<1>5. size' = Cardinality(DOMAIN rfs) /\ size # Cardinality(DOMAIN rfs)
  BY <1>4 DEF EndPass
<1>6. /\ size \in Nat /\ Cardinality(DOMAIN rfs) \in Nat
      /\ size <= Cardinality(DOMAIN rfs)
  BY FS_CardinalityType DEF RulesInv, FilesShape
<1>7. Cardinality(DOMAIN rfs) <= Cardinality(MostFiles)
  BY FilesBounded, FS_Subset DEF RulesInv
<1> QED
  BY <1>5, <1>6, <1>7
-----------------------------------------------------------------------------
(* The commands a target gets are its own: however the rules are named, in   *)
(* whatever order the files lie in the map and whatever files a pass missed, *)
(* each source is compiled to its object after it is made, each resource is  *)
(* compiled, and no other file is made but the output and its exports        *)
(* (RuleSystem::runRules, RuleFiles::getCommands).                           *)
THEOREM CommandsAreOfTarget == RulesSpec => []CommandsOfTarget
  BY RulesInvariant, CommandsAre, PTL

(* On Windows all that a target has to link is linked, whatever pass made it *)
(* (NativeLinkerRule::addInputs makes the command anew). What the definition *)
(* file leaves out are the objects of the sources that an iteration missed   *)
(* or that a rule made after the compilers had their turn, and no others.    *)
THEOREM LateFilesAreLinked == RulesSpec => []LateFiles
<1>1. RulesInv => LateFiles
  BY LinkedAre, ExportsAre DEF LateFiles
<1> QED
  BY <1>1, RulesInvariant, PTL

(* A target is refused for two program databases, for two definition files   *)
(* and as a unity build of C or C++ sources, and always is: no rule ever     *)
(* gives a file a second command, and of the objects only those of unity     *)
(* builds depend on files that are not there (getDependencies1).             *)
THEOREM FailuresAreExact == RulesSpec => []FailsExactly
<1>1. RulesInv => FailsExactly
  BY RefusedAre
<1> QED
  BY <1>1, RulesInvariant, PTL

(* A pass begins anew only with more files than the pass before it began     *)
(* with, and of those there are finitely many (RuleSystem::runRules compares *)
(* the numbers): there are no more passes than files a target can have.      *)
THEOREM PassesAreBounded ==
  RulesSpec =>
    [][at' # at + 1 /\ stage' = "pass" =>
         size < size' /\ size' <= Cardinality(MostFiles)]_rulesVars
<1>1. RulesInv /\ [RulesNext]_rulesVars =>
        [at' # at + 1 /\ stage' = "pass" =>
           size < size' /\ size' <= Cardinality(MostFiles)]_rulesVars
  BY PassGrows
<1> QED
  BY <1>1, RulesInvariant, PTL DEF RulesSpec
=============================================================================
