------------------------ MODULE CommandRecordsProofs ------------------------
(***************************************************************************)
(* Proofs about CommandRecords for any commands, files, command lines and  *)
(* lengths of time: an incremental build gives what a build from nothing   *)
(* would, whatever was edited, deleted, reconfigured, failed or cut short; *)
(* a second build has nothing to do; and the storage can write what it     *)
(* holds and read what it wrote.                                           *)
(***************************************************************************)
EXTENDS CommandRecords, FiniteSetTheorems, SequenceTheorems, TLAPS

(* A finite set of integers has a greatest element. *)
LEMMA FiniteHasMax ==
  ASSUME NEW S \in SUBSET Int, IsFiniteSet(S), S # {}
  PROVE  Max(S) \in S /\ \A x \in S : x <= Max(S)
<1> DEFINE Above(y) == {x \in S : x > y}
           Aboves == {Above(y) : y \in S}
<1>1. IsWellFoundedOn(StrictSubsetOrdering(S), SUBSET S)
  BY FS_FiniteSubsetsOfFinite, FS_StrictSubsetOrderingWellFounded
<1>2. Aboves \subseteq SUBSET S /\ Aboves # {}
  OBVIOUS
<1>3. \E a \in Aboves : \A b \in Aboves : ~(<<b, a>> \in StrictSubsetOrdering(S))
  <2> HIDE DEF Aboves
  <2> QED
    BY <1>1, <1>2, WFMin
<1>4. PICK m \in S : \A y \in S : <<Above(y), Above(m)>> \notin StrictSubsetOrdering(S)
  BY <1>3
<1>5. \A y \in S : m >= y
  <2> SUFFICES ASSUME NEW y \in S, ~(m >= y) PROVE FALSE
    OBVIOUS
  <2>0. y \in Int /\ m \in Int /\ y > m
    OBVIOUS
  <2>1. ASSUME NEW x \in S, x > y PROVE x > m
    BY <2>0, <2>1
  <2>2. Above(y) \subseteq Above(m)
    BY <2>1
  <2>3. y \in Above(m) /\ y \notin Above(y)
    BY <2>0
  <2>4. <<Above(y), Above(m)>> \in StrictSubsetOrdering(S)
    BY <2>2, <2>3 DEF StrictSubsetOrdering
  <2> QED
    BY <1>4, <2>4
<1>6. Max(S) \in S /\ \A y \in S : Max(S) >= y
  BY <1>5 DEF Max
<1> QED
  BY <1>6
-----------------------------------------------------------------------------
(* Types, with the log and the queue as sequences. *)
Entry == [key : Key, mtime : Time, deps : SUBSET File]
Shape ==
  /\ clock \in Time /\ time \in [File -> Time]
  /\ made \in [Outputs -> Content]
  /\ includes \in Includes /\ variant \in Lines
  /\ dbFiles \subseteq File /\ logFiles \subseteq File
  /\ dbRecords \in [Key -> Record]
  /\ logRecords \in Seq(Entry)
  /\ phase \in {"off", "build", "save_files", "save_commands", "remove_logs"}
  /\ pc \in [Command -> {"waiting", "outdated", "ran", "done", "failed"}]
  /\ mtime \in [Command -> Time] /\ found \in [Command -> SUBSET Header]
  /\ cache \in [File -> Time \cup {Unread}]
  /\ records \in [Key -> Record]
  /\ known \subseteq File /\ blank \subseteq File /\ known \cap blank = {}
  /\ listed \subseteq known
  /\ changed \in BOOLEAN /\ settled \in BOOLEAN /\ torn \in BOOLEAN
  /\ queue \in Seq(Key)
  /\ writer \in {"idle", "files", "close"}
-----------------------------------------------------------------------------
(* What times and contents say of each other.                               *)

(* Sources are always there, and nothing is from the future.                *)
TimesOk ==
  /\ \A f \in File : time[f] <= clock /\ (f \notin Outputs => time[f] # 0)
  /\ \A c \in Command : mtime[c] <= clock

(* What f was when c last ran is what it is, or it is missing, or newer     *)
(* than the output of c.                                                    *)
Untouched(c, f) ==
  made[Output[c]].from[f] = time[f] \/ time[f] = 0 \/ time[f] > time[Output[c]]
SourceNewer(c) == \E f \in Input[c] \ Outputs : time[f] > time[Output[c]]

MadeOk ==
  \A c \in Command : made[Output[c]].variant # 0 =>
    /\ \A f \in Input[c] : Untouched(c, f)
    /\ SourceNewer(c) \/ \A f \in includes[c] : Untouched(c, f)

(* The output of a command is not older than any record of it; when it is   *)
(* as old, it is from the run that was recorded.                            *)
RecordOk(k, m, deps) ==
  LET out == Output[k[1]]
  IN /\ m <= clock /\ deps \subseteq MayInclude[k[1]]
     /\ time[out] # 0 => time[out] >= m
     /\ m # 0 /\ time[out] = m => made[out].variant = k[2]

(* ... and the record has all that the run included, or a source is newer.  *)
DepsOk(k, m, deps) ==
  m # 0 /\ time[Output[k[1]]] = m => SourceNewer(k[1]) \/ includes[k[1]] \subseteq deps

RecordsOk ==
  /\ \A k \in Key : RecordOk(k, dbRecords[k].mtime, dbRecords[k].deps)
  /\ \A k \in Key : RecordOk(k, records[k].mtime, records[k].deps)
  /\ \A i \in DOMAIN logRecords :
       RecordOk(logRecords[i].key, logRecords[i].mtime, logRecords[i].deps)

Whole ==
  ~torn =>
    /\ blank = {} /\ (writer = "idle" => logRecords = <<>> /\ logFiles = {})
    /\ \A k \in Key : /\ dbRecords[k].deps \subseteq dbFiles
                      /\ DepsOk(k, dbRecords[k].mtime, dbRecords[k].deps)
                      /\ DepsOk(k, records[k].mtime, records[k].deps)
-----------------------------------------------------------------------------
(* The storage in memory. *)

Queued(k) == \E i \in DOMAIN queue : queue[i] = k

StorageOk ==
  /\ phase = "off" => Idle
  /\ PathsKnown
  /\ \A k \in Key : /\ records[k].mtime # 0 => records[k].hashed
                    /\ records[k].hashed => records[k].there
                    /\ dbRecords[k].hashed => dbRecords[k].there
  /\ \A i \in DOMAIN queue : /\ records[queue[i]].hashed
                             /\ \E c \in Command : queue[i] = key(c) /\ pc[c] = "done"
  /\ queue = <<>> => writer = "idle"
  /\ phase # "build" => queue = <<>>
  /\ phase \notin {"off", "build"} =>
       changed /\ \A c \in Command : pc[c] \notin {"outdated", "ran"}
  /\ phase # "off" => dbFiles \subseteq listed
  /\ \A k \in Key : records[k].hashed => Implicit(k) \subseteq listed \/ Queued(k)
  /\ writer = "close" => Implicit(Head(queue)) \subseteq listed
  /\ phase \in {"save_commands", "remove_logs"} => listed \subseteq dbFiles
  /\ phase = "remove_logs" => \A k \in Key : dbRecords[k] = Saved(k)

UnchangedOk ==
  phase # "off" /\ ~changed =>
    /\ queue = <<>> /\ known = Paths
    /\ \A k \in Key : records[k] = Loaded(k) \/ records[k].mtime = 0
-----------------------------------------------------------------------------
(* The build. *)

CacheOk ==
  \A f \in File : \/ cache[f] \in {Unread, time[f]}
                  \/ \E d \in Command : f = Output[d] /\ pc[d] \in {"ran", "failed"}

DeclaredOk(c) ==
  LET m == made[Output[c]]
  IN /\ time[Output[c]] # 0 /\ m.variant = variant[c]
     /\ \A f \in Input[c] : m.from[f] = time[f]

Fresh(c) ==
  /\ records[key(c)].there
  /\ \A f \in Compared(c) : time[f] # 0 /\ time[f] <= records[key(c)].mtime

(* What the states of a command say.                                        *)
BuiltOk(c) ==
  /\ pc[c] # "waiting" => \A d \in Needs[c] : pc[d] = "done"
  /\ pc[c] = "ran" =>
       /\ Current(c) /\ found[c] = includes[c] /\ mtime[c] <= time[Output[c]]
       /\ \A f \in Reads(c) : time[f] # 0 /\ time[f] <= time[Output[c]]
  /\ pc[c] = "done" => DeclaredOk(c) /\ Fresh(c) /\ (~torn => Current(c))
BuildOk == \A c \in Command : BuiltOk(c)

LoadsFresh(c) ==
  LET r == Loaded(key(c))
  IN /\ r.there
     /\ \A f \in Input[c] \cup {Output[c]} \cup r.deps : time[f] # 0 /\ time[f] <= r.mtime

SettledOk ==
  settled => \A c \in Command :
    /\ pc[c] \in {"waiting", "done"}
    /\ IF phase = "off" THEN LoadsFresh(c) ELSE Fresh(c)

IInv == /\ Shape /\ TimesOk /\ MadeOk /\ RecordsOk /\ Whole
        /\ StorageOk /\ UnchangedOk /\ CacheOk /\ BuildOk /\ SettledOk
-----------------------------------------------------------------------------
(* The constants. *)
LEMMA Constants ==
  /\ \A c \in Command : /\ Output[c] \in Outputs /\ Output[c] \in File
                        /\ Input[c] \subseteq File /\ MayInclude[c] \subseteq File
                        /\ MayInclude[c] \subseteq Header
  /\ Outputs \subseteq File /\ Header \subseteq File /\ Source \subseteq File
  /\ 0 \in Time /\ 1 \in Time /\ Time \subseteq Nat
  BY CommandsAssumption DEF Outputs, File, Time

(* Whoever reads the output of d waits for d, hence nobody reads his own.   *)
LEMMA ReadersWait ==
  /\ \A c, d \in Command : Output[d] \in Input[c] \cup MayInclude[c] => d \in Needs[c]
  /\ \A c \in Command : Output[c] \notin Input[c] \cup MayInclude[c]
  /\ \A f \in Outputs : \E d \in Command : f = Output[d]
  /\ \A c, d \in Command : Output[c] = Output[d] => c = d
  /\ \A c, d \in Command : d \in Needs[c] => c # d
  BY CommandsAssumption, OrderAssumption DEF Outputs

LEMMA Keys ==
  /\ \A k \in Key : k[1] \in Command
  /\ \A k \in Key : k[2] \in Nat \ {0}
  /\ variant \in Lines =>
       \A c \in Command : key(c) \in Key /\ key(c)[1] = c /\ key(c)[2] = variant[c]
  /\ \A c, d \in Command : key(c) = key(d) => c = d
<1>1. \A k \in Key : k[1] \in Command /\ k[2] \in Variants[k[1]]
  BY DEF Key
<1>2. \A c \in Command : Variants[c] \subseteq Nat \ {0}
  BY CommandsAssumption
<1>3. ASSUME variant \in Lines, NEW c \in Command PROVE key(c) \in Key
  <2>1. variant[c] \in Variants[c] /\ variant[c] \in Variant
    BY <1>3 DEF Lines, Variant
  <2> QED
    BY <2>1 DEF key, Key
<1>4. \A c \in Command : key(c)[1] = c /\ key(c)[2] = variant[c]
  BY DEF key
<1> QED
  BY <1>1, <1>2, <1>3, <1>4
-----------------------------------------------------------------------------
(* What is loaded is of the database and the log, with the paths they list. *)
LEMMA LoadedIs ==
  ASSUME Shape, NEW k \in Key
  PROVE  /\ Loaded(k) \in Record
         /\ Loaded(k).deps \subseteq Paths
         /\ Loaded(k).mtime # 0 => Loaded(k).hashed
         /\ (dbRecords[k].hashed => dbRecords[k].there) =>
              (Loaded(k).hashed => Loaded(k).there)
         /\ \/ Loaded(k).mtime = 0
            \/ dbRecords[k].hashed /\ Loaded(k).mtime = dbRecords[k].mtime
            \/ \E i \in Logged(k) : Loaded(k).mtime = logRecords[i].mtime
         /\ \A f \in Loaded(k).deps :
              f \in dbRecords[k].deps \/ \E i \in Logged(k) : f \in logRecords[i].deps
         /\ logRecords = <<>> => Loaded(k) =
              IF dbRecords[k].hashed
              THEN [dbRecords[k] EXCEPT !.deps = dbRecords[k].deps \cap dbFiles] ELSE Absent
<1> USE DEF Shape
<1> DEFINE deps == (IF dbRecords[k].hashed THEN dbRecords[k].deps \cap dbFiles ELSE {})
                     \cup UNION {logRecords[i].deps \cap (dbFiles \cup logFiles) : i \in Logged(k)}
<1>1. dbRecords[k] \in Record
  OBVIOUS
<1>2. deps \subseteq Paths /\ deps \subseteq File
  BY DEF Paths, Logged
<1>0. \A f \in deps : f \in dbRecords[k].deps \/ \E i \in Logged(k) : f \in logRecords[i].deps
  OBVIOUS
<1>3. CASE Logged(k) # {}
  <2>1. Max(Logged(k)) \in Logged(k)
    <3>1. DOMAIN logRecords = 1..Len(logRecords) /\ Len(logRecords) \in Nat
      OBVIOUS
    <3>2. IsFiniteSet(1..Len(logRecords))
      BY <3>1, FS_Interval
    <3>3. IsFiniteSet(Logged(k)) /\ Logged(k) \in SUBSET Int
      BY <3>1, <3>2, FS_Subset DEF Logged
    <3> QED
      BY <1>3, <3>3, FiniteHasMax
  <2>2. logRecords[Max(Logged(k))].mtime \in Time
    <3>1. Max(Logged(k)) \in DOMAIN logRecords
      BY <2>1 DEF Logged
    <3>2. logRecords[Max(Logged(k))] \in Entry
      BY <3>1
    <3> QED
      BY <3>2 DEF Entry
  <2>3. Loaded(k) = [there |-> TRUE, hashed |-> TRUE,
                     mtime |-> logRecords[Max(Logged(k))].mtime, deps |-> deps]
    BY <1>3 DEF Loaded
  <2>4. logRecords # <<>>
    BY <1>3 DEF Logged
  <2> HIDE DEF deps
  <2> QED
    BY <1>0, <1>2, <2>1, <2>2, <2>3, <2>4 DEF Record
<1>4. CASE Logged(k) = {} /\ dbRecords[k].hashed
  <2>1. Loaded(k) = [dbRecords[k] EXCEPT !.deps = deps] /\ deps = dbRecords[k].deps \cap dbFiles
    BY <1>4 DEF Loaded
  <2>2. /\ Loaded(k) \in Record /\ Loaded(k).deps = deps
        /\ Loaded(k).there = dbRecords[k].there /\ Loaded(k).hashed = dbRecords[k].hashed
        /\ Loaded(k).mtime = dbRecords[k].mtime
    BY <1>1, <1>2, <2>1 DEF Record
  <2> HIDE DEF deps
  <2> QED
    BY <1>0, <1>2, <1>4, <2>1, <2>2
<1>5. CASE Logged(k) = {} /\ ~dbRecords[k].hashed
  <2>1. Loaded(k) = Absent
    BY <1>5 DEF Loaded
  <2> QED
    BY <1>5, <2>1, Constants DEF Record, Absent
<1> QED
  BY <1>3, <1>4, <1>5

(* ... and as true as they are.                                             *)
LEMMA LoadedOk ==
  ASSUME Shape, RecordsOk, NEW k \in Key
  PROVE  RecordOk(k, Loaded(k).mtime, Loaded(k).deps)
<1>1. ASSUME NEW i \in Logged(k)
      PROVE  RecordOk(k, logRecords[i].mtime, logRecords[i].deps)
  BY DEF RecordsOk, Logged
<1>2. RecordOk(k, dbRecords[k].mtime, dbRecords[k].deps)
  BY DEF RecordsOk
<1>3. Loaded(k).deps \subseteq MayInclude[k[1]]
  BY <1>1, <1>2, LoadedIs DEF RecordOk
<1>4. time[Output[k[1]]] \in Nat /\ clock \in Nat
  BY Constants, Keys DEF Shape
<1>5. RecordOk(k, 0, Loaded(k).deps)
  BY <1>3, <1>4 DEF RecordOk
<1> QED
  BY <1>1, <1>2, <1>3, <1>5, LoadedIs DEF RecordOk

(* What is saved of a record is it, with the paths that are known.          *)
LEMMA SavedIs ==
  ASSUME Shape, NEW k \in Key
  PROVE  /\ Saved(k) \in Record
         /\ Saved(k).hashed <=> records[k].hashed
         /\ records[k].hashed =>
              /\ Saved(k).there = records[k].there /\ Saved(k).mtime = records[k].mtime
              /\ Saved(k).deps = Implicit(k)
         /\ ~records[k].hashed => Saved(k).mtime = 0 /\ Saved(k).deps = {}
<1>1. records[k] \in Record /\ Implicit(k) \subseteq File
  BY DEF Shape, Implicit
<1>2. CASE records[k].hashed
  <2>1. Saved(k) = [records[k] EXCEPT !.deps = Implicit(k)]
    BY <1>2 DEF Saved
  <2> QED
    BY <1>1, <1>2, <2>1 DEF Record
<1>3. CASE ~records[k].hashed
  BY <1>3, Constants DEF Saved, Absent, Record
<1> QED
  BY <1>2, <1>3
-----------------------------------------------------------------------------
LEMMA InitInv == Init => IInv
<1> SUFFICES ASSUME Init PROVE IInv
  OBVIOUS
<1> USE Constants DEF Init, Idle
<1>1. Absent \in Record /\ Absent.mtime = 0 /\ Absent.deps = {} /\ ~Absent.hashed
  BY DEF Absent, Record
<1>2. Nothing \in Content /\ Nothing.variant = 0
  BY DEF Nothing, Content
<1>3. Shape
  <2>1. /\ clock \in Time /\ time \in [File -> Time] /\ made \in [Outputs -> Content]
        /\ mtime \in [Command -> Time] /\ cache \in [File -> Time \cup {Unread}]
    BY <1>2
  <2>2. dbRecords \in [Key -> Record] /\ records \in [Key -> Record]
    BY <1>1
  <2>3. logRecords \in Seq(Entry) /\ queue \in Seq(Key)
    OBVIOUS
  <2> QED
    BY <2>1, <2>2, <2>3 DEF Shape
<1>4. TimesOk /\ MadeOk
  BY <1>2 DEF TimesOk, MadeOk, Shape
<1>5. \A k \in Key : RecordOk(k, 0, {}) /\ DepsOk(k, 0, {})
  BY <1>3, Keys DEF RecordOk, DepsOk, Shape
<1>6. RecordsOk /\ Whole
  <2>1. \A k \in Key : dbRecords[k] = Absent /\ records[k] = Absent
    OBVIOUS
  <2>2. logRecords = <<>> /\ DOMAIN logRecords = {} /\ logFiles = {} /\ blank = {}
    OBVIOUS
  <2> QED
    BY <1>1, <1>5, <2>1, <2>2 DEF RecordsOk, Whole
<1>7. StorageOk /\ UnchangedOk
  BY <1>1 DEF StorageOk, UnchangedOk, PathsKnown
<1>8. CacheOk /\ BuildOk /\ SettledOk
  BY DEF CacheOk, BuildOk, BuiltOk, SettledOk
<1> QED
  BY <1>3, <1>4, <1>6, <1>7, <1>8 DEF IInv
-----------------------------------------------------------------------------
(* Before c runs and until it is done, what it reads is looked at as it is. *)
LEMMA ReadsTrue ==
  ASSUME Shape, CacheOk, NEW c \in Command, \A d \in Needs[c] : pc[d] = "done",
         NEW f \in File, \/ f \in Input[c] \cup MayInclude[c]
                         \/ f = Output[c] /\ pc[c] \notin {"ran", "failed"}
  PROVE  ReadTime(f) = time[f]
<1>1. \A d \in Command : f = Output[d] => pc[d] \notin {"ran", "failed"}
  BY ReadersWait
<1> QED
  BY <1>1 DEF CacheOk, ReadTime

(* A command is recorded with the time of its output.                       *)
LEMMA NewTimeIs ==
  ASSUME Shape, CacheOk, BuildOk, NEW c \in Command, pc[c] = "ran"
  PROVE  NewTime(c) = time[Output[c]]
<1> DEFINE S == {mtime[c]} \cup {Refreshed(c)[f] : f \in Input[c] \cup {Output[c]}}
<1>1. \A f \in Input[c] \cup {Output[c]} : f \in File
  BY Constants
<1>2. ASSUME NEW f \in Input[c] PROVE Refreshed(c)[f] = time[f]
  <2>1. \A d \in Needs[c] : pc[d] = "done"
    BY DEF BuildOk, BuiltOk
  <2>2. ReadTime(f) = time[f]
    BY <1>1, <2>1, ReadsTrue
  <2>3. f # Output[c]
    BY ReadersWait
  <2> QED
    BY <1>1, <2>2, <2>3 DEF Refreshed, Cached
<1>3. Refreshed(c)[Output[c]] = time[Output[c]]
  BY <1>1 DEF Refreshed
<1>4. time[Output[c]] \in S /\ \A x \in S : x <= time[Output[c]]
  BY <1>1, <1>2, <1>3, Constants DEF BuildOk, BuiltOk, Shape, Reads
<1>5. S \subseteq Nat
  <2>1. mtime[c] \in Nat /\ \A f \in File : time[f] \in Nat
    BY Constants DEF Shape
  <2> QED
    BY <1>1, <1>2, <1>3, <2>1
<1> HIDE DEF S
<1>6. ASSUME NEW x \in S, \A y \in S : x >= y PROVE x = time[Output[c]]
  <2>1. x \in Nat /\ time[Output[c]] \in Nat /\ x >= time[Output[c]] /\ x <= time[Output[c]]
    BY <1>4, <1>5, <1>6
  <2> QED
    BY <2>1
<1>7. \E x \in S : \A y \in S : x >= y
  BY <1>4, <1>5
<1>8. Max(S) = time[Output[c]]
  BY <1>6, <1>7 DEF Max
<1> QED
  BY <1>8 DEF NewTime, S

(* The ways in which files change.                                          *)
FilesKept == UNCHANGED <<clock, time, made, includes>>
Edited(f) ==
  /\ clock' = clock + 1 /\ clock' \in Time /\ time' = [time EXCEPT ![f] = clock + 1]
  /\ made' = made
  /\ includes' \in Includes /\ \A c \in Command : f \notin Input[c] => includes'[c] = includes[c]
Made(c) == [variant |-> variant[c],
            from |-> [f \in File |-> IF f \in Reads(c) THEN time[f] ELSE 0]]
Written(c, content) ==
  /\ clock' = clock + 1 /\ clock' \in Time /\ time' = [time EXCEPT ![Output[c]] = clock + 1]
  /\ made' = [made EXCEPT ![Output[c]] = content]
  /\ includes' = includes
Deleted(c) ==
  /\ clock' = clock /\ time' = [time EXCEPT ![Output[c]] = 0]
  /\ made' = [made EXCEPT ![Output[c]] = Nothing]
  /\ includes' = includes

LEMMA FilesMove ==
  ASSUME Shape, [Next]_vars
  PROVE  \/ FilesKept
         \/ phase = "off" /\ \E f \in File \ Outputs : Edited(f)
         \/ phase = "off" /\ \E c \in Command : Deleted(c)
         \/ \E c \in Command : pc[c] = "outdated" /\ (Written(c, Made(c)) \/ Written(c, Nothing))
<1>1. ASSUME NEW f \in Source \cup Header, Edit(f)
      PROVE  f \in File \ Outputs /\ Edited(f) /\ phase = "off"
  BY <1>1, Constants, CommandsAssumption DEF Edit, Edited, Shape, Time, File
<1>2. ASSUME NEW c \in Command, Delete(c) PROVE Deleted(c) /\ phase = "off"
  BY <1>2 DEF Delete, Deleted
<1>3. ASSUME NEW c \in Command, NEW content, Write(c, content) PROVE Written(c, content)
  BY <1>3, CommandsAssumption DEF Write, Written, Shape, Time
<1>4. ASSUME NEW c \in Command, Run(c) PROVE Written(c, Made(c)) /\ pc[c] = "outdated"
  BY <1>3, <1>4 DEF Run, Made
<1>5. ASSUME NEW c \in Command, Fail(c), ~FilesKept
      PROVE  Written(c, Nothing) /\ pc[c] = "outdated"
  BY <1>3, <1>5 DEF Fail, FilesKept, user
<1>6. ASSUME NEW c \in Command, \/ Reconfigure(c) \/ CheckNew(c) \/ CheckOutdated(c)
                                \/ CheckUpToDate(c) \/ AfterCommand(c)
      PROVE  FilesKept
  BY <1>6 DEF Reconfigure, CheckNew, CheckOutdated, CheckUpToDate, AfterCommand, FilesKept, user
<1>7. ASSUME \/ Load \/ LogRecord \/ LogFiles \/ CloseLogs
             \/ EndUnchanged \/ BeginSave \/ SaveFiles \/ SaveCommands \/ RemoveLogs
             \/ Die \/ DieSavingFiles \/ DieSavingCommands \/ UNCHANGED vars
      PROVE  FilesKept
  BY <1>7 DEF Load, LogRecord, LogFiles, CloseLogs, EndUnchanged, BeginSave, SaveFiles,
              SaveCommands, RemoveLogs, Die, DieSavingFiles, DieSavingCommands, Crash, vars,
              FilesKept, user
<1> QED
  BY <1>1, <1>2, <1>4, <1>5, <1>6, <1>7 DEF Next
-----------------------------------------------------------------------------
(* Types. *)
LEMMA ShapeStep ==
  ASSUME Shape, CacheOk, BuildOk, StorageOk, [Next]_vars
  PROVE  Shape'
<1> USE Constants DEF disk, user, memory, run, ghosts
<1>0. Absent \in Record /\ Inserted \in Record /\ Nothing \in Content
  BY DEF Absent, Inserted, Record, Nothing, Content
<1>1. ASSUME NEW f \in Source \cup Header, Edit(f) PROVE Shape'
  <2>1. clock' \in Time /\ time' \in [File -> Time]
    BY <1>1, CommandsAssumption DEF Edit, Shape, Time
  <2>2. includes' \in Includes
    BY <1>1 DEF Edit
  <2> QED
    BY <1>1, <2>1, <2>2 DEF Edit, Shape
<1>2. ASSUME NEW c \in Command, Delete(c) \/ Reconfigure(c) PROVE Shape'
  <2>1. CASE Delete(c)
    BY <1>0, <2>1 DEF Delete, Shape
  <2>2. CASE Reconfigure(c)
    <3>1. PICK v \in Variants[c] : variant' = [variant EXCEPT ![c] = v]
      BY <2>2 DEF Reconfigure
    <3>2. variant' \in Lines
      BY <3>1 DEF Lines, Variant, Shape
    <3> QED
      BY <2>2, <3>2 DEF Reconfigure, Shape
  <2> QED
    BY <1>2, <2>1, <2>2
<1>3. ASSUME NEW c \in Command, CheckNew(c) \/ CheckOutdated(c) \/ CheckUpToDate(c)
      PROVE  Shape'
  <2>0. key(c) \in Key /\ records[key(c)] \in Record /\ records[key(c)].mtime \in Time
    BY Keys DEF Shape, Record
  <2>1. CASE CheckNew(c)
    BY <1>0, <2>0, <2>1 DEF CheckNew, Shape
  <2>2. \A S \in SUBSET File : Cached(S) \in [File -> Time \cup {Unread}]
    BY DEF Cached, ReadTime, Shape
  <2>3. Compared(c) \subseteq File
    BY DEF Compared, Implicit, Shape
  <2>4. CASE CheckOutdated(c)
    BY <2>0, <2>2, <2>3, <2>4 DEF CheckOutdated, Shape
  <2>5. CASE CheckUpToDate(c)
    BY <2>0, <2>2, <2>3, <2>5 DEF CheckUpToDate, Shape
  <2> QED
    BY <1>3, <2>1, <2>4, <2>5
<1>4. ASSUME NEW c \in Command, Run(c) \/ Fail(c) PROVE Shape'
  <2>1. \A content \in Content : Write(c, content) =>
          /\ clock' \in Time /\ time' \in [File -> Time] /\ made' \in [Outputs -> Content]
          /\ UNCHANGED <<includes, variant>>
    BY CommandsAssumption DEF Write, Shape, Time
  <2>2. Made(c) \in Content
    <3>1. variant[c] \in Variant
      BY DEF Shape, Lines
    <3> QED
      BY <3>1 DEF Made, Content, Shape
  <2>3. CASE Run(c)
    <3>1. includes[c] \in SUBSET Header
      BY DEF Shape, Includes
    <3>2. Write(c, Made(c))
      BY <2>3 DEF Run, Made
    <3> QED
      BY <2>1, <2>2, <2>3, <3>1, <3>2 DEF Run, Shape
  <2>4. CASE Fail(c)
    BY <1>0, <2>1, <2>4 DEF Fail, Shape
  <2> QED
    BY <1>4, <2>3, <2>4
<1>5. ASSUME NEW c \in Command, AfterCommand(c) PROVE Shape'
  <2>1. NewTime(c) \in Time
    <3>1. pc[c] = "ran"
      BY <1>5 DEF AfterCommand
    <3>2. time[Output[c]] \in Time
      BY DEF Shape
    <3> QED
      BY <3>1, <3>2, NewTimeIs
  <2>2. Refreshed(c) \in [File -> Time \cup {Unread}]
    BY DEF Refreshed, Cached, ReadTime, Shape
  <2>3. found[c] \subseteq File /\ key(c) \in Key
    BY Keys DEF Shape
  <2>4. records' \in [Key -> Record] /\ mtime' \in [Command -> Time]
    BY <1>5, <2>1, <2>3 DEF AfterCommand, Shape, Record
  <2>5. known' \subseteq File /\ known' \cap blank = {} /\ known \subseteq known'
    BY <1>5, <2>3 DEF AfterCommand, Remembered, Shape
  <2>6. queue' \in Seq(Key)
    BY <1>5, <2>3 DEF AfterCommand, Shape
  <2> QED
    BY <1>5, <2>2, <2>4, <2>5, <2>6 DEF AfterCommand, Shape
<1>6. CASE Load
  <2>1. records' \in [Key -> Record] /\ known' = Paths /\ listed' = Paths
    BY <1>6, LoadedIs DEF Load, Paths
  <2>2. Mentioned \subseteq File
    <3>1. \A k \in Key : dbRecords[k].deps \subseteq File
      BY DEF Shape, Record
    <3>2. \A i \in DOMAIN logRecords : logRecords[i].deps \subseteq File
      <4>1. \A i \in DOMAIN logRecords : logRecords[i] \in Entry
        BY DEF Shape
      <4> QED
        BY <4>1 DEF Entry
    <3> QED
      BY <3>1, <3>2 DEF Mentioned
  <2> QED
    BY <1>6, <2>1, <2>2 DEF Load, Shape, Paths
<1>7. CASE LogRecord \/ LogFiles \/ CloseLogs
  <2>1. queue # <<>>
    BY <1>7 DEF LogRecord, LogFiles, CloseLogs, StorageOk
  <2>2. Head(queue) \in Key /\ Tail(queue) \in Seq(Key)
    BY <2>1 DEF Shape
  <2>3. Implicit(Head(queue)) \subseteq known
    BY DEF Implicit
  <2>4. CASE LogRecord
    <3>1. [key |-> Head(queue), mtime |-> records[Head(queue)].mtime,
           deps |-> Implicit(Head(queue))] \in Entry
      BY <2>2, <2>3 DEF Entry, Shape, Record
    <3> QED
      BY <2>4, <3>1 DEF LogRecord, Shape
  <2>5. CASE LogFiles
    BY <2>3, <2>5 DEF LogFiles, ListedToo, Shape
  <2>6. CASE CloseLogs
    BY <2>2, <2>6 DEF CloseLogs, Shape
  <2> QED
    BY <1>7, <2>4, <2>5, <2>6
<1>8. ASSUME Forget PROVE /\ pc' \in [Command -> {"waiting", "outdated", "ran", "done", "failed"}]
                          /\ mtime' \in [Command -> Time] /\ found' \in [Command -> SUBSET Header]
                          /\ cache' \in [File -> Time \cup {Unread}]
                          /\ records' \in [Key -> Record]
                          /\ known' = {} /\ blank' = {} /\ listed' = {} /\ changed' = FALSE
                          /\ queue' \in Seq(Key) /\ writer' = "idle"
  BY <1>0, <1>8 DEF Forget
<1>9. AllDone \in BOOLEAN
  BY DEF AllDone
<1>10. CASE EndUnchanged \/ RemoveLogs \/ Die \/ DieSavingFiles
  <2>1. CASE EndUnchanged
    BY <1>8, <1>9, <2>1 DEF EndUnchanged, Shape
  <2>2. CASE RemoveLogs
    BY <1>8, <1>9, <2>2 DEF RemoveLogs, Shape
  <2>3. CASE Die
    <3>1. torn' \in BOOLEAN
      BY <2>3 DEF Die
    <3> QED
      BY <1>8, <2>3, <3>1 DEF Die, Crash, Shape
  <2>4. CASE DieSavingFiles
    <3>1. dbFiles' \subseteq File
      BY <2>4 DEF DieSavingFiles, Shape
    <3> QED
      BY <1>8, <2>4, <3>1 DEF DieSavingFiles, Crash, Shape
  <2> QED
    BY <1>10, <2>1, <2>2, <2>3, <2>4
<1>11. CASE SaveCommands
  BY <1>11, SavedIs DEF SaveCommands, Shape
<1>12. CASE DieSavingCommands
  <2>1. dbRecords' \in [Key -> Record]
    BY <1>0, <1>12, SavedIs DEF DieSavingCommands
  <2> QED
    BY <1>8, <1>12, <2>1 DEF DieSavingCommands, Crash, Shape
<1>13. CASE BeginSave \/ SaveFiles
  BY <1>13 DEF BeginSave, SaveFiles, Shape
<1>14. CASE UNCHANGED vars
  BY <1>14 DEF vars, Shape
<1> QED
  BY <1>1, <1>2, <1>3, <1>4, <1>5, <1>6, <1>7, <1>10, <1>11, <1>12, <1>13, <1>14 DEF Next
-----------------------------------------------------------------------------
(* Times and contents. *)
LEMMA Numbers ==
  Shape => /\ clock \in Nat /\ \A f \in File : time[f] \in Nat
           /\ \A c \in Command : mtime[c] \in Nat
           /\ \A k \in Key : records[k].mtime \in Nat
<1> SUFFICES ASSUME Shape PROVE /\ clock \in Nat /\ \A f \in File : time[f] \in Nat
                                /\ \A c \in Command : mtime[c] \in Nat
                                /\ \A k \in Key : records[k].mtime \in Nat
  OBVIOUS
<1>1. \A k \in Key : records[k] \in Record
  BY DEF Shape
<1> QED
  BY <1>1, Constants DEF Shape, Record

(* How times change. *)
LEMMA NewTimes ==
  ASSUME Shape, NEW g \in File, NEW t, time' = [time EXCEPT ![g] = t]
  PROVE  \A f \in File : time'[f] = IF f = g THEN t ELSE time[f]
  BY DEF Shape

LEMMA TimesStep ==
  ASSUME Shape, Shape', TimesOk, RecordsOk, CacheOk, BuildOk, [Next]_vars
  PROVE  TimesOk'
<1> USE Constants
<1> DEFINE Times == /\ \A f \in File : time'[f] <= clock' /\ (f \notin Outputs => time'[f] # 0)
                    /\ clock <= clock'
           From(c) == mtime'[c] \in {mtime[c], 0, records[key(c)].mtime, time[Output[c]]}
<1>1. Times
  <2>1. CASE FilesKept
    BY <2>1 DEF FilesKept, TimesOk, Shape
  <2>2. ASSUME NEW f \in File \ Outputs, Edited(f) PROVE Times
    <3>1. \A h \in File : time'[h] = IF h = f THEN clock + 1 ELSE time[h]
      BY <2>2 DEF Edited, Shape
    <3> QED
      BY <2>2, <3>1, Numbers DEF Edited, TimesOk
  <2>3. ASSUME NEW c \in Command, Deleted(c) PROVE Times
    BY <2>3 DEF Deleted, TimesOk, Shape
  <2>4. ASSUME NEW c \in Command, NEW content, Written(c, content) PROVE Times
    <3>1. \A h \in File : time'[h] = IF h = Output[c] THEN clock + 1 ELSE time[h]
      BY <2>4, NewTimes DEF Written
    <3> QED
      BY <2>4, <3>1, Numbers DEF Written, TimesOk
  <2> HIDE DEF Times
  <2> QED
    BY <2>1, <2>2, <2>3, <2>4, FilesMove
<1>2. \A c \in Command : From(c)
  <2>1. ASSUME NEW d \in Command, CheckOutdated(d) \/ CheckUpToDate(d), NEW c \in Command
        PROVE  From(c)
    BY <2>1 DEF CheckOutdated, CheckUpToDate, Shape
  <2>2. ASSUME NEW d \in Command, AfterCommand(d), NEW c \in Command PROVE From(c)
    <3>1. NewTime(d) = time[Output[d]]
      BY <2>2, NewTimeIs DEF AfterCommand
    <3> QED
      BY <2>2, <3>1 DEF AfterCommand, Shape
  <2>3. ASSUME Forget, NEW c \in Command PROVE From(c)
    BY <2>3 DEF Forget
  <2>4. ASSUME mtime' = mtime, NEW c \in Command PROVE From(c)
    BY <2>4
  <2> HIDE DEF From
  <2> QED
    BY <2>1, <2>2, <2>3, <2>4 DEF Next, vars, run, Edit, Delete, Reconfigure, CheckNew, Run,
       Fail, Load, LogRecord, LogFiles, CloseLogs, EndUnchanged, BeginSave, SaveFiles,
       SaveCommands, RemoveLogs, Die, DieSavingFiles, DieSavingCommands, Crash
<1>3. ASSUME NEW c \in Command PROVE mtime'[c] <= clock'
  <2>1. records[key(c)].mtime <= clock
    BY Keys DEF RecordsOk, RecordOk, Shape
  <2>2. mtime[c] <= clock /\ time[Output[c]] <= clock
    BY DEF TimesOk
  <2>3. mtime'[c] <= clock
    BY <1>2, <2>1, <2>2, Numbers
  <2>4. clock \in Nat /\ clock' \in Nat /\ mtime'[c] \in Nat /\ clock <= clock'
    BY <1>1 DEF Shape
  <2> HIDE DEF Times, From
  <2> QED
    BY <2>3, <2>4
<1> QED
  BY <1>1, <1>3 DEF TimesOk

LEMMA MadeStep ==
  ASSUME Shape, Shape', TimesOk, MadeOk, [Next]_vars
  PROVE  MadeOk'
<1> USE Constants
<1>0. \A c \in Command : includes[c] \subseteq MayInclude[c] /\ includes[c] \subseteq File
  BY DEF Shape, Includes
<1> DEFINE Mine(c) == made'[Output[c]].variant # 0 =>
             /\ \A f \in Input[c] : Untouched(c, f)'
             /\ SourceNewer(c)' \/ \A f \in includes'[c] : Untouched(c, f)'
<1>1. CASE FilesKept
  BY <1>1 DEF FilesKept, MadeOk, Untouched, SourceNewer
<1>2. ASSUME NEW g \in File \ Outputs, Edited(g), NEW c \in Command PROVE Mine(c)
  <2>0. \A h \in File : time'[h] = IF h = g THEN clock + 1 ELSE time[h]
    BY <1>2 DEF Edited, Shape
  <2>1. /\ time'[Output[c]] = time[Output[c]] /\ made' = made
        /\ time'[g] > time'[Output[c]] /\ \A f \in File \ {g} : time'[f] = time[f]
    BY <1>2, <2>0, Numbers DEF Edited, TimesOk
  <2>2. \A f \in File : Untouched(c, f) => Untouched(c, f)'
    BY <2>1 DEF Untouched
  <2>3. SourceNewer(c) => SourceNewer(c)'
    BY <2>1 DEF SourceNewer
  <2>4. CASE g \in Input[c]
    <3>1. SourceNewer(c)'
      BY <2>1, <2>4 DEF SourceNewer
    <3> QED
      BY <2>1, <2>2, <3>1 DEF MadeOk
  <2>5. CASE g \notin Input[c]
    <3>1. includes'[c] = includes[c]
      BY <1>2, <2>5 DEF Edited
    <3> QED
      BY <1>0, <2>1, <2>2, <2>3, <3>1 DEF MadeOk
  <2> QED
    BY <2>4, <2>5
<1>3. ASSUME NEW d \in Command, NEW content, NEW t \in Time,
             time' = [time EXCEPT ![Output[d]] = t], made' = [made EXCEPT ![Output[d]] = content],
             includes' = includes, t = 0 \/ \A f \in File : t > time[f],
             NEW c \in Command, c # d
      PROVE  Mine(c)
  <2>1. Output[c] # Output[d]
    BY <1>3, ReadersWait
  <2>2. /\ time'[Output[c]] = time[Output[c]] /\ made'[Output[c]] = made[Output[c]]
        /\ \A f \in File \ {Output[d]} : time'[f] = time[f]
        /\ time'[Output[d]] = 0 \/ time'[Output[d]] > time'[Output[c]]
    BY <1>3, <2>1 DEF Shape
  <2>3. \A f \in File : Untouched(c, f) => Untouched(c, f)'
    BY <2>2 DEF Untouched
  <2>4. SourceNewer(c) => SourceNewer(c)'
    BY <2>2 DEF SourceNewer
  <2> QED
    BY <1>0, <1>3, <2>2, <2>3, <2>4 DEF MadeOk
<1>4. ASSUME NEW d \in Command, made'[Output[d]] = Nothing PROVE Mine(d)
  BY <1>4 DEF Nothing
<1>5. ASSUME NEW d \in Command, Deleted(d), NEW c \in Command PROVE Mine(c)
  <2>1. made'[Output[d]] = Nothing
    BY <1>5 DEF Deleted, Shape
  <2> HIDE DEF Mine
  <2> QED
    BY <1>3, <1>4, <1>5, <2>1 DEF Deleted
<1>6. ASSUME NEW d \in Command, Written(d, Made(d)) PROVE Mine(d)
  <2>1. \A f \in File : f # Output[d] => time'[f] = time[f]
    BY <1>6 DEF Written, Shape
  <2>2. \A f \in Reads(d) : f \in File /\ f # Output[d]
    BY <1>0, ReadersWait DEF Reads
  <2>3. \A f \in Reads(d) : made'[Output[d]].from[f] = time[f]
    BY <1>6, <2>2 DEF Written, Made, Shape
  <2>4. \A f \in Reads(d) : Untouched(d, f)'
    BY <2>1, <2>2, <2>3 DEF Untouched
  <2> QED
    BY <1>6, <2>4 DEF Reads, Written
<1>7. ASSUME NEW d \in Command, NEW content, Written(d, content),
             content \in {Made(d), Nothing}, NEW c \in Command
      PROVE  Mine(c)
  <2>1. content = Nothing => made'[Output[d]] = Nothing
    BY <1>7 DEF Written, Shape
  <2>2. clock' \in Time /\ \A f \in File : clock' > time[f]
    BY <1>7, Numbers DEF Written, TimesOk
  <2>3. /\ time' = [time EXCEPT ![Output[d]] = clock'] /\ includes' = includes
        /\ made' = [made EXCEPT ![Output[d]] = content]
    BY <1>7 DEF Written
  <2> HIDE DEF Mine
  <2> QED
    BY <1>3, <1>4, <1>6, <1>7, <2>1, <2>2, <2>3
<1>8. FilesKept \/ \A c \in Command : Mine(c)
  <2> HIDE DEF Mine
  <2> QED
    BY <1>2, <1>5, <1>7, FilesMove
<1> QED
  BY <1>1, <1>8 DEF MadeOk

(* What a record says, of the files after a step.                           *)
RecordOkThen(k, m, deps) ==
  LET out == Output[k[1]]
  IN /\ m <= clock' /\ deps \subseteq MayInclude[k[1]]
     /\ time'[out] # 0 => time'[out] >= m
     /\ m # 0 /\ time'[out] = m => made'[out].variant = k[2]
DepsOkThen(k, m, deps) ==
  m # 0 /\ time'[Output[k[1]]] = m => SourceNewer(k[1])' \/ includes'[k[1]] \subseteq deps

(* It stays true, whatever happens to files.                                *)
LEMMA RecordKept ==
  ASSUME Shape, Shape', TimesOk, [Next]_vars, NEW k \in Key, NEW m \in Time, NEW deps,
         RecordOk(k, m, deps)
  PROVE  /\ RecordOkThen(k, m, deps)
         /\ DepsOk(k, m, deps) => DepsOkThen(k, m, deps)
<1> USE Constants
<1> DEFINE out == Output[k[1]]
<1>0. k[1] \in Command /\ out \in File /\ out \in Outputs
  BY Keys
<1> DEFINE Kept == /\ RecordOkThen(k, m, deps)
                   /\ DepsOk(k, m, deps) => DepsOkThen(k, m, deps)
<1>1. CASE FilesKept
  BY <1>1 DEF FilesKept, RecordOk, RecordOkThen, DepsOk, DepsOkThen, SourceNewer
<1>2. ASSUME NEW g \in File \ Outputs, Edited(g) PROVE Kept
  <2>0. \A h \in File : time'[h] = IF h = g THEN clock + 1 ELSE time[h]
    BY <1>2 DEF Edited, Shape
  <2>1. /\ time'[out] = time[out] /\ made' = made /\ clock' >= clock /\ clock' \in Nat
        /\ time'[g] > time'[out] /\ \A f \in File \ {g} : time'[f] = time[f]
    BY <1>0, <1>2, <2>0, Numbers DEF Edited, TimesOk
  <2>2. RecordOkThen(k, m, deps)
    BY <1>0, <2>1 DEF RecordOk, RecordOkThen, Shape
  <2>3. SourceNewer(k[1]) => SourceNewer(k[1])'
    BY <1>0, <2>1 DEF SourceNewer
  <2>4. g \in Input[k[1]] => SourceNewer(k[1])'
    BY <1>0, <2>1 DEF SourceNewer
  <2>5. g \notin Input[k[1]] => includes'[k[1]] = includes[k[1]]
    BY <1>0, <1>2 DEF Edited
  <2> QED
    BY <2>1, <2>2, <2>3, <2>4, <2>5 DEF DepsOk, DepsOkThen
<1>3. ASSUME NEW d \in Command, NEW content, NEW t \in Time,
             time' = [time EXCEPT ![Output[d]] = t], made' = [made EXCEPT ![Output[d]] = content],
             includes' = includes, clock <= clock', t = 0 \/ t > clock
      PROVE  Kept
  <2>1. CASE k[1] = d
    <3>1. time'[out] = t
      BY <1>0, <1>3, <2>1 DEF Shape
    <3>2. m <= clock
      BY DEF RecordOk, RecordOkThen
    <3>3. clock \in Nat /\ clock' \in Nat
      BY DEF Shape
    <3>4. t # 0 => t >= m
      BY <1>3, <3>2, <3>3
    <3>5. m # 0 => t # m
      BY <1>3, <3>2, <3>3
    <3>6. m <= clock'
      BY <1>3, <3>2, <3>3
    <3> QED
      BY <3>1, <3>4, <3>5, <3>6 DEF RecordOk, RecordOkThen, DepsOk, DepsOkThen
  <2>2. CASE k[1] # d
    <3>1. out # Output[d]
      BY <1>0, <2>2, ReadersWait
    <3>2. /\ time'[out] = time[out] /\ made'[out] = made[out]
          /\ \A f \in File \ Outputs : time'[f] = time[f]
      BY <1>0, <1>3, <3>1 DEF Shape
    <3>3. SourceNewer(k[1]) => SourceNewer(k[1])'
      BY <1>0, <3>2 DEF SourceNewer
    <3>4. m <= clock'
      BY <1>3 DEF RecordOk, RecordOkThen, Shape
    <3> QED
      BY <1>3, <3>2, <3>3, <3>4 DEF RecordOk, RecordOkThen, DepsOk, DepsOkThen
  <2> QED
    BY <2>1, <2>2
<1>4. ASSUME NEW d \in Command, Deleted(d) PROVE Kept
  <2>1. clock <= clock'
    BY <1>4 DEF Deleted, Shape
  <2> HIDE DEF Kept
  <2> QED
    BY <1>3, <1>4, <2>1 DEF Deleted
<1>5. ASSUME NEW d \in Command, NEW content, Written(d, content) PROVE Kept
  <2>1. clock <= clock' /\ clock' > clock /\ clock' \in Time
    BY <1>5 DEF Written, Shape
  <2>2. /\ time' = [time EXCEPT ![Output[d]] = clock'] /\ includes' = includes
        /\ made' = [made EXCEPT ![Output[d]] = content]
    BY <1>5 DEF Written
  <2> HIDE DEF Kept
  <2> QED
    BY <1>3, <2>1, <2>2
<1>6. Kept
  <2> HIDE DEF Kept
  <2>1. CASE FilesKept
    BY <1>1, <2>1 DEF Kept
  <2> QED
    BY <1>2, <1>4, <1>5, <2>1, FilesMove
<1> QED
  BY <1>6
-----------------------------------------------------------------------------
(* Records, in memory, in the database and in the log. *)
Ended(c) == [there |-> TRUE, hashed |-> TRUE, mtime |-> time[Output[c]], deps |-> found[c]]

(* The ways in which a record changes.                                      *)
LEMMA RecordMoves ==
  ASSUME Shape, CacheOk, BuildOk, [Next]_vars, NEW k \in Key
  PROVE  /\ \/ dbRecords'[k] \in {dbRecords[k], Absent}
            \/ phase = "save_commands" /\ dbRecords'[k] = Saved(k)
         /\ \/ records'[k] \in {records[k], Absent, Inserted}
            \/ phase = "off" /\ records'[k] = Loaded(k)
            \/ \E c \in Command : AfterCommand(c) /\ k = key(c) /\ records'[k] = Ended(c)
<1> DEFINE Disk == \/ dbRecords'[k] \in {dbRecords[k], Absent}
                   \/ phase = "save_commands" /\ dbRecords'[k] = Saved(k)
           Memory == \/ records'[k] \in {records[k], Absent, Inserted}
                     \/ phase = "off" /\ records'[k] = Loaded(k)
                     \/ \E c \in Command : AfterCommand(c) /\ k = key(c) /\ records'[k] = Ended(c)
<1> USE DEF disk, memory
<1>1. CASE UNCHANGED <<disk, memory>>
  BY <1>1
<1>3. ASSUME NEW c \in Command, CheckNew(c) PROVE Disk /\ Memory
  BY <1>3 DEF CheckNew, Shape
<1>4. ASSUME NEW c \in Command, AfterCommand(c) PROVE Disk /\ Memory
  <2>1. NewTime(c) = time[Output[c]]
    BY <1>4, NewTimeIs DEF AfterCommand
  <2>2. records'[k] = records[k] \/ (k = key(c) /\ records'[k] = Ended(c))
    <3>1. records' = [records EXCEPT ![key(c)] = Ended(c)]
      BY <1>4, <2>1 DEF AfterCommand, Ended
    <3>2. records'[k] = IF k = key(c) THEN Ended(c) ELSE records[k]
      BY <3>1 DEF Shape
    <3> QED
      BY <3>2
  <2> QED
    BY <1>4, <2>2 DEF AfterCommand
<1>5. ASSUME Forget PROVE Memory
  BY <1>5 DEF Forget
<1>6. CASE Load
  BY <1>6 DEF Load
<1>7. CASE LogRecord \/ LogFiles \/ CloseLogs
  BY <1>7 DEF LogRecord, LogFiles, CloseLogs
<1>8. CASE SaveFiles \/ SaveCommands
  BY <1>8 DEF SaveFiles, SaveCommands
<1>9. CASE EndUnchanged \/ RemoveLogs \/ Die \/ DieSavingFiles
  <2>1. Forget /\ dbRecords'[k] = dbRecords[k]
    BY <1>9 DEF EndUnchanged, RemoveLogs, Die, DieSavingFiles, Crash
  <2> QED
    BY <1>5, <2>1
<1>10. CASE DieSavingCommands
  <2>1. Forget /\ phase = "save_commands"
    BY <1>10 DEF DieSavingCommands, Crash
  <2>2. Disk
    BY <1>10, <2>1 DEF DieSavingCommands
  <2> QED
    BY <1>5, <2>1, <2>2
<1>11. ASSUME NEW f, Edit(f) PROVE UNCHANGED <<disk, memory>>
  BY <1>11 DEF Edit
<1>12. ASSUME NEW c, \/ Delete(c) \/ Reconfigure(c) \/ CheckOutdated(c) \/ CheckUpToDate(c)
                     \/ Run(c) \/ Fail(c)
       PROVE  UNCHANGED <<disk, memory>>
  BY <1>12 DEF Delete, Reconfigure, CheckOutdated, CheckUpToDate, Run, Fail
<1>13. CASE BeginSave \/ UNCHANGED vars
  BY <1>13 DEF BeginSave, vars
<1> HIDE DEF Disk, Memory
<1>14. Disk /\ Memory
  BY <1>1, <1>3, <1>4, <1>6, <1>7, <1>8, <1>9, <1>10, <1>11, <1>12, <1>13
     DEF Next, Disk, Memory
<1> QED
  BY <1>14 DEF Disk, Memory

(* ... and the log.                                                         *)
LEMMA LogMoves == [Next]_vars => logRecords' \in {logRecords, <<>>} \/ LogRecord
  BY DEF Next, vars, disk, Edit, Delete, Reconfigure, CheckNew, CheckOutdated, CheckUpToDate,
     Run, Fail, AfterCommand, Load, LogFiles, CloseLogs, EndUnchanged, BeginSave, SaveFiles,
     SaveCommands, RemoveLogs, Die, DieSavingFiles, DieSavingCommands

(* What is saved of a record is as true as it.                              *)
LEMMA SavedOk ==
  ASSUME Shape, RecordsOk, NEW k \in Key
  PROVE  RecordOk(k, Saved(k).mtime, Saved(k).deps)
<1>1. RecordOk(k, records[k].mtime, records[k].deps)
  BY DEF RecordsOk
<1>2. CASE records[k].hashed
  <2>1. Saved(k).mtime = records[k].mtime /\ Saved(k).deps \subseteq records[k].deps
    BY <1>2, SavedIs DEF Implicit
  <2> QED
    BY <1>1, <2>1 DEF RecordOk
<1>3. CASE ~records[k].hashed
  <2>1. time[Output[k[1]]] \in Nat /\ clock \in Nat
    BY Numbers, Keys, Constants
  <2> QED
    BY <1>3, <2>1, SavedIs DEF RecordOk
<1> QED
  BY <1>2, <1>3

LEMMA RecordsStep ==
  ASSUME Shape, Shape', TimesOk, RecordsOk, CacheOk, BuildOk, StorageOk, [Next]_vars
  PROVE  RecordsOk'
<1> USE Constants
<1>0. /\ \A k \in Key : k[1] \in Command /\ Output[k[1]] \in File
      /\ clock' \in Nat /\ \A f \in File : time'[f] \in Nat
  BY Keys DEF Shape
<1>1. \A k \in Key : RecordOkThen(k, 0, {})
  BY <1>0 DEF RecordOkThen
<1>2. \A k \in Key : /\ dbRecords[k].mtime \in Time /\ records[k].mtime \in Time
                     /\ Loaded(k).mtime \in Time
  BY LoadedIs DEF Shape, Record
<1>3. ASSUME NEW k \in Key PROVE RecordOkThen(k, dbRecords'[k].mtime, dbRecords'[k].deps)
  <2>1. CASE dbRecords'[k] = dbRecords[k]
    <3>1. RecordOk(k, dbRecords[k].mtime, dbRecords[k].deps)
      BY DEF RecordsOk
    <3> QED
      BY <1>2, <2>1, <3>1, RecordKept
  <2>2. CASE dbRecords'[k] = Absent
    BY <1>1, <2>2 DEF Absent
  <2>3. CASE dbRecords'[k] = Saved(k)
    <3>1. RecordOk(k, Saved(k).mtime, Saved(k).deps) /\ Saved(k).mtime \in Time
      BY SavedOk, SavedIs DEF Record
    <3> QED
      BY <2>3, <3>1, RecordKept
  <2> QED
    BY <2>1, <2>2, <2>3, RecordMoves
<1>4. ASSUME NEW k \in Key PROVE RecordOkThen(k, records'[k].mtime, records'[k].deps)
  <2>1. CASE records'[k] = records[k]
    <3>1. RecordOk(k, records[k].mtime, records[k].deps)
      BY DEF RecordsOk
    <3> QED
      BY <1>2, <2>1, <3>1, RecordKept
  <2>2. CASE records'[k] \in {Absent, Inserted}
    <3>1. records'[k].mtime = 0 /\ records'[k].deps = {}
      BY <2>2 DEF Absent, Inserted
    <3> QED
      BY <1>1, <3>1
  <2>3. CASE records'[k] = Loaded(k)
    <3>1. RecordOk(k, Loaded(k).mtime, Loaded(k).deps)
      BY LoadedOk
    <3> QED
      BY <1>2, <2>3, <3>1, RecordKept
  <2>4. ASSUME NEW c \in Command, AfterCommand(c), k = key(c), records'[k] = Ended(c)
        PROVE  RecordOkThen(k, records'[k].mtime, records'[k].deps)
    <3>1. records'[k].mtime = time[Output[c]] /\ records'[k].deps = found[c]
      BY <2>4 DEF Ended
    <3>2. found[c] \subseteq MayInclude[c] /\ Current(c)
      BY <2>4 DEF AfterCommand, BuildOk, BuiltOk, Shape, Includes
    <3>3. k[1] = c /\ k[2] = variant[c]
      BY <2>4 DEF key
    <3>4. RecordOk(k, time[Output[c]], found[c])
      BY <3>2, <3>3, Numbers DEF RecordOk, Current, TimesOk
    <3>5. time[Output[c]] \in Time
      BY DEF Shape
    <3> QED
      BY <3>1, <3>4, <3>5, RecordKept
  <2> QED
    BY <2>1, <2>2, <2>3, <2>4, RecordMoves
<1>5. ASSUME NEW e \in Entry, RecordOk(e.key, e.mtime, e.deps)
      PROVE  RecordOkThen(e.key, e.mtime, e.deps)
  BY <1>5, RecordKept DEF Entry
<1>6. \A i \in DOMAIN logRecords :
        /\ logRecords[i] \in Entry
        /\ RecordOk(logRecords[i].key, logRecords[i].mtime, logRecords[i].deps)
  BY DEF Shape, RecordsOk
<1>7. ASSUME NEW i \in DOMAIN logRecords'
      PROVE  RecordOkThen(logRecords'[i].key, logRecords'[i].mtime, logRecords'[i].deps)
  <2>1. CASE logRecords' = logRecords
    <3>1. i \in DOMAIN logRecords /\ logRecords'[i] = logRecords[i]
      BY <2>1
    <3> QED
      BY <1>5, <1>6, <3>1
  <2>2. CASE logRecords' = <<>>
    BY <2>2
  <2>3. CASE LogRecord
    <3> DEFINE k == Head(queue)
               e == [key |-> k, mtime |-> records[k].mtime, deps |-> Implicit(k)]
    <3>1. k \in Key /\ logRecords' = Append(logRecords, e)
      BY <2>3 DEF LogRecord, Shape
    <3>2. RecordOk(k, records[k].mtime, Implicit(k)) /\ Implicit(k) \subseteq File
      BY <3>1 DEF RecordsOk, RecordOk, Implicit, Shape
    <3>3. e \in Entry /\ RecordOk(e.key, e.mtime, e.deps)
      BY <1>2, <3>1, <3>2 DEF Entry
    <3> HIDE DEF e
    <3>4. logRecords'[i] = e \/ (i \in DOMAIN logRecords /\ logRecords'[i] = logRecords[i])
      <4>1. logRecords \in Seq(Entry) /\ i \in 1..Len(logRecords) + 1
        BY <3>1, <3>3 DEF Shape
      <4> QED
        <5>1. Append(logRecords, e)[i] = IF i = Len(logRecords) + 1 THEN e ELSE logRecords[i]
          BY <3>3, <4>1, AppendProperties
        <5>2. i # Len(logRecords) + 1 => i \in DOMAIN logRecords
          BY <4>1
        <5> QED
          BY <3>1, <5>1, <5>2
    <3> QED
      BY <1>5, <1>6, <3>3, <3>4
  <2> QED
    BY <2>1, <2>2, <2>3, LogMoves
<1> QED
  BY <1>3, <1>4, <1>7 DEF RecordsOk, RecordOk, RecordOkThen
-----------------------------------------------------------------------------
(* While nothing was torn, records are whole. *)
LEMMA TornStays == [Next]_vars /\ torn => torn'
  BY DEF Next, vars, ghosts, Edit, Delete, Reconfigure, CheckNew, CheckOutdated, CheckUpToDate,
     Run, Fail, AfterCommand, Load, LogRecord, LogFiles, CloseLogs, EndUnchanged, BeginSave,
     SaveFiles, SaveCommands, RemoveLogs, Die, DieSavingFiles, DieSavingCommands

(* The paths of the database.                                               *)
LEMMA DbFilesMove ==
  ASSUME Shape, StorageOk, [Next]_vars, ~torn'
  PROVE  dbFiles \subseteq dbFiles'
<1>1. ASSUME SaveFiles PROVE dbFiles \subseteq dbFiles'
  BY <1>1 DEF SaveFiles, StorageOk
<1>2. dbFiles' = dbFiles \/ SaveFiles \/ DieSavingFiles
  BY DEF Next, vars, disk, Edit, Delete, Reconfigure, CheckNew, CheckOutdated, CheckUpToDate,
     Run, Fail, AfterCommand, Load, LogRecord, LogFiles, CloseLogs, EndUnchanged, BeginSave,
     SaveCommands, RemoveLogs, Die, DieSavingCommands
<1>3. ~DieSavingFiles
  BY DEF DieSavingFiles
<1> QED
  BY <1>1, <1>2, <1>3

(* Once nothing is queued, the implicit inputs of saved records are listed. *)
LEMMA SavedWhole ==
  ASSUME Shape, Whole, StorageOk, ~torn, NEW k \in Key
  PROVE  /\ phase = "save_commands" => Saved(k).deps \subseteq dbFiles
         /\ DepsOk(k, Saved(k).mtime, Saved(k).deps)
<1>1. records[k].deps \subseteq known
  BY DEF Whole, StorageOk, PathsKnown
<1>2. DepsOk(k, records[k].mtime, records[k].deps)
  BY DEF Whole
<1>3. Implicit(k) = records[k].deps
  BY <1>1 DEF Implicit
<1>4. CASE records[k].hashed
  <2>1. phase = "save_commands" => Implicit(k) \subseteq dbFiles
    <3> SUFFICES ASSUME phase = "save_commands" PROVE Implicit(k) \subseteq dbFiles
      OBVIOUS
    <3>1. queue = <<>> /\ listed \subseteq dbFiles
      BY DEF StorageOk
    <3>2. ~Queued(k)
      BY <3>1 DEF Queued
    <3> QED
      BY <1>4, <3>1, <3>2 DEF StorageOk
  <2> QED
    BY <1>2, <1>3, <1>4, <2>1, SavedIs
<1>5. CASE ~records[k].hashed
  BY <1>5, SavedIs DEF DepsOk
<1> QED
  BY <1>4, <1>5

LEMMA WholeStep ==
  ASSUME Shape, Shape', TimesOk, RecordsOk, Whole, StorageOk, CacheOk, BuildOk, [Next]_vars
  PROVE  Whole'
<1> SUFFICES ASSUME ~torn' PROVE Whole'
  BY DEF Whole
<1>0. ~torn
  BY TornStays
<1>1. blank = {} /\ (writer = "idle" => logRecords = <<>> /\ logFiles = {})
  BY <1>0 DEF Whole
<1>2. phase # "build" => writer = "idle" /\ logRecords = <<>> /\ logFiles = {}
  BY <1>1 DEF StorageOk
<1>3. \A k \in Key : /\ dbRecords[k].deps \subseteq dbFiles
                     /\ DepsOk(k, dbRecords[k].mtime, dbRecords[k].deps)
                     /\ DepsOk(k, records[k].mtime, records[k].deps)
  BY <1>0 DEF Whole
<1>4. blank' = {}
  <2>1. CASE Load
    <3>1. DOMAIN logRecords = {} /\ phase = "off"
      BY <1>2, <2>1 DEF Load
    <3>2. Mentioned \subseteq dbFiles
      BY <1>3, <3>1 DEF Mentioned
    <3> QED
      BY <2>1, <3>2 DEF Load
  <2>2. CASE Forget
    BY <2>2 DEF Forget
  <2>3. CASE blank' = blank
    BY <1>1, <2>3
  <2> QED
    BY <2>1, <2>2, <2>3 DEF Next, vars, memory, Edit, Delete, Reconfigure, CheckNew,
       CheckOutdated, CheckUpToDate, Run, Fail, AfterCommand, LogRecord, LogFiles, CloseLogs,
       EndUnchanged, BeginSave, SaveFiles, SaveCommands, RemoveLogs, Die, DieSavingFiles,
       DieSavingCommands, Crash
<1>5. writer' = "idle" => logRecords' = <<>> /\ logFiles' = {}
  <2>1. CASE LogRecord \/ LogFiles \/ CloseLogs \/ RemoveLogs
    BY <2>1 DEF LogRecord, LogFiles, CloseLogs, RemoveLogs
  <2>2. CASE EndUnchanged
    <3>1. writer = "idle"
      BY <2>2 DEF EndUnchanged, PlanEnded, StorageOk
    <3> QED
      BY <1>1, <2>2, <3>1 DEF EndUnchanged, disk
  <2>3. CASE Die
    <3>1. writer = "idle"
      BY <2>3 DEF Die
    <3> QED
      BY <1>1, <2>3, <3>1 DEF Die, disk
  <2>4. CASE DieSavingFiles
    BY <2>4 DEF DieSavingFiles
  <2>5. CASE DieSavingCommands
    <3>1. phase = "save_commands"
      BY <2>5 DEF DieSavingCommands
    <3> QED
      BY <1>2, <2>5, <3>1 DEF DieSavingCommands
  <2>6. CASE UNCHANGED <<writer, logRecords, logFiles>>
    BY <1>1, <2>6
  <2> QED
    BY <2>1, <2>2, <2>3, <2>4, <2>5, <2>6 DEF Next, vars, disk, memory, Edit, Delete,
       Reconfigure, CheckNew, CheckOutdated, CheckUpToDate, Run, Fail, AfterCommand, Load,
       BeginSave, SaveFiles, SaveCommands
<1>6. \A k \in Key : DepsOkThen(k, 0, {})
  BY DEF DepsOkThen
<1>7. \A k \in Key : /\ RecordOk(k, records[k].mtime, records[k].deps)
                     /\ RecordOk(k, dbRecords[k].mtime, dbRecords[k].deps)
                     /\ records[k].mtime \in Time /\ dbRecords[k].mtime \in Time
                     /\ Saved(k).mtime \in Time
  BY SavedIs DEF RecordsOk, Shape, Record
<1>8. ASSUME NEW k \in Key
      PROVE  /\ dbRecords'[k].deps \subseteq dbFiles'
             /\ DepsOkThen(k, dbRecords'[k].mtime, dbRecords'[k].deps)
  <2>0. dbFiles \subseteq dbFiles'
    BY DbFilesMove
  <2>1. CASE dbRecords'[k] = dbRecords[k]
    BY <1>3, <1>7, <2>0, <2>1, RecordKept
  <2>2. CASE dbRecords'[k] = Absent
    BY <1>6, <2>2 DEF Absent
  <2>3. CASE phase = "save_commands" /\ dbRecords'[k] = Saved(k)
    <3>1. Saved(k).deps \subseteq dbFiles /\ DepsOk(k, Saved(k).mtime, Saved(k).deps)
      BY <1>0, <2>3, SavedWhole
    <3>2. RecordOk(k, Saved(k).mtime, Saved(k).deps)
      BY SavedOk
    <3> QED
      BY <1>7, <2>0, <2>3, <3>1, <3>2, RecordKept
  <2> QED
    BY <2>1, <2>2, <2>3, RecordMoves
<1>9. ASSUME NEW k \in Key PROVE DepsOkThen(k, records'[k].mtime, records'[k].deps)
  <2>1. CASE records'[k] = records[k]
    BY <1>3, <1>7, <2>1, RecordKept
  <2>2. CASE records'[k] \in {Absent, Inserted}
    <3>1. records'[k].mtime = 0 /\ records'[k].deps = {}
      BY <2>2 DEF Absent, Inserted
    <3> QED
      BY <1>6, <3>1
  <2>3. CASE phase = "off" /\ records'[k] = Loaded(k)
    <3>1. logRecords = <<>>
      BY <1>2, <2>3
    <3>2. CASE dbRecords[k].hashed
      <4>1. Loaded(k) = [dbRecords[k] EXCEPT !.deps = dbRecords[k].deps \cap dbFiles]
        BY <3>1, <3>2, LoadedIs
      <4>2. dbRecords[k].deps \cap dbFiles = dbRecords[k].deps
        BY <1>3
      <4>3. dbRecords[k] \in Record
        BY DEF Shape
      <4>4. Loaded(k).mtime = dbRecords[k].mtime /\ Loaded(k).deps = dbRecords[k].deps
        BY <4>1, <4>2, <4>3 DEF Record
      <4> QED
        BY <1>3, <1>7, <2>3, <4>4, RecordKept
    <3>3. CASE ~dbRecords[k].hashed
      <4>1. Loaded(k).mtime = 0 /\ Loaded(k).deps = {}
        BY <3>1, <3>3, LoadedIs DEF Absent
      <4> QED
        BY <1>6, <2>3, <4>1
    <3> QED
      BY <3>2, <3>3
  <2>4. ASSUME NEW c \in Command, AfterCommand(c), k = key(c), records'[k] = Ended(c)
        PROVE  DepsOkThen(k, records'[k].mtime, records'[k].deps)
    <3>1. records'[k].deps = found[c] /\ found[c] = includes[c] /\ k[1] = c
      BY <2>4 DEF Ended, AfterCommand, BuildOk, BuiltOk, key
    <3>2. includes' = includes
      BY <2>4 DEF AfterCommand, user
    <3> QED
      BY <3>1, <3>2 DEF DepsOkThen
  <2> QED
    BY <2>1, <2>2, <2>3, <2>4, RecordMoves
<1> QED
  BY <1>4, <1>5, <1>8, <1>9 DEF Whole, DepsOk, DepsOkThen
-----------------------------------------------------------------------------
(* The storage. *)

(* What is registered of a command that ended is no path of other records.  *)
LEMMA ImplicitKept ==
  ASSUME PathsKnown, NEW k \in Key, NEW more, more \cap blank = {}
  PROVE  records[k].deps \cap (known \cup more) = Implicit(k)
  BY DEF PathsKnown, Implicit

ImplicitThen(k) == records'[k].deps \cap known'
QueuedThen(k) == \E i \in DOMAIN queue' : queue'[i] = k

LEMMA ForgetStorage ==
  ASSUME Shape, StorageOk, Forget, phase' = "off",
         \A k \in Key : \/ dbRecords'[k] \in {dbRecords[k], Absent}
                        \/ dbRecords'[k] = Saved(k)
  PROVE  StorageOk'
<1>1. \A k \in Key : records'[k] = Absent
  BY DEF Forget
<1>2. Absent.deps = {} /\ Absent.mtime = 0 /\ ~Absent.hashed
  BY DEF Absent
<1>3. queue' = <<>> /\ DOMAIN queue' = {} /\ writer' = "idle"
  BY DEF Forget
<1>4. Idle'
  BY DEF Forget, Idle
<1>5. \A k \in Key : dbRecords'[k].hashed => dbRecords'[k].there
  BY <1>2, SavedIs DEF StorageOk
<1> QED
  BY <1>1, <1>2, <1>3, <1>4, <1>5 DEF StorageOk, PathsKnown

(* While a build goes on: checks, runs and what the writer does.            *)
LEMMA BuildStorage ==
  ASSUME Shape, StorageOk, phase = "build",
         UNCHANGED <<phase, variant, dbFiles, known, blank, listed, queue, writer>>,
         \A c \in Command : pc[c] = "done" => pc'[c] = "done",
         dbRecords' = dbRecords,
         \A k \in Key : records'[k] = records[k] \/ (~records[k].hashed /\ records'[k] = Inserted)
  PROVE  StorageOk'
<1>0. Inserted.deps = {} /\ Inserted.mtime = 0 /\ ~Inserted.hashed /\ Inserted.there
  BY DEF Inserted
<1>1. PathsKnown'
  BY <1>0 DEF StorageOk, PathsKnown
<1>2. \A k \in Key : /\ records'[k].mtime # 0 => records'[k].hashed
                     /\ records'[k].hashed => records'[k].there
  BY <1>0 DEF StorageOk
<1>3. \A k \in Key : /\ records[k].hashed => records'[k] = records[k]
                     /\ records'[k].hashed => records'[k] = records[k]
  BY <1>0
<1>4. ASSUME NEW i \in DOMAIN queue
      PROVE  /\ queue[i] \in Key /\ records'[queue[i]] = records[queue[i]]
             /\ records'[queue[i]].hashed
             /\ \E c \in Command : queue[i] = key(c)' /\ pc'[c] = "done"
  <2>1. queue[i] \in Key /\ records[queue[i]].hashed
    BY DEF Shape, StorageOk
  <2>2. PICK c \in Command : queue[i] = key(c) /\ pc[c] = "done"
    BY DEF StorageOk
  <2> QED
    BY <1>3, <2>1, <2>2 DEF key
<1>5. \A k \in Key : records'[k].hashed => Implicit(k)' \subseteq listed' \/ Queued(k)'
  BY <1>3 DEF StorageOk, Implicit, Queued
<1>6. writer' = "close" => Implicit(Head(queue))' \subseteq listed'
  <2> SUFFICES ASSUME writer = "close" PROVE Implicit(Head(queue))' \subseteq listed
    OBVIOUS
  <2>1. queue # <<>>
    BY DEF StorageOk
  <2>2. 1 \in DOMAIN queue /\ Head(queue) = queue[1]
    BY <2>1 DEF Shape
  <2> QED
    BY <1>4, <2>2 DEF StorageOk, Implicit
<1> QED
  BY <1>1, <1>2, <1>4, <1>5, <1>6 DEF StorageOk

LEMMA AfterStorage ==
  ASSUME Shape, Shape', StorageOk, CacheOk, BuildOk, NEW c \in Command, AfterCommand(c)
  PROVE  StorageOk'
<1> USE Constants
<1>1. /\ records' = [records EXCEPT ![key(c)] = Ended(c)] /\ key(c) \in Key
      /\ known' = known \cup (found[c] \ blank) /\ queue' = Append(queue, key(c))
      /\ phase = "build" /\ pc[c] = "ran" /\ pc' = [pc EXCEPT ![c] = "done"]
      /\ UNCHANGED <<phase, variant, dbFiles, dbRecords, blank, listed, writer>>
  <2>1. NewTime(c) = time[Output[c]]
    BY NewTimeIs DEF AfterCommand
  <2> QED
    BY <2>1, Keys DEF AfterCommand, Ended, Remembered, Shape, user, disk
<1>2. /\ Ended(c).hashed /\ Ended(c).there /\ Ended(c).deps = found[c]
      /\ \A k \in Key : records'[k] = IF k = key(c) THEN Ended(c) ELSE records[k]
  BY <1>1 DEF Ended, Shape
<1>3. PathsKnown'
  <2>1. found[c] \subseteq known' \cup blank'
    BY <1>1
  <2> QED
    BY <1>1, <1>2, <2>1 DEF StorageOk, PathsKnown
<1>4. \A k \in Key : /\ records'[k].mtime # 0 => records'[k].hashed
                     /\ records'[k].hashed => records'[k].there
  BY <1>2 DEF StorageOk
<1>5. \A k \in Key : k # key(c) => ImplicitThen(k) = Implicit(k)
  <2> SUFFICES ASSUME NEW k \in Key, k # key(c) PROVE ImplicitThen(k) = Implicit(k)
    OBVIOUS
  <2>1. records'[k] = records[k] /\ (found[c] \ blank) \cap blank = {} /\ PathsKnown
    BY <1>2 DEF StorageOk
  <2>2. records[k].deps \cap (known \cup (found[c] \ blank)) = Implicit(k)
    BY <2>1, ImplicitKept
  <2> QED
    BY <1>1, <2>1, <2>2 DEF ImplicitThen
<1>6. /\ Len(queue') = Len(queue) + 1 /\ Len(queue) \in Nat
      /\ DOMAIN queue = 1..Len(queue) /\ DOMAIN queue' = 1..Len(queue')
      /\ queue'[Len(queue) + 1] = key(c) /\ \A i \in 1..Len(queue) : queue'[i] = queue[i]
      /\ queue' # <<>>
  <2>1. queue \in Seq(Key) /\ queue' \in Seq(Key)
    BY DEF Shape
  <2> QED
    BY <1>1, <2>1, AppendProperties
<1>7. ASSUME NEW i \in DOMAIN queue
      PROVE  /\ queue[i] \in Key \ {key(c)} /\ records[queue[i]].hashed
             /\ \E d \in Command : queue[i] = key(d)' /\ pc'[d] = "done"
  <2>1. queue[i] \in Key /\ records[queue[i]].hashed
    BY DEF Shape, StorageOk
  <2>2. PICK d \in Command : queue[i] = key(d) /\ pc[d] = "done"
    BY DEF StorageOk
  <2>3. d # c /\ key(d) # key(c)
    BY <1>1, <2>2, Keys
  <2>4. key(d)' = key(d) /\ pc'[d] = "done"
    BY <1>1, <2>2, <2>3 DEF key, Shape
  <2> QED
    BY <2>1, <2>2, <2>3, <2>4
<1>8. key(c)' = key(c) /\ pc'[c] = "done"
  BY <1>1 DEF key, Shape
<1>9. \A i \in DOMAIN queue' : /\ records'[queue'[i]].hashed
                               /\ \E d \in Command : queue'[i] = key(d)' /\ pc'[d] = "done"
  BY <1>1, <1>2, <1>6, <1>7, <1>8
<1>10. \A k \in Key : records'[k].hashed => ImplicitThen(k) \subseteq listed' \/ QueuedThen(k)
  <2>1. QueuedThen(key(c))
    BY <1>6 DEF Queued, QueuedThen
  <2>2. ASSUME NEW k \in Key, Queued(k) PROVE QueuedThen(k)
    BY <1>6, <2>2 DEF Queued, QueuedThen
  <2> QED
    BY <1>1, <1>2, <1>5, <2>1, <2>2 DEF StorageOk, Implicit
<1>11. writer' = "close" => ImplicitThen(Head(queue')) \subseteq listed'
  <2> SUFFICES ASSUME writer = "close" PROVE ImplicitThen(Head(queue')) \subseteq listed'
    BY <1>1
  <2>1. queue # <<>> /\ Implicit(Head(queue)) \subseteq listed
    BY DEF StorageOk
  <2>2. Head(queue') = queue[1] /\ Head(queue) = queue[1] /\ 1 \in DOMAIN queue
    BY <1>6, <2>1 DEF Shape
  <2>3. Head(queue) \in Key \ {key(c)}
    BY <1>7, <2>2
  <2>4. ImplicitThen(Head(queue)) = Implicit(Head(queue))
    BY <1>5, <2>3
  <2> QED
    BY <1>1, <2>1, <2>2, <2>4
<1> QED
  BY <1>1, <1>3, <1>4, <1>6, <1>9, <1>10, <1>11
     DEF StorageOk, Implicit, ImplicitThen, Queued, QueuedThen

LEMMA WriterStorage ==
  ASSUME Shape, Shape', StorageOk, LogRecord \/ LogFiles \/ CloseLogs
  PROVE  StorageOk'
<1>1. queue # <<>> /\ phase = "build"
  BY DEF StorageOk, LogRecord, LogFiles, CloseLogs
<1>2. UNCHANGED <<phase, variant, pc, dbFiles, dbRecords, records, known, blank, changed>>
  BY DEF LogRecord, LogFiles, CloseLogs, user, run
<1>3. /\ PathsKnown'
      /\ \A k \in Key : /\ records'[k].mtime # 0 => records'[k].hashed
                        /\ records'[k].hashed => records'[k].there
                        /\ dbRecords'[k].hashed => dbRecords'[k].there
      /\ \A k \in Key : ImplicitThen(k) = Implicit(k)
      /\ \A c \in Command : key(c)' = key(c)
  BY <1>2 DEF StorageOk, PathsKnown, ImplicitThen, Implicit, key
<1>4. Len(queue) \in Nat \ {0} /\ DOMAIN queue = 1..Len(queue) /\ Head(queue) = queue[1]
  BY <1>1 DEF Shape
<1>5. CASE LogRecord \/ LogFiles
  <2>1. queue' = queue /\ listed \subseteq listed'
    BY <1>5 DEF LogRecord, LogFiles, ListedToo
  <2>2. writer' = "close" => Implicit(Head(queue)) \subseteq listed'
    BY <1>5 DEF LogRecord, LogFiles, ListedToo
  <2>3. \A k \in Key : records'[k].hashed => ImplicitThen(k) \subseteq listed' \/ QueuedThen(k)
    BY <1>2, <1>3, <2>1 DEF StorageOk, Queued, QueuedThen
  <2>4. \A i \in DOMAIN queue' : /\ records'[queue'[i]].hashed
                                 /\ \E c \in Command : queue'[i] = key(c)' /\ pc'[c] = "done"
    BY <1>2, <1>3, <2>1 DEF StorageOk
  <2>5. ImplicitThen(Head(queue')) = Implicit(Head(queue))
    BY <1>2, <2>1 DEF ImplicitThen, Implicit
  <2>6. dbFiles' \subseteq listed'
    BY <1>1, <1>2, <2>1 DEF StorageOk
  <2> QED
    BY <1>1, <1>2, <1>3, <2>1, <2>2, <2>3, <2>4, <2>5, <2>6
       DEF StorageOk, ImplicitThen, Implicit, QueuedThen, Queued
<1>6. CASE CloseLogs
  <2>1. queue' = Tail(queue) /\ listed' = listed /\ writer' = "idle" /\ writer = "close"
    BY <1>6 DEF CloseLogs
  <2>2. /\ DOMAIN queue' = 1..(Len(queue) - 1)
        /\ \A i \in DOMAIN queue' : i + 1 \in DOMAIN queue /\ queue'[i] = queue[i + 1]
    BY <1>1, <1>4, <2>1 DEF Shape
  <2>3. \A i \in DOMAIN queue' : /\ records'[queue'[i]].hashed
                                 /\ \E c \in Command : queue'[i] = key(c)' /\ pc'[c] = "done"
    BY <1>2, <1>3, <2>2 DEF StorageOk
  <2>4. ASSUME NEW k \in Key, Queued(k), k # Head(queue) PROVE QueuedThen(k)
    <3>1. PICK i \in DOMAIN queue : queue[i] = k
      BY <2>4 DEF Queued
    <3>2. i \in Nat /\ i > 1 /\ i <= Len(queue)
      BY <1>4, <2>4, <3>1
    <3>3. i - 1 \in DOMAIN queue' /\ (i - 1) + 1 = i
      BY <1>4, <2>2, <3>2
    <3> QED
      BY <2>2, <3>1, <3>3 DEF QueuedThen
  <2>5. Implicit(Head(queue)) \subseteq listed
    BY <2>1 DEF StorageOk
  <2>6. \A k \in Key : records'[k].hashed => ImplicitThen(k) \subseteq listed' \/ QueuedThen(k)
    BY <1>2, <1>3, <2>1, <2>4, <2>5 DEF StorageOk
  <2>7. dbFiles' \subseteq listed'
    BY <1>1, <1>2, <2>1 DEF StorageOk
  <2> QED
    BY <1>1, <1>2, <1>3, <2>1, <2>3, <2>6, <2>7
       DEF StorageOk, ImplicitThen, Implicit, QueuedThen, Queued
<1> QED
  BY <1>5, <1>6

LEMMA LoadStorage ==
  ASSUME Shape, Shape', StorageOk, Load
  PROVE  StorageOk'
<1>1. /\ \A k \in Key : records'[k] = Loaded(k) /\ records'[k].deps \subseteq Paths
                        /\ (records'[k].mtime # 0 => records'[k].hashed)
                        /\ (records'[k].hashed => records'[k].there)
                        /\ (dbRecords'[k].hashed => dbRecords'[k].there)
      /\ known' = Paths /\ listed' = Paths /\ dbFiles' = dbFiles /\ dbFiles \subseteq Paths
  BY LoadedIs DEF Load, Paths, disk, StorageOk
<1>2. queue' = <<>> /\ DOMAIN queue' = {} /\ writer' = "idle" /\ phase' = "build"
  BY DEF Load, StorageOk, Idle
<1>3. PathsKnown'
  BY <1>1 DEF PathsKnown
<1>4. \A k \in Key : Implicit(k)' \subseteq listed'
  BY <1>1 DEF Implicit
<1> QED
  BY <1>1, <1>2, <1>3, <1>4 DEF StorageOk

LEMMA SaveStorage ==
  ASSUME Shape, Shape', StorageOk, BeginSave \/ SaveFiles \/ SaveCommands
  PROVE  StorageOk'
<1>1. /\ queue = <<>> /\ DOMAIN queue = {} /\ writer = "idle" /\ changed
      /\ \A c \in Command : pc[c] \notin {"outdated", "ran"}
  BY DEF StorageOk, BeginSave, PlanEnded, SaveFiles, SaveCommands
<1>2. UNCHANGED <<pc, records, known, blank, listed, changed, queue, writer>>
  BY DEF BeginSave, SaveFiles, SaveCommands, run, memory
<1>3. /\ PathsKnown'
      /\ \A k \in Key : /\ records'[k].mtime # 0 => records'[k].hashed
                        /\ records'[k].hashed => records'[k].there
  BY <1>2 DEF StorageOk, PathsKnown
<1>9. \A k \in Key : dbRecords'[k].hashed => dbRecords'[k].there
  <2>1. \A k \in Key : dbRecords'[k] = dbRecords[k] \/ dbRecords'[k] = Saved(k)
    BY DEF BeginSave, SaveFiles, SaveCommands, disk
  <2> QED
    BY <2>1, SavedIs DEF StorageOk
<1>4. \A k \in Key : records'[k].hashed => Implicit(k)' \subseteq listed'
  <2>1. \A k \in Key : ~Queued(k)
    BY <1>1 DEF Queued
  <2> QED
    BY <1>2, <2>1 DEF StorageOk, Implicit
<1>5. dbFiles \subseteq listed
  BY DEF StorageOk, BeginSave, PlanEnded, SaveFiles, SaveCommands
<1>6. phase' # "off" /\ phase' # "build" /\ dbFiles' \subseteq listed'
  BY <1>2, <1>5 DEF BeginSave, SaveFiles, SaveCommands, disk
<1>7. phase' \in {"save_commands", "remove_logs"} => listed' \subseteq dbFiles'
  BY <1>2 DEF BeginSave, SaveFiles, SaveCommands, StorageOk
<1>8. phase' = "remove_logs" => \A k \in Key : dbRecords'[k] = Saved(k)'
  BY <1>2 DEF BeginSave, SaveFiles, SaveCommands, Saved, Implicit
<1> QED
  BY <1>1, <1>2, <1>3, <1>4, <1>6, <1>7, <1>8, <1>9 DEF StorageOk

LEMMA UserStorage ==
  ASSUME StorageOk, phase = "off", UNCHANGED <<phase, run, memory, disk>>
  PROVE  StorageOk'
<1>1. Idle /\ Idle'
  BY DEF StorageOk, Idle, run, memory
<1>2. queue' = <<>> /\ DOMAIN queue' = {} /\ writer' = "idle" /\ phase' = "off"
  BY <1>1 DEF Idle
<1>3. \A k \in Key : records'[k].deps = {} /\ records'[k].mtime = 0 /\ ~records'[k].hashed
  BY <1>1 DEF Idle, Absent
<1>4. \A k \in Key : dbRecords'[k].hashed => dbRecords'[k].there
  BY DEF StorageOk, disk
<1> QED
  BY <1>1, <1>2, <1>3, <1>4 DEF StorageOk, PathsKnown

LEMMA StorageStep ==
  ASSUME Shape, Shape', StorageOk, CacheOk, BuildOk, [Next]_vars
  PROVE  StorageOk'
<1>1. ASSUME NEW f, Edit(f) PROVE StorageOk'
  BY <1>1, UserStorage DEF Edit
<1>2. ASSUME NEW c, Delete(c) \/ Reconfigure(c) PROVE StorageOk'
  BY <1>2, UserStorage DEF Delete, Reconfigure
<1>3. ASSUME NEW c \in Command, CheckNew(c) PROVE StorageOk'
  <2>1. \A k \in Key : records'[k] = IF k = key(c) THEN Inserted ELSE records[k]
    BY <1>3 DEF CheckNew, Shape
  <2>2. ~records[key(c)].hashed
    BY <1>3, Keys DEF StorageOk, CheckNew, Shape
  <2>3. \A d \in Command : pc[d] = "done" => pc'[d] = "done"
    BY <1>3 DEF CheckNew, MayCheck, Shape
  <2> QED
    BY <1>3, <2>1, <2>2, <2>3, BuildStorage DEF CheckNew, MayCheck, user, disk
<1>4. ASSUME NEW c \in Command, CheckOutdated(c) \/ CheckUpToDate(c) \/ Run(c) \/ Fail(c)
      PROVE  StorageOk'
  <2>1. \A d \in Command : pc[d] = "done" => pc'[d] = "done"
    BY <1>4 DEF CheckOutdated, CheckUpToDate, Run, Fail, MayCheck, Shape
  <2>2. variant' = variant
    BY <1>4 DEF CheckOutdated, CheckUpToDate, Run, Fail, Write, user
  <2> QED
    BY <1>4, <2>1, <2>2, BuildStorage
       DEF CheckOutdated, CheckUpToDate, Run, Fail, MayCheck, memory, disk
<1>5. ASSUME NEW c \in Command, AfterCommand(c) PROVE StorageOk'
  BY <1>5, AfterStorage
<1>6. CASE Load \/ LogRecord \/ LogFiles \/ CloseLogs \/ BeginSave \/ SaveFiles \/ SaveCommands
  BY <1>6, LoadStorage, WriterStorage, SaveStorage
<1>7. CASE EndUnchanged \/ RemoveLogs \/ Die \/ DieSavingFiles \/ DieSavingCommands
  <2>1. Forget /\ phase' = "off"
    BY <1>7 DEF EndUnchanged, RemoveLogs, Die, DieSavingFiles, DieSavingCommands, Crash
  <2>2. \A k \in Key : \/ dbRecords'[k] \in {dbRecords[k], Absent}
                       \/ dbRecords'[k] = Saved(k)
    BY RecordMoves
  <2> QED
    BY <2>1, <2>2, ForgetStorage
<1>8. CASE UNCHANGED vars
  <2>1. UNCHANGED <<phase, variant, pc, disk, memory>> /\ UNCHANGED run
    BY <1>8 DEF vars, user, run
  <2> QED
    BY <2>1 DEF StorageOk, Idle, PathsKnown, key, Implicit, Queued, Saved, run, memory, disk
<1> QED
  BY <1>1, <1>2, <1>3, <1>4, <1>5, <1>6, <1>7, <1>8 DEF Next

(* While nothing ended, memory is what was loaded.                          *)
LEMMA UnchangedStep ==
  ASSUME Shape, StorageOk, UnchangedOk, [Next]_vars
  PROVE  UnchangedOk'
<1> DEFINE Same == phase' # "off" /\ ~changed' =>
             /\ queue' = <<>> /\ known' = Paths'
             /\ \A k \in Key : records'[k] = Loaded(k)' \/ records'[k].mtime = 0
<1>1. ASSUME phase' = "off" PROVE Same
  BY <1>1
<1>2. ASSUME changed' PROVE Same
  BY <1>2
<1>3. ASSUME Load PROVE Same
  <2>1. queue = <<>>
    BY <1>3 DEF Load, StorageOk
  <2>2. UNCHANGED disk /\ queue' = <<>> /\ known' = Paths /\ records' = [k \in Key |-> Loaded(k)]
    BY <1>3, <2>1 DEF Load
  <2>3. Paths' = Paths /\ \A k \in Key : Loaded(k)' = Loaded(k)
    BY <2>2 DEF Paths, Loaded, Logged, disk
  <2> QED
    BY <2>2, <2>3
<1>4. ASSUME UNCHANGED <<disk, changed, queue, known>>, phase' = "off" \/ phase # "off",
             \A k \in Key : records'[k] = records[k] \/ records'[k].mtime = 0
      PROVE  Same
  <2>1. Paths' = Paths /\ \A k \in Key : Loaded(k)' = Loaded(k)
    BY <1>4 DEF Paths, Loaded, Logged, disk
  <2> HIDE DEF Same
  <2> SUFFICES ASSUME phase' # "off", ~changed' PROVE Same
    BY DEF Same
  <2>2. /\ queue = <<>> /\ known = Paths
        /\ \A k \in Key : records[k] = Loaded(k) \/ records[k].mtime = 0
    BY <1>4 DEF UnchangedOk
  <2> QED
    BY <1>4, <2>1, <2>2 DEF Same
<1>5. ASSUME NEW c \in Command, CheckNew(c) PROVE Same
  <2>1. \A k \in Key : records'[k] = records[k] \/ records'[k].mtime = 0
    BY <1>5 DEF CheckNew, Inserted, Shape
  <2> HIDE DEF Same
  <2> QED
    BY <1>4, <1>5, <2>1 DEF CheckNew, MayCheck
<1>6. ASSUME NEW c \in Command, CheckOutdated(c) \/ CheckUpToDate(c) \/ Run(c) \/ Fail(c)
      PROVE  Same
  <2>1. UNCHANGED <<disk, memory>> /\ phase # "off"
    BY <1>6 DEF CheckOutdated, CheckUpToDate, Run, Fail, MayCheck
  <2> HIDE DEF Same
  <2> QED
    BY <1>4, <2>1 DEF memory
<1>7. ASSUME LogRecord \/ LogFiles \/ CloseLogs PROVE Same
  <2>1. queue # <<>> /\ changed' = changed /\ phase = "build"
    BY <1>7 DEF LogRecord, LogFiles, CloseLogs, StorageOk
  <2>2. changed
    BY <2>1 DEF UnchangedOk, Shape
  <2> QED
    BY <2>1, <2>2
<1>8. ASSUME BeginSave \/ SaveFiles \/ SaveCommands PROVE Same
  <2>1. changed /\ changed' = changed
    BY <1>8 DEF BeginSave, SaveFiles, SaveCommands, StorageOk, memory
  <2> QED
    BY <2>1
<1>9. ASSUME UNCHANGED vars PROVE Same
  <2>1. UNCHANGED <<disk, memory, phase>>
    BY <1>9 DEF vars
  <2>2. phase' = "off" \/ phase # "off"
    BY <2>1
  <2> HIDE DEF Same
  <2> QED
    BY <1>4, <2>1, <2>2 DEF memory
<1>10. ASSUME NEW c \in Command, AfterCommand(c) PROVE changed'
  BY <1>10 DEF AfterCommand
<1>11. ASSUME EndUnchanged \/ RemoveLogs \/ Die \/ DieSavingFiles \/ DieSavingCommands
       PROVE  phase' = "off"
  BY <1>11 DEF EndUnchanged, RemoveLogs, Die, DieSavingFiles, DieSavingCommands, Crash
<1>12. ASSUME NEW f, Edit(f) PROVE phase' = "off"
  BY <1>12 DEF Edit
<1>13. ASSUME NEW c, Delete(c) \/ Reconfigure(c) PROVE phase' = "off"
  BY <1>13 DEF Delete, Reconfigure
<1>14. Same
  <2> HIDE DEF Same
  <2>1. phase' = "off" \/ changed' => Same
    BY DEF Same
  <2> QED
    BY <1>3, <1>5, <1>6, <1>7, <1>8, <1>9, <1>10, <1>11, <1>12, <1>13, <2>1 DEF Next, Same
<1> QED
  BY <1>14 DEF UnchangedOk
-----------------------------------------------------------------------------
(* The build. *)

(* What is looked at is as it is, but outputs being written.                *)
LEMMA CacheStep ==
  ASSUME Shape, Shape', StorageOk, CacheOk, BuildOk, [Next]_vars
  PROVE  CacheOk'
<1> USE Constants
<1> DEFINE Writing(f) == \E d \in Command : f = Output[d] /\ pc[d] \in {"ran", "failed"}
           Then(f) == \/ cache'[f] \in {Unread, time'[f]}
                      \/ \E d \in Command : f = Output[d] /\ pc'[d] \in {"ran", "failed"}
<1>1. ASSUME phase = "off", cache' = cache, NEW f \in File PROVE Then(f)
  BY <1>1 DEF StorageOk, Idle
<1>2. ASSUME Forget, NEW f \in File PROVE Then(f)
  BY <1>2 DEF Forget
<1>3. ASSUME UNCHANGED <<time, cache, pc>>, NEW f \in File PROVE Then(f)
  BY <1>3 DEF CacheOk
<1>4. ASSUME NEW c \in Command, CheckNew(c) \/ CheckOutdated(c) \/ CheckUpToDate(c), NEW f \in File
      PROVE  Then(f)
  <2>1. cache'[f] \in {cache[f], ReadTime(f)} /\ time' = time
    BY <1>4 DEF CheckNew, CheckOutdated, CheckUpToDate, Cached, user, run
  <2>2. pc[c] = "waiting" /\ \A d \in Command : d # c => pc'[d] = pc[d]
    BY <1>4 DEF CheckNew, CheckOutdated, CheckUpToDate, MayCheck, Shape
  <2>3. Writing(f) => Then(f)
    BY <2>2
  <2> QED
    BY <2>1, <2>3 DEF CacheOk, ReadTime
<1>5. ASSUME NEW c \in Command, Run(c) \/ Fail(c), NEW f \in File PROVE Then(f)
  <2>1. cache' = cache /\ pc'[c] \in {"ran", "failed"}
    BY <1>5 DEF Run, Fail, Shape
  <2>2. \A d \in Command : pc[d] \in {"ran", "failed"} => pc'[d] \in {"ran", "failed"}
    BY <1>5 DEF Run, Fail, Shape
  <2>3. f # Output[c] => time'[f] = time[f]
    BY <1>5 DEF Run, Fail, Write, user, Shape
  <2> QED
    BY <2>1, <2>2, <2>3 DEF CacheOk
<1>6. ASSUME NEW c \in Command, AfterCommand(c), NEW f \in File PROVE Then(f)
  <2>1. time' = time /\ cache'[f] \in {time[f], cache[f], ReadTime(f)}
        /\ (f = Output[c] => cache'[f] = time[f])
    BY <1>6 DEF AfterCommand, Refreshed, Cached, user
  <2>2. \A d \in Command : d # c => pc'[d] = pc[d]
    BY <1>6 DEF AfterCommand, Shape
  <2> QED
    BY <2>1, <2>2 DEF CacheOk, ReadTime
<1>7. ASSUME NEW g, Edit(g) PROVE phase = "off" /\ cache' = cache
  BY <1>7 DEF Edit, run
<1>8. ASSUME NEW c, Delete(c) \/ Reconfigure(c) PROVE phase = "off" /\ cache' = cache
  BY <1>8 DEF Delete, Reconfigure, run
<1>9. CASE EndUnchanged \/ RemoveLogs \/ Die \/ DieSavingFiles \/ DieSavingCommands
  <2>1. Forget
    BY <1>9 DEF EndUnchanged, RemoveLogs, Die, DieSavingFiles, DieSavingCommands, Crash
  <2> HIDE DEF Then
  <2>2. \A f \in File : Then(f)
    BY <1>2, <2>1
  <2> QED
    BY <2>2 DEF CacheOk, Then
<1>10. CASE \/ Load \/ LogRecord \/ LogFiles \/ CloseLogs \/ BeginSave \/ SaveFiles
            \/ SaveCommands \/ UNCHANGED vars
  <2>1. UNCHANGED <<time, cache, pc>>
    BY <1>10 DEF Load, LogRecord, LogFiles, CloseLogs, BeginSave, SaveFiles, SaveCommands,
                 vars, user, run
  <2> HIDE DEF Then
  <2>2. \A f \in File : Then(f)
    BY <1>3, <2>1
  <2> QED
    BY <2>2 DEF CacheOk, Then
<1>11. CacheOk' \/ \A f \in File : Then(f)
  <2> HIDE DEF Then
  <2> QED
    BY <1>1, <1>4, <1>5, <1>6, <1>7, <1>8, <1>9, <1>10 DEF Next
<1> QED
  BY <1>11 DEF CacheOk

(* What a command may look at: its inputs, its output, what it may include. *)
LEMMA LooksAt ==
  ASSUME Shape, RecordsOk, NEW c \in Command
  PROVE  /\ Reads(c) \subseteq Input[c] \cup MayInclude[c]
         /\ Compared(c) \subseteq Input[c] \cup {Output[c]} \cup MayInclude[c]
         /\ Reads(c) \subseteq File /\ Compared(c) \subseteq File
         /\ key(c) \in Key /\ records[key(c)] \in Record
<1>1. includes[c] \subseteq MayInclude[c]
  BY DEF Shape, Includes
<1>2. key(c) \in Key /\ key(c)[1] = c
  BY Keys DEF Shape
<1>3. RecordOk(key(c), records[key(c)].mtime, records[key(c)].deps)
  BY <1>2 DEF RecordsOk
<1>4. records[key(c)].deps \subseteq MayInclude[c]
  BY <1>2, <1>3 DEF RecordOk
<1>5. Reads(c) \subseteq Input[c] \cup MayInclude[c]
  BY <1>1 DEF Reads
<1>6. Compared(c) \subseteq Input[c] \cup {Output[c]} \cup MayInclude[c]
  BY <1>4 DEF Compared, Implicit
<1>7. records[key(c)] \in Record
  BY <1>2 DEF Shape
<1> QED
  BY <1>2, <1>5, <1>6, <1>7, Constants

(* A command that was reached is left alone by those that still work.       *)
LEMMA BuiltKept ==
  ASSUME Shape, RecordsOk, BuildOk, NEW c \in Command,
         UNCHANGED <<variant, includes, torn>>,
         pc'[c] = pc[c], found'[c] = found[c], mtime'[c] = mtime[c],
         \A d \in Command : pc[d] = "done" => pc'[d] = "done",
         pc[c] # "waiting" =>
           \A f \in Input[c] \cup MayInclude[c] \cup {Output[c]} : time'[f] = time[f],
         pc[c] # "waiting" => made'[Output[c]] = made[Output[c]],
         pc[c] # "waiting" => records'[key(c)] = records[key(c)]
                              /\ ImplicitThen(key(c)) = Implicit(key(c))
  PROVE  BuiltOk(c)'
<1>1. CASE pc[c] = "waiting"
  BY <1>1 DEF BuiltOk
<1>2. CASE pc[c] # "waiting"
  <2>1. Needs[c] \subseteq Command
    BY CommandsAssumption
  <2>2. \A f \in Reads(c) \cup Compared(c) : time'[f] = time[f]
    BY <1>2, LooksAt
  <2>3. \A f \in Input[c] \cup {Output[c]} : time'[f] = time[f]
    BY <1>2
  <2>4. key(c)' = key(c) /\ Reads(c)' = Reads(c) /\ Compared(c)' = Compared(c)
    BY <1>2 DEF key, Reads, Compared, Implicit, ImplicitThen
  <2>5. Current(c) => Current(c)'
    BY <1>2, <2>2, <2>3, <2>4 DEF Current
  <2>6. DeclaredOk(c) => DeclaredOk(c)'
    BY <1>2, <2>3 DEF DeclaredOk
  <2>7. Fresh(c) => Fresh(c)'
    BY <1>2, <2>2, <2>4 DEF Fresh, key
  <2>8. pc[c] = "ran" =>
          /\ found'[c] = includes'[c] /\ mtime'[c] <= time'[Output[c]]
          /\ \A f \in Reads(c)' : time'[f] # 0 /\ time'[f] <= time'[Output[c]]
    BY <1>2, <2>2, <2>3, <2>4 DEF BuildOk, BuiltOk
  <2>9. \A d \in Needs[c] : pc'[d] = "done"
    BY <1>2, <2>1 DEF BuildOk, BuiltOk
  <2> QED
    BY <1>2, <2>5, <2>6, <2>7, <2>8, <2>9 DEF BuildOk, BuiltOk
<1> QED
  BY <1>1, <1>2

(* Found up to date: nothing it was compared with is newer than the record, *)
(* so that the output is from the run that was recorded, and what that run  *)
(* read is what it was.                                                     *)
LEMMA UpToDateIsCurrent ==
  ASSUME Shape, TimesOk, MadeOk, RecordsOk, Whole, StorageOk, CacheOk, BuildOk,
         NEW c \in Command, CheckUpToDate(c)
  PROVE  DeclaredOk(c) /\ Fresh(c) /\ (~torn => Current(c))
<1> USE Constants
<1> DEFINE k == key(c)
           m == records[k].mtime
           out == Output[c]
<1>1. /\ pc[c] = "waiting" /\ \A d \in Needs[c] : pc[d] = "done"
      /\ records[k].there /\ \A f \in Compared(c) : ReadTime(f) # 0 /\ ~(ReadTime(f) > m)
  BY DEF CheckUpToDate, MayCheck, IsTimeChanged, Newer
<1>2. k \in Key /\ k[1] = c /\ k[2] = variant[c] /\ k[2] # 0
  BY Keys DEF Shape
<1>3. m \in Nat /\ \A f \in File : time[f] \in Nat
  BY <1>2, Numbers
<1>4. ASSUME NEW f \in Compared(c) PROVE time[f] # 0 /\ time[f] <= m
  <2>1. f \in File /\ (f \in Input[c] \cup MayInclude[c] \/ f = Output[c])
    BY LooksAt
  <2>2. ReadTime(f) = time[f]
    BY <1>1, <2>1, ReadsTrue
  <2> QED
    BY <1>1, <1>3, <2>1, <2>2
<1>5. Fresh(c)
  BY <1>1, <1>4 DEF Fresh
<1>6. RecordOk(k, m, records[k].deps)
  BY <1>2 DEF RecordsOk
<1>7. time[out] # 0 /\ time[out] = m /\ m # 0
  <2>1. out \in Compared(c) /\ out \in File
    BY DEF Compared
  <2>2. time[out] # 0 /\ time[out] <= m
    BY <1>4, <2>1
  <2>3. time[out] >= m
    BY <1>2, <1>6, <2>2 DEF RecordOk
  <2> QED
    BY <1>3, <2>1, <2>2, <2>3
<1>8. made[out].variant = variant[c] /\ made[out].variant # 0
  BY <1>2, <1>6, <1>7 DEF RecordOk
<1>9. ASSUME NEW f \in Compared(c), Untouched(c, f) PROVE made[out].from[f] = time[f]
  <2>1. time[f] # 0 /\ time[f] <= time[out] /\ f \in File /\ out \in File
    BY <1>4, <1>7, LooksAt
  <2> QED
    BY <1>3, <1>9, <2>1 DEF Untouched
<1>10. \A f \in Input[c] : f \in Compared(c)
  BY DEF Compared
<1>11. \A f \in Input[c] : made[out].from[f] = time[f]
  BY <1>8, <1>9, <1>10 DEF MadeOk
<1>12. ASSUME ~torn PROVE Current(c)
  <2>1. DepsOk(k, m, records[k].deps) /\ records[k].deps \subseteq known
    BY <1>2, <1>12 DEF Whole, StorageOk, PathsKnown
  <2>2. ~SourceNewer(c)
    <3>1. \A f \in Input[c] : f \in File /\ time[f] <= time[out] /\ out \in File
      BY <1>4, <1>7, <1>10
    <3> QED
      BY <1>3, <3>1 DEF SourceNewer
  <2>3. includes[c] \subseteq records[k].deps
    BY <1>2, <1>7, <2>1, <2>2 DEF DepsOk
  <2>4. includes[c] \subseteq Compared(c)
    BY <2>1, <2>3 DEF Compared, Implicit
  <2>5. \A f \in includes[c] : Untouched(c, f)
    BY <1>8, <2>2 DEF MadeOk
  <2>6. \A f \in Reads(c) : made[out].from[f] = time[f]
    BY <1>9, <1>11, <2>4, <2>5 DEF Reads
  <2> QED
    BY <1>7, <1>8, <2>6 DEF Current
<1> QED
  BY <1>5, <1>7, <1>8, <1>11, <1>12 DEF DeclaredOk

LEMMA BuildStep ==
  ASSUME IInv, Shape', TimesOk', [Next]_vars
  PROVE  BuildOk'
<1> USE Constants
<1>0. /\ Shape /\ TimesOk /\ MadeOk /\ RecordsOk /\ Whole /\ StorageOk /\ CacheOk /\ BuildOk
      /\ PathsKnown
  BY DEF IInv, StorageOk
<1>1. ASSUME NEW c \in Command, pc'[c] = "waiting" PROVE BuiltOk(c)'
  BY <1>1 DEF BuiltOk
<1>2. ASSUME phase = "off", pc' = pc, NEW c \in Command PROVE BuiltOk(c)'
  BY <1>0, <1>1, <1>2 DEF StorageOk, Idle
<1>3. ASSUME Forget, NEW c \in Command PROVE BuiltOk(c)'
  BY <1>1, <1>3 DEF Forget
<1>4. ASSUME UNCHANGED <<user, run, records, known, torn>>, NEW c \in Command
      PROVE  BuiltOk(c)'
  <2>1. ImplicitThen(key(c)) = Implicit(key(c))
    BY <1>4 DEF ImplicitThen, Implicit
  <2> QED
    BY <1>0, <1>4, <2>1, BuiltKept DEF user, run
<1>5. ASSUME NEW d \in Command, NEW c \in Command, c # d, pc[c] # "waiting", pc[d] # "done"
      PROVE  /\ Output[d] \notin Input[c] \cup MayInclude[c] \cup {Output[c]}
             /\ key(c) # key(d) /\ key(c) \in Key /\ key(d) \in Key
  BY <1>0, <1>5, ReadersWait, Keys DEF BuildOk, BuiltOk, Shape
<1>6. ASSUME NEW d \in Command, CheckNew(d), NEW c \in Command PROVE BuiltOk(c)'
  <2>1. /\ pc[d] = "waiting" /\ pc' = [pc EXCEPT ![d] = "outdated"]
        /\ records' = [records EXCEPT ![key(d)] = Inserted]
        /\ \A e \in Needs[d] : pc[e] = "done"
        /\ UNCHANGED <<user, mtime, found, known, torn>>
    BY <1>6 DEF CheckNew, MayCheck, ghosts
  <2>2. CASE c = d
    BY <1>0, <2>1, <2>2, CommandsAssumption DEF BuiltOk, Shape
  <2>3. CASE c # d
    <3>1. /\ pc'[c] = pc[c] /\ \A e \in Command : pc[e] = "done" => pc'[e] = "done"
          /\ (pc[c] # "waiting" => records'[key(c)] = records[key(c)])
      BY <1>0, <1>5, <2>1, <2>3 DEF Shape
    <3>2. pc[c] # "waiting" => ImplicitThen(key(c)) = Implicit(key(c))
      BY <2>1, <3>1 DEF ImplicitThen, Implicit
    <3> QED
      BY <1>0, <2>1, <3>1, <3>2, BuiltKept DEF user
  <2> QED
    BY <2>2, <2>3
<1>7. ASSUME NEW d \in Command, CheckOutdated(d) \/ CheckUpToDate(d), NEW c \in Command
      PROVE  BuiltOk(c)'
  <2>1. /\ pc[d] = "waiting" /\ \A e \in Needs[d] : pc[e] = "done"
        /\ \A e \in Command \ {d} : pc'[e] = pc[e] /\ mtime'[e] = mtime[e]
        /\ UNCHANGED <<user, found, records, known, torn>>
    BY <1>0, <1>7 DEF CheckOutdated, CheckUpToDate, MayCheck, Shape, memory, ghosts
  <2>2. CASE c # d
    <3>1. ImplicitThen(key(c)) = Implicit(key(c))
      BY <2>1 DEF ImplicitThen, Implicit
    <3>2. \A e \in Command : pc[e] = "done" => pc'[e] = "done"
      BY <2>1
    <3> QED
      BY <1>0, <2>1, <2>2, <3>1, <3>2, BuiltKept DEF user
  <2>3. CASE c = d /\ CheckOutdated(d)
    <3>1. pc'[c] = "outdated" /\ \A e \in Needs[c] : pc'[e] = "done"
      BY <1>0, <2>1, <2>3, CommandsAssumption, ReadersWait DEF CheckOutdated, Shape
    <3> QED
      BY <3>1 DEF BuiltOk
  <2>4. CASE c = d /\ CheckUpToDate(d)
    <3>1. pc'[c] = "done" /\ \A e \in Needs[c] : pc'[e] = "done"
      BY <1>0, <2>1, <2>4, CommandsAssumption, ReadersWait DEF CheckUpToDate, Shape
    <3>2. DeclaredOk(c) /\ Fresh(c) /\ (~torn => Current(c))
      BY <1>0, <2>4, UpToDateIsCurrent
    <3>3. DeclaredOk(c)' /\ Fresh(c)' /\ (~torn' => Current(c)')
      BY <2>1, <3>2 DEF user, DeclaredOk, Fresh, Current, Compared, Implicit, Reads, key
    <3> QED
      BY <3>1, <3>3 DEF BuiltOk
  <2> QED
    BY <1>7, <2>2, <2>3, <2>4
<1>8. ASSUME NEW d \in Command, Run(d) \/ Fail(d), NEW c \in Command, c # d PROVE BuiltOk(c)'
  <2>1. /\ pc[d] = "outdated" /\ \A e \in Command \ {d} : pc'[e] = pc[e] /\ found'[e] = found[e]
        /\ UNCHANGED <<variant, includes, mtime, records, known, torn>>
    BY <1>0, <1>8 DEF Run, Fail, Write, Shape, user, memory, ghosts
  <2>2. /\ \A f \in File : f # Output[d] => time'[f] = time[f]
        /\ \A f \in Outputs : f # Output[d] => made'[f] = made[f]
    BY <1>0, <1>8 DEF Run, Fail, Write, Shape, user
  <2>3. pc[c] # "waiting" => /\ made'[Output[c]] = made[Output[c]]
                             /\ \A f \in Input[c] \cup MayInclude[c] \cup {Output[c]} :
                                  time'[f] = time[f]
    BY <1>5, <1>8, <2>1, <2>2
  <2>4. ImplicitThen(key(c)) = Implicit(key(c))
    BY <2>1 DEF ImplicitThen, Implicit
  <2>5. \A e \in Command : pc[e] = "done" => pc'[e] = "done"
    BY <2>1
  <2> QED
    BY <1>0, <1>8, <2>1, <2>3, <2>4, <2>5, BuiltKept
<1>9. ASSUME NEW d \in Command, Fail(d) PROVE BuiltOk(d)'
  <2>1. pc[d] = "outdated" /\ pc' = [pc EXCEPT ![d] = "failed"]
    BY <1>9 DEF Fail
  <2>2. \A e \in Needs[d] : pc[e] = "done" /\ e \in Command /\ e # d
    BY <1>0, <2>1, CommandsAssumption, ReadersWait DEF BuildOk, BuiltOk
  <2>3. pc'[d] = "failed" /\ \A e \in Needs[d] : pc'[e] = "done"
    BY <1>0, <2>1, <2>2 DEF Shape
  <2> QED
    BY <2>3 DEF BuiltOk
<1>10. ASSUME NEW d \in Command, Run(d) PROVE BuiltOk(d)'
  <2>1. /\ pc[d] = "outdated" /\ pc'[d] = "ran" /\ found'[d] = includes[d]
        /\ Written(d, Made(d)) /\ UNCHANGED <<variant, includes, mtime>>
    BY <1>0, <1>10 DEF Run, Write, Written, Made, Shape
  <2>2. \A e \in Needs[d] : pc[e] = "done" /\ pc'[e] = "done"
    <3>1. \A e \in Needs[d] : pc[e] = "done" /\ e \in Command /\ e # d
      BY <1>0, <2>1, CommandsAssumption, ReadersWait DEF BuildOk, BuiltOk
    <3> QED
      BY <1>0, <1>10, <3>1 DEF Run, Shape
  <2>3. \A f \in File : time'[f] = IF f = Output[d] THEN clock + 1 ELSE time[f]
    BY <1>0, <2>1 DEF Written, Shape
  <2>4. Reads(d) \subseteq File /\ Output[d] \notin Reads(d) /\ Reads(d)' = Reads(d)
    BY <1>0, <2>1, LooksAt, ReadersWait DEF Reads
  <2>5. ASSUME NEW f \in Reads(d) PROVE time[f] # 0
    <3>1. CASE f \in Outputs
      <4>1. PICK e \in Command : f = Output[e]
        BY <3>1, ReadersWait
      <4>2. e \in Needs[d]
        BY <1>0, <4>1, LooksAt, ReadersWait
      <4> QED
        BY <1>0, <2>2, <4>1, <4>2 DEF BuildOk, BuiltOk, DeclaredOk
    <3>2. CASE f \notin Outputs
      BY <1>0, <2>4, <3>2 DEF TimesOk
    <3> QED
      BY <3>1, <3>2
  <2>6. \A f \in Reads(d) : /\ time'[f] = time[f] /\ time'[f] # 0
                            /\ time'[f] <= time'[Output[d]]
    BY <1>0, <2>3, <2>4, <2>5, Numbers DEF TimesOk
  <2>7. made'[Output[d]] = Made(d)
    BY <1>0, <2>1 DEF Written, Shape
  <2>8. /\ made'[Output[d]].variant = variant[d]
        /\ \A f \in Reads(d) : made'[Output[d]].from[f] = time[f]
    BY <2>4, <2>7 DEF Made
  <2>9. time'[Output[d]] # 0 /\ mtime'[d] <= time'[Output[d]]
    BY <1>0, <2>1, <2>3, Numbers DEF TimesOk
  <2>10. Current(d)'
    BY <2>1, <2>4, <2>6, <2>8, <2>9 DEF Current
  <2> QED
    BY <2>1, <2>2, <2>4, <2>6, <2>9, <2>10 DEF BuiltOk
<1>11. ASSUME NEW d \in Command, AfterCommand(d), NEW c \in Command PROVE BuiltOk(c)'
  <2>1. /\ pc[d] = "ran" /\ pc' = [pc EXCEPT ![d] = "done"] /\ key(d) \in Key
        /\ records' = [records EXCEPT ![key(d)] = Ended(d)]
        /\ mtime' = [mtime EXCEPT ![d] = NewTime(d)]
        /\ known' = known \cup (found[d] \ blank) /\ UNCHANGED <<user, found, torn>>
    <3>1. NewTime(d) = time[Output[d]]
      BY <1>0, <1>11, NewTimeIs DEF AfterCommand
    <3> QED
      BY <1>0, <1>11, <3>1, Keys DEF AfterCommand, Ended, Remembered, Shape, ghosts
  <2>2. CASE c # d
    <3>1. /\ pc'[c] = pc[c] /\ mtime'[c] = mtime[c]
          /\ \A e \in Command : pc[e] = "done" => pc'[e] = "done"
          /\ (pc[c] # "waiting" => key(c) \in Key /\ records'[key(c)] = records[key(c)])
      BY <1>0, <1>5, <2>1, <2>2 DEF Shape
    <3>2. ASSUME pc[c] # "waiting" PROVE ImplicitThen(key(c)) = Implicit(key(c))
      <4>1. (found[d] \ blank) \cap blank = {}
        OBVIOUS
      <4>2. records[key(c)].deps \cap (known \cup (found[d] \ blank)) = Implicit(key(c))
        BY <1>0, <3>1, <3>2, <4>1, ImplicitKept
      <4> QED
        BY <2>1, <3>1, <3>2, <4>2 DEF ImplicitThen
    <3> QED
      BY <1>0, <2>1, <3>1, <3>2, BuiltKept DEF user
  <2>3. CASE c = d
    <3>1. BuiltOk(c) /\ \A e \in Needs[c] : e \in Command /\ e # c
      BY <1>0, CommandsAssumption, ReadersWait DEF BuildOk
    <3>2. pc'[c] = "done" /\ \A e \in Needs[c] : pc'[e] = "done"
      BY <1>0, <2>1, <2>3, <3>1 DEF BuiltOk, Shape
    <3>3. Current(c) /\ found[c] = includes[c] /\ \A f \in Reads(c) :
            time[f] # 0 /\ time[f] <= time[Output[c]]
      BY <2>1, <2>3, <3>1 DEF BuiltOk
    <3>4. Current(c)' /\ DeclaredOk(c)'
      BY <2>1, <3>3 DEF Current, DeclaredOk, Reads, user
    <3>5. key(c)' = key(c) /\ records'[key(c)] = Ended(c)
      BY <1>0, <2>1, <2>3 DEF key, Shape, user
    <3>6. records'[key(c)].mtime = time[Output[c]] /\ records'[key(c)].deps = found[c]
          /\ records'[key(c)].there
      BY <3>5 DEF Ended
    <3>7. Compared(c)' \subseteq Reads(c) \cup {Output[c]}
      BY <3>3, <3>5, <3>6 DEF Compared, Implicit, Reads
    <3>8. time[Output[c]] # 0 /\ time[Output[c]] <= time[Output[c]]
      BY <1>0, <3>3, Numbers DEF Current
    <3>9. Fresh(c)'
      BY <2>1, <3>3, <3>5, <3>6, <3>7, <3>8 DEF Fresh, user
    <3> QED
      BY <3>2, <3>4, <3>9 DEF BuiltOk
  <2> QED
    BY <2>2, <2>3
<1>12. ASSUME NEW f, Edit(f) PROVE phase = "off" /\ pc' = pc
  BY <1>12 DEF Edit, run
<1>13. ASSUME NEW c, Delete(c) \/ Reconfigure(c) PROVE phase = "off" /\ pc' = pc
  BY <1>13 DEF Delete, Reconfigure, run
<1>14. CASE Load
  BY <1>2, <1>14 DEF Load, run, BuildOk
<1>15. CASE \/ LogRecord \/ LogFiles \/ CloseLogs \/ BeginSave \/ SaveFiles \/ SaveCommands
            \/ UNCHANGED vars
  <2>1. UNCHANGED <<user, run, records, known, torn>>
    BY <1>15 DEF LogRecord, LogFiles, CloseLogs, BeginSave, SaveFiles, SaveCommands, vars,
                 memory, ghosts
  <2> QED
    BY <1>4, <2>1 DEF BuildOk
<1>16. CASE EndUnchanged \/ RemoveLogs \/ Die \/ DieSavingFiles \/ DieSavingCommands
  <2>1. Forget
    BY <1>16 DEF EndUnchanged, RemoveLogs, Die, DieSavingFiles, DieSavingCommands, Crash
  <2> QED
    BY <1>3, <2>1 DEF BuildOk
<1>17. BuildOk' \/ \A c \in Command : BuiltOk(c)'
  BY <1>2, <1>6, <1>7, <1>8, <1>9, <1>10, <1>11, <1>12, <1>13, <1>14, <1>15, <1>16 DEF Next
<1> QED
  BY <1>17 DEF BuildOk
-----------------------------------------------------------------------------
(* After a build that succeeded. *)

(* A build that changed nothing leaves what it loaded.                      *)
LEMMA UnchangedSettles ==
  ASSUME Shape, StorageOk, UnchangedOk, BuildOk, phase # "off", ~changed,
         NEW c \in Command, pc[c] = "done"
  PROVE  LoadsFresh(c)
<1>1. Fresh(c) /\ key(c) \in Key
  BY Keys DEF BuildOk, BuiltOk, Shape
<1>2. records[key(c)].mtime # 0
  <2>1. time[Output[c]] # 0 /\ time[Output[c]] <= records[key(c)].mtime
    BY <1>1 DEF Fresh, Compared
  <2>2. time[Output[c]] \in Nat
    BY Numbers, Constants
  <2> QED
    BY <2>1, <2>2
<1>3. records[key(c)] = Loaded(key(c)) /\ known = Paths
  BY <1>1, <1>2 DEF UnchangedOk
<1>4. Loaded(key(c)).deps \subseteq Paths
  BY <1>1, LoadedIs
<1>5. Input[c] \cup {Output[c]} \cup Loaded(key(c)).deps \subseteq Compared(c)
  BY <1>3, <1>4 DEF Compared, Implicit
<1> QED
  BY <1>1, <1>3, <1>5 DEF Fresh, LoadsFresh

(* ... and one that was saved is loaded again.                              *)
LEMMA SavedSettles ==
  ASSUME Shape, StorageOk, BuildOk, RemoveLogs, NEW c \in Command, pc[c] = "done"
  PROVE  LoadsFresh(c)'
<1> DEFINE k == key(c)
           deps == Implicit(k) \cap dbFiles
<1>1. Fresh(c) /\ k \in Key
  BY Keys DEF BuildOk, BuiltOk, Shape
<1>2. records[k].hashed
  <2>1. time[Output[c]] # 0 /\ time[Output[c]] <= records[k].mtime
    BY <1>1 DEF Fresh, Compared
  <2>2. time[Output[c]] \in Nat
    BY Numbers, Constants
  <2>3. records[k].mtime # 0
    BY <2>1, <2>2
  <2> QED
    BY <1>1, <2>3 DEF StorageOk
<1>3. /\ dbRecords'[k] = Saved(k) /\ Saved(k) \in Record /\ Saved(k).hashed
      /\ Saved(k).there /\ Saved(k).mtime = records[k].mtime /\ Saved(k).deps = Implicit(k)
  BY <1>1, <1>2, SavedIs DEF RemoveLogs, StorageOk, Fresh
<1>4. /\ UNCHANGED <<time, dbFiles, key(c)>> /\ logRecords' = <<>> /\ DOMAIN logRecords' = {}
  BY DEF RemoveLogs, user, key
<1>5. Logged(k)' = {}
  BY <1>4 DEF Logged
<1>6. Loaded(k)' = [dbRecords'[k] EXCEPT !.deps = deps]
  BY <1>3, <1>4, <1>5 DEF Loaded
<1>7. Loaded(k)'.there /\ Loaded(k)'.mtime = records[k].mtime /\ Loaded(k)'.deps = deps
  BY <1>3, <1>6 DEF Record
<1>8. Input[c] \cup {Output[c]} \cup deps \subseteq Compared(c)
  BY DEF Compared
<1> HIDE DEF deps
<1> QED
  BY <1>1, <1>4, <1>7, <1>8 DEF Fresh, LoadsFresh

LEMMA SettledStep ==
  ASSUME IInv, [Next]_vars
  PROVE  SettledOk'
<1>0. /\ Shape /\ RecordsOk /\ StorageOk /\ UnchangedOk /\ CacheOk /\ BuildOk /\ SettledOk
  BY DEF IInv
<1> DEFINE Rests(c) == /\ pc'[c] \in {"waiting", "done"}
                       /\ IF phase' = "off" THEN LoadsFresh(c)' ELSE Fresh(c)'
<1> SUFFICES ASSUME settled', NEW c \in Command PROVE Rests(c)
  BY DEF SettledOk
<1>1. ASSUME settled, phase # "off" PROVE pc[c] \in {"waiting", "done"} /\ Fresh(c)
  BY <1>0, <1>1 DEF SettledOk
<1>2. ASSUME settled, NEW d \in Command, CheckNew(d) \/ CheckOutdated(d) PROVE FALSE
  <2>1. /\ phase = "build" /\ pc[d] = "waiting" /\ \A e \in Needs[d] : pc[e] = "done"
        /\ records[key(d)].there => \E f \in Compared(d) : Newer(f, records[key(d)].mtime)
    BY <1>2 DEF CheckNew, CheckOutdated, MayCheck, IsTimeChanged
  <2>2. Fresh(d)
    BY <1>0, <1>2, <2>1 DEF SettledOk
  <2>3. PICK f \in Compared(d) : Newer(f, records[key(d)].mtime)
    BY <2>1, <2>2 DEF Fresh
  <2>4. f \in File /\ ReadTime(f) = time[f] /\ key(d) \in Key
    BY <1>0, <2>1, LooksAt, ReadsTrue
  <2>5. time[f] \in Nat /\ records[key(d)].mtime \in Nat
    BY <1>0, <2>4, Numbers
  <2> QED
    BY <2>2, <2>3, <2>4, <2>5 DEF Fresh, Newer
<1>3. ASSUME settled, NEW d \in Command, Run(d) \/ Fail(d) \/ AfterCommand(d) PROVE FALSE
  BY <1>0, <1>3 DEF Run, Fail, AfterCommand, SettledOk
<1>4. ASSUME settled, NEW d \in Command, CheckUpToDate(d) PROVE Rests(c)
  <2>1. /\ pc'[c] \in {pc[c], "done"} /\ phase = "build" /\ phase' = "build"
        /\ UNCHANGED <<user, records, known>>
    BY <1>0, <1>4 DEF CheckUpToDate, MayCheck, Shape, memory
  <2>2. pc[c] \in {"waiting", "done"} /\ Fresh(c)
    BY <1>1, <1>4, <2>1
  <2>3. Fresh(c)'
    BY <2>1, <2>2 DEF Fresh, Compared, Implicit, key, user
  <2> QED
    BY <2>1, <2>2, <2>3
<1>5. ASSUME settled, Load PROVE Rests(c)
  <2>1. /\ pc[c] \in {"waiting", "done"} /\ LoadsFresh(c) /\ key(c) \in Key
        /\ UNCHANGED <<user, run>> /\ phase' = "build" /\ records' = [k \in Key |-> Loaded(k)]
    BY <1>0, <1>5, Keys DEF Load, SettledOk, Shape
  <2>2. key(c)' = key(c) /\ records'[key(c)] = Loaded(key(c))
    BY <2>1 DEF user, key
  <2>3. Compared(c)' \subseteq Input[c] \cup {Output[c]} \cup Loaded(key(c)).deps
    BY <2>2 DEF Compared, Implicit
  <2>4. Fresh(c)'
    BY <2>1, <2>2, <2>3 DEF Fresh, LoadsFresh, user
  <2> QED
    BY <2>1, <2>4 DEF run
<1>6. ASSUME settled, \/ LogRecord \/ LogFiles \/ CloseLogs \/ BeginSave \/ SaveFiles
                      \/ SaveCommands
      PROVE  Rests(c)
  <2>1. /\ phase # "off" /\ phase' # "off" /\ UNCHANGED <<user, pc, records, known>>
    BY <1>0, <1>6 DEF LogRecord, LogFiles, CloseLogs, BeginSave, SaveFiles, SaveCommands,
       PlanEnded, StorageOk, run, memory
  <2>2. pc[c] \in {"waiting", "done"} /\ Fresh(c)
    BY <1>1, <1>6, <2>1
  <2>3. Fresh(c)'
    BY <2>1, <2>2 DEF Fresh, Compared, Implicit, key, user
  <2> QED
    BY <2>1, <2>2, <2>3
<1>7. CASE UNCHANGED vars
  <2>1. UNCHANGED <<user, disk, phase, run, memory, ghosts>>
    BY <1>7 DEF vars
  <2>2. pc[c] \in {"waiting", "done"} /\ IF phase = "off" THEN LoadsFresh(c) ELSE Fresh(c)
    BY <1>0, <2>1 DEF SettledOk, ghosts
  <2>3. LoadsFresh(c)' = LoadsFresh(c)
    BY <2>1 DEF LoadsFresh, Loaded, Logged, key, user, disk
  <2>4. Fresh(c)' = Fresh(c)
    BY <2>1 DEF Fresh, Compared, Implicit, key, user, memory
  <2> QED
    BY <2>1, <2>2, <2>3, <2>4 DEF run
<1>8. CASE EndUnchanged
  <2>1. /\ pc[c] = "done" /\ phase # "off" /\ ~changed /\ UNCHANGED <<user, disk>>
        /\ phase' = "off" /\ pc'[c] = "waiting"
    BY <1>0, <1>8 DEF EndUnchanged, PlanEnded, AllDone, Forget
  <2>2. LoadsFresh(c)
    BY <1>0, <2>1, UnchangedSettles
  <2>3. LoadsFresh(c)' = LoadsFresh(c)
    BY <2>1 DEF LoadsFresh, Loaded, Logged, key, user, disk
  <2> QED
    BY <2>1, <2>2, <2>3
<1>9. CASE RemoveLogs
  <2>1. pc[c] = "done" /\ phase' = "off" /\ pc'[c] = "waiting"
    BY <1>9 DEF RemoveLogs, AllDone, Forget
  <2>2. LoadsFresh(c)'
    BY <1>0, <1>9, <2>1, SavedSettles
  <2> QED
    BY <2>1, <2>2
<1>10. ASSUME NEW f, Edit(f) PROVE ~settled'
  BY <1>10 DEF Edit
<1>11. ASSUME NEW d, Delete(d) \/ Reconfigure(d) PROVE ~settled'
  BY <1>11 DEF Delete, Reconfigure
<1>12. CASE Die \/ DieSavingFiles \/ DieSavingCommands
  BY <1>12 DEF Die, DieSavingFiles, DieSavingCommands, Crash
<1>13. ASSUME ~settled
       PROVE  \/ EndUnchanged \/ RemoveLogs
              \/ \E f : Edit(f)
              \/ \E d : Delete(d) \/ Reconfigure(d)
  BY <1>13 DEF Next, vars, ghosts, CheckNew, CheckOutdated, CheckUpToDate, Run, Fail,
     AfterCommand, Load, LogRecord, LogFiles, CloseLogs, BeginSave, SaveFiles, SaveCommands,
     Die, DieSavingFiles, DieSavingCommands, Crash
<1> HIDE DEF Rests
<1> QED
  BY <1>2, <1>3, <1>4, <1>5, <1>6, <1>7, <1>8, <1>9, <1>10, <1>11, <1>12, <1>13 DEF Next
-----------------------------------------------------------------------------
LEMMA InvStep == IInv /\ [Next]_vars => IInv'
<1> SUFFICES ASSUME IInv, [Next]_vars PROVE IInv'
  OBVIOUS
<1>0. /\ Shape /\ TimesOk /\ MadeOk /\ RecordsOk /\ Whole
      /\ StorageOk /\ UnchangedOk /\ CacheOk /\ BuildOk /\ SettledOk
  BY DEF IInv
<1>1. Shape'
  BY <1>0, ShapeStep
<1>2. TimesOk' /\ MadeOk' /\ RecordsOk' /\ Whole'
  BY <1>0, <1>1, TimesStep, MadeStep, RecordsStep, WholeStep
<1>3. StorageOk' /\ UnchangedOk' /\ CacheOk'
  BY <1>0, <1>1, StorageStep, UnchangedStep, CacheStep
<1>4. BuildOk' /\ SettledOk'
  BY <1>1, <1>2, BuildStep, SettledStep
<1> QED
  BY <1>1, <1>2, <1>3, <1>4 DEF IInv

LEMMA Invariant == Spec => []IInv
  BY InitInv, InvStep, PTL DEF Spec

(* An incremental build is as good as one from nothing: a command that is   *)
(* done, run or found up to date by isOutdated(), has an output made by its *)
(* present command line from the present content of all it reads, whatever  *)
(* was edited, deleted, reconfigured, failed or cut short, while no death   *)
(* tore a record; and whatever died, from its declared inputs.              *)
THEOREM IncrementalBuild == Spec => []IncrementalIsCurrent
<1>1. IInv => IncrementalIsCurrent
  <2> SUFFICES ASSUME IInv PROVE IncrementalIsCurrent
    OBVIOUS
  <2>1. TypeOK
    <3>1. \A i \in DOMAIN logRecords : logRecords[i] \in Entry
      BY DEF IInv, Shape
    <3>2. \A i \in DOMAIN queue : queue[i] \in Key /\ records[queue[i]].hashed
      BY DEF IInv, Shape, StorageOk
    <3> QED
      BY <3>1, <3>2 DEF IInv, Shape, TypeOK, Entry
  <2>2. \A c \in Command : pc[c] = "done" => DeclaredOk(c) /\ (~torn => Current(c))
    BY DEF IInv, BuildOk, BuiltOk
  <2> QED
    BY <2>1, <2>2 DEF IncrementalIsCurrent, DoneIsCurrent, SurvivesDeath, DeclaredCurrent,
                      DeclaredOk
<1> QED
  BY <1>1, Invariant, PTL

(* After a build that succeeded, one with nothing changed runs nothing: no  *)
(* record that ~CommandStorage() saves, or that load() reads, makes         *)
(* isOutdated() run a command a second time.                                *)
THEOREM SecondBuildRunsNothing == Spec => []NothingToDo
<1>1. IInv => NothingToDo
  BY DEF IInv, SettledOk, NothingToDo
<1> QED
  BY <1>1, Invariant, PTL

(* Whatever was loaded and however old the log, getImplicitInputs() finds a *)
(* path for every hash of a record, and the files of every record that is   *)
(* saved are in the list of files that is saved before it.                  *)
THEOREM RecordsKeepPaths == Spec => []RecordsHavePaths
<1>1. IInv => RecordsHavePaths
  <2> SUFFICES ASSUME IInv PROVE RecordsHavePaths
    OBVIOUS
  <2>1. StorageOk
    BY DEF IInv
  <2>2. phase # "build" => \A k \in Key : ~Queued(k)
    BY <2>1 DEF StorageOk, Queued
  <2>3. FilesListed
    BY <2>1, <2>2 DEF StorageOk, FilesListed
  <2> QED
    BY <2>1, <2>3 DEF StorageOk, RecordsHavePaths
<1> QED
  BY <1>1, Invariant, PTL
=============================================================================
