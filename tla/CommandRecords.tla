--------------------------- MODULE CommandRecords ---------------------------
(***************************************************************************)
(* What a build remembers of its commands, and what it concludes from it:  *)
(* Command::isOutdated and afterCommand (src/sw/builder/command.cpp), the  *)
(* cached times of files (file.cpp) and the command storage with its log,  *)
(* its save and its load (command_storage.cpp), over many runs of the      *)
(* program between which the user edits files, and any of which may die.   *)
(*                                                                         *)
(* Commands have one output. A clock gives every write a time of its own;  *)
(* what an output was made from is kept beside it, as ghost of its content.*)
(***************************************************************************)
EXTENDS Integers, Sequences, FiniteSets, FiniteSetsExt

CONSTANTS
  Command,
  Source,     \* files of the user that are inputs of commands
  Header,     \* files that commands find while they run: implicit inputs
  Output,     \* the file each command writes
  Input,      \* declared inputs of each command
  MayInclude, \* headers that versions of these inputs include
  Needs,      \* commands each command waits for
  Variants,   \* numbers of the command lines each command may have
  MaxTime     \* bound of the clock

Outputs == {Output[c] : c \in Command}
File == Source \cup Header \cup Outputs
Time == 0..MaxTime     \* 0: the file is missing
Variant == UNION {Variants[c] : c \in Command}
Key == {k \in Command \X Variant : k[2] \in Variants[k[1]]}

ASSUME CommandsAssumption ==
  /\ Output \in [Command -> Outputs]
  /\ \A c, d \in Command : c # d => Output[c] # Output[d]
  /\ Input \in [Command -> SUBSET (Source \cup Outputs)]
  /\ MayInclude \in [Command -> SUBSET Header]
  /\ Needs \in [Command -> SUBSET Command]
  /\ Source \cap (Header \cup Outputs) = {}
  /\ Variants \in [Command -> SUBSET (Nat \ {0})]
  /\ MaxTime \in Nat \ {0}
(* A command waits for those that write a file it may read. *)
ASSUME OrderAssumption ==
  \A c, d \in Command :
    /\ Output[d] \in Input[c] \cup MayInclude[c] => d \in Needs[c]
    /\ d \in Needs[c] => c \notin Needs[d]

VARIABLES
  \* files and the user
  clock, time, made, includes, variant,
  \* files of the storage: commands.bin.files, commands.bin and the two logs
  dbFiles, dbRecords, logFiles, logRecords,
  \* the process
  phase, pc, mtime, found, cache,
  \* its storage: records, paths by hash, hashes with an empty path, files listed, queue
  records, known, blank, listed, changed, queue, writer,
  settled,  \* the last build succeeded and nothing happened since
  torn      \* it died while a record was in the log, or saving the list of files

disk == <<dbFiles, dbRecords, logFiles, logRecords>>
user == <<clock, time, made, includes, variant>>
memory == <<records, known, blank, listed, changed, queue, writer>>
run == <<pc, mtime, found, cache>>
ghosts == <<settled, torn>>
vars == <<user, disk, phase, run, memory, ghosts>>

Unread == -1
Record == [there : BOOLEAN, hashed : BOOLEAN, mtime : Time, deps : SUBSET File]
Absent == [there |-> FALSE, hashed |-> FALSE, mtime |-> 0, deps |-> {}]
Inserted == [there |-> TRUE, hashed |-> FALSE, mtime |-> 0, deps |-> {}]
Lines == {v \in [Command -> Variant] : \A c \in Command : v[c] \in Variants[c]}
Includes == {i \in [Command -> SUBSET Header] : \A c \in Command : i[c] \subseteq MayInclude[c]}
Content == [variant : Variant \cup {0}, from : [File -> Time]]
Nothing == [variant |-> 0, from |-> [f \in File |-> 0]]

TypeOK ==
  /\ clock \in Time /\ time \in [File -> Time]
  /\ made \in [Outputs -> Content]
  /\ includes \in Includes /\ variant \in Lines
  /\ dbFiles \subseteq File /\ logFiles \subseteq File
  /\ dbRecords \in [Key -> Record]
  /\ \A i \in DOMAIN logRecords :
       logRecords[i] \in [key : Key, mtime : Time, deps : SUBSET File]
  /\ phase \in {"off", "build", "save_files", "save_commands", "remove_logs"}
  /\ pc \in [Command -> {"waiting", "outdated", "ran", "done", "failed"}]
  /\ mtime \in [Command -> Time] /\ found \in [Command -> SUBSET Header]
  /\ cache \in [File -> Time \cup {Unread}]
  /\ records \in [Key -> Record]
  /\ known \subseteq File /\ blank \subseteq File /\ known \cap blank = {}
  /\ listed \subseteq known
  /\ changed \in BOOLEAN /\ settled \in BOOLEAN /\ torn \in BOOLEAN
  /\ \A i \in DOMAIN queue : queue[i] \in Key /\ records[queue[i]].hashed
  /\ writer \in {"idle", "files", "close"}

Idle ==
  /\ pc = [c \in Command |-> "waiting"]
  /\ mtime = [c \in Command |-> 0] /\ found = [c \in Command |-> {}]
  /\ cache = [f \in File |-> Unread]
  /\ records = [k \in Key |-> Absent]
  /\ known = {} /\ blank = {} /\ listed = {} /\ changed = FALSE
  /\ queue = <<>> /\ writer = "idle"

Init ==
  /\ clock = 1 /\ time = [f \in File |-> IF f \in Outputs THEN 0 ELSE 1]
  /\ made = [f \in Outputs |-> Nothing]
  /\ includes \in Includes /\ variant \in Lines
  /\ dbFiles = {} /\ logFiles = {} /\ logRecords = <<>>
  /\ dbRecords = [k \in Key |-> Absent]
  /\ phase = "off" /\ settled = FALSE /\ torn = FALSE
  /\ Idle
-----------------------------------------------------------------------------
(* The user, between two runs. *)

(* A new version of a source may include other headers. *)
Edit(f) ==
  /\ phase = "off" /\ clock < MaxTime /\ f \in (Source \cup Header) \ Outputs
  /\ clock' = clock + 1
  /\ time' = [time EXCEPT ![f] = clock + 1]
  /\ \E i \in Includes :
       /\ \A c \in Command : f \notin Input[c] => i[c] = includes[c]
       /\ includes' = i
  /\ settled' = FALSE
  /\ UNCHANGED <<made, variant, disk, phase, run, memory, torn>>

Delete(c) ==
  /\ phase = "off" /\ time[Output[c]] # 0
  /\ time' = [time EXCEPT ![Output[c]] = 0]
  /\ made' = [made EXCEPT ![Output[c]] = Nothing]
  /\ settled' = FALSE
  /\ UNCHANGED <<clock, includes, variant, disk, phase, run, memory, torn>>

Reconfigure(c) ==
  /\ phase = "off"
  /\ \E v \in Variants[c] \ {variant[c]} : variant' = [variant EXCEPT ![c] = v]
  /\ settled' = FALSE
  /\ UNCHANGED <<clock, time, made, includes, disk, phase, run, memory, torn>>
-----------------------------------------------------------------------------
(* load(): the database, then the log. Implicit inputs whose file is not   *)
(* listed are dropped, and leave an empty path behind.                     *)

Logged(k) == {i \in DOMAIN logRecords : logRecords[i].key = k}

Loaded(k) ==
  LET deps == (IF dbRecords[k].hashed THEN dbRecords[k].deps \cap dbFiles ELSE {})
                \cup UNION {logRecords[i].deps \cap (dbFiles \cup logFiles) : i \in Logged(k)}
  IN IF Logged(k) # {}
     THEN [there |-> TRUE, hashed |-> TRUE,
           mtime |-> logRecords[Max(Logged(k))].mtime, deps |-> deps]
     ELSE IF dbRecords[k].hashed THEN [dbRecords[k] EXCEPT !.deps = deps]
     ELSE Absent

Mentioned == UNION ({dbRecords[k].deps : k \in {l \in Key : dbRecords[l].hashed}}
                      \cup {logRecords[i].deps : i \in DOMAIN logRecords})

Paths == dbFiles \cup logFiles

Load ==
  /\ phase = "off"
  /\ phase' = "build"
  /\ records' = [k \in Key |-> Loaded(k)]
  /\ known' = Paths
  /\ blank' = Mentioned \ (dbFiles \cup logFiles)
  /\ listed' = dbFiles \cup logFiles
  /\ UNCHANGED <<user, disk, run, changed, queue, writer, ghosts>>
-----------------------------------------------------------------------------
(* isOutdated() *)

ReadTime(f) == IF cache[f] = Unread THEN time[f] ELSE cache[f]
Cached(S) == [f \in File |-> IF f \in S THEN ReadTime(f) ELSE cache[f]]

Newer(f, t) == ReadTime(f) = 0 \/ ReadTime(f) > t

key(c) == <<c, variant[c]>>
(* getImplicitInputs() *)
Implicit(k) == records[k].deps \cap known
Compared_Declared(c) ==        \* mutant: implicit inputs are not compared
  Input[c] \cup {Output[c]}
Compared(c) == Input[c] \cup {Output[c]} \cup Implicit(key(c))
IsTimeChanged(c) == \E f \in Compared(c) : Newer(f, records[key(c)].mtime)

MayCheck(c) ==
  /\ phase = "build" /\ pc[c] = "waiting"
  /\ \A d \in Needs[c] : pc[d] = "done"

CheckNew(c) ==
  /\ MayCheck(c) /\ ~records[key(c)].there
  /\ records' = [records EXCEPT ![key(c)] = Inserted]
  /\ pc' = [pc EXCEPT ![c] = "outdated"]
  /\ UNCHANGED <<user, disk, phase, mtime, found, cache, known, blank, listed, changed,
                 queue, writer, ghosts>>

(* The comparison stops at the first file that decides. *)
CheckOutdated(c) ==
  /\ MayCheck(c) /\ records[key(c)].there
  /\ IsTimeChanged(c)
  /\ \E S \in SUBSET Compared(c) : cache' = Cached(S)
  /\ mtime' = [mtime EXCEPT ![c] = records[key(c)].mtime]
  /\ pc' = [pc EXCEPT ![c] = "outdated"]
  /\ UNCHANGED <<user, disk, phase, found, memory, ghosts>>

CheckUpToDate(c) ==
  /\ MayCheck(c) /\ records[key(c)].there
  /\ ~IsTimeChanged(c)
  /\ cache' = Cached(Compared(c))
  /\ mtime' = [mtime EXCEPT ![c] = records[key(c)].mtime]
  /\ pc' = [pc EXCEPT ![c] = "done"]
  /\ UNCHANGED <<user, disk, phase, found, memory, ghosts>>
-----------------------------------------------------------------------------
(* execute1() and afterCommand() *)

Reads(c) == Input[c] \cup includes[c]

Write(c, content) ==
  /\ clock < MaxTime
  /\ clock' = clock + 1
  /\ time' = [time EXCEPT ![Output[c]] = clock + 1]
  /\ made' = [made EXCEPT ![Output[c]] = content]
  /\ UNCHANGED <<includes, variant>>

Run(c) ==
  /\ phase = "build" /\ pc[c] = "outdated"
  /\ Write(c, [variant |-> variant[c],
               from |-> [f \in File |-> IF f \in Reads(c) THEN time[f] ELSE 0]])
  /\ found' = [found EXCEPT ![c] = includes[c]]
  /\ pc' = [pc EXCEPT ![c] = "ran"]
  /\ UNCHANGED <<disk, phase, mtime, cache, memory, ghosts>>

(* The program fails, before or after it wrote something. *)
Fail(c) ==
  /\ phase = "build" /\ pc[c] = "outdated"
  /\ Write(c, Nothing) \/ UNCHANGED user
  /\ pc' = [pc EXCEPT ![c] = "failed"]
  /\ UNCHANGED <<disk, phase, mtime, found, cache, memory, ghosts>>

(* Cached times once the inputs, the output and what the program found     *)
(* were registered; the output is looked at again, and so is what was      *)
(* missing when it was first looked at.                                    *)
Refreshed(c) ==
  LET old == Cached(Input[c] \cup found[c])
  IN [f \in File |-> IF f = Output[c] \/ (f \in found[c] /\ old[f] = 0)
                     THEN time[f] ELSE old[f]]

NewTime_Start(c) ==            \* mutant: the output does not count
  Max({mtime[c]} \cup {Refreshed(c)[f] : f \in Input[c]})
NewTime(c) == Max({mtime[c]} \cup {Refreshed(c)[f] : f \in Input[c] \cup {Output[c]}})

Remembered(c) == known \cup (found[c] \ blank)

AfterCommand(c) ==
  /\ phase = "build" /\ pc[c] = "ran"
  /\ cache' = Refreshed(c)
  /\ mtime' = [mtime EXCEPT ![c] = NewTime(c)]
  /\ records' = [records EXCEPT ![key(c)] =
                   [there |-> TRUE, hashed |-> TRUE, mtime |-> NewTime(c),
                    deps |-> found[c]]]
  /\ known' = Remembered(c)
  /\ changed' = TRUE
  /\ queue' = Append(queue, key(c))
  /\ pc' = [pc EXCEPT ![c] = "done"]
  /\ UNCHANGED <<user, disk, phase, found, blank, listed, writer, ghosts>>
-----------------------------------------------------------------------------
(* async_command_log(): one thread writes the record, then the files, and  *)
(* then removes both logs.                                                 *)

LogRecord ==
  /\ writer = "idle" /\ queue # <<>>
  /\ logRecords' = Append(logRecords, [key |-> Head(queue),
                                       mtime |-> records[Head(queue)].mtime,
                                       deps |-> Implicit(Head(queue))])
  /\ writer' = "files"
  /\ UNCHANGED <<user, dbFiles, dbRecords, logFiles, phase, run, records, known, blank,
                 listed, changed, queue, ghosts>>

ListedToo_No(S) == listed      \* mutant: files are logged but not kept for the save
ListedToo(S) == listed \cup S

LogFiles ==
  /\ writer = "files"
  /\ logFiles' = logFiles \cup (Implicit(Head(queue)) \ listed)
  /\ listed' = ListedToo(Implicit(Head(queue)))
  /\ writer' = "close"
  /\ UNCHANGED <<user, dbFiles, dbRecords, logRecords, phase, run, records, known, blank,
                 changed, queue, ghosts>>

CloseLogs ==
  /\ writer = "close"
  /\ logRecords' = <<>> /\ logFiles' = {}
  /\ queue' = Tail(queue)
  /\ writer' = "idle"
  /\ UNCHANGED <<user, dbFiles, dbRecords, phase, run, records, known, blank, listed,
                 changed, ghosts>>
-----------------------------------------------------------------------------
(* ~CommandStorage(): the plan has ended, with or without success; the     *)
(* writer is waited for, then everything is saved if something changed.    *)

AllDone == \A c \in Command : pc[c] = "done"

Forget ==
  /\ pc' = [c \in Command |-> "waiting"]
  /\ mtime' = [c \in Command |-> 0] /\ found' = [c \in Command |-> {}]
  /\ cache' = [f \in File |-> Unread]
  /\ records' = [k \in Key |-> Absent]
  /\ known' = {} /\ blank' = {} /\ listed' = {} /\ changed' = FALSE
  /\ queue' = <<>> /\ writer' = "idle"

PlanEnded ==
  /\ phase = "build"
  /\ \A c \in Command : pc[c] \notin {"outdated", "ran"}
  /\ queue = <<>>

EndUnchanged ==
  /\ PlanEnded /\ ~changed
  /\ phase' = "off" /\ Forget
  /\ settled' = AllDone
  /\ UNCHANGED <<user, disk, torn>>

BeginSave ==
  /\ PlanEnded /\ changed
  /\ phase' = "save_files"
  /\ UNCHANGED <<user, disk, run, memory, ghosts>>

SaveFiles ==
  /\ phase = "save_files"
  /\ dbFiles' = IF listed # {} THEN listed ELSE dbFiles
  /\ phase' = "save_commands"
  /\ UNCHANGED <<user, dbRecords, logFiles, logRecords, run, memory, ghosts>>

(* A record without hash, of a command that never ended, is left out. *)
Saved(k) ==
  IF records[k].hashed THEN [records[k] EXCEPT !.deps = Implicit(k)] ELSE Absent

SaveCommands ==
  /\ phase = "save_commands"
  /\ dbRecords' = [k \in Key |-> Saved(k)]
  /\ phase' = "remove_logs"
  /\ UNCHANGED <<user, dbFiles, logFiles, logRecords, run, memory, ghosts>>

RemoveLogs ==
  /\ phase = "remove_logs"
  /\ logFiles' = {} /\ logRecords' = <<>>
  /\ phase' = "off" /\ Forget
  /\ settled' = AllDone
  /\ UNCHANGED <<user, dbFiles, dbRecords, torn>>
-----------------------------------------------------------------------------
(* The process dies. A file that was being written has a part of it. *)

Crash ==
  /\ phase # "off"
  /\ phase' = "off" /\ Forget
  /\ settled' = FALSE
  /\ UNCHANGED user

Die == Crash /\ torn' = (torn \/ writer # "idle") /\ UNCHANGED disk

DieSavingFiles ==
  /\ Crash /\ phase = "save_files"
  /\ torn' = TRUE
  /\ dbFiles' \in SUBSET listed
  /\ UNCHANGED <<dbRecords, logFiles, logRecords>>

DieSavingCommands ==
  /\ Crash /\ phase = "save_commands"
  /\ \E S \in SUBSET Key : dbRecords' = [k \in Key |-> IF k \in S THEN Saved(k) ELSE Absent]
  /\ UNCHANGED <<dbFiles, logFiles, logRecords, torn>>
-----------------------------------------------------------------------------
Next ==
  \/ \E f \in Source \cup Header : Edit(f)
  \/ \E c \in Command :
       \/ Delete(c) \/ Reconfigure(c)
       \/ CheckNew(c) \/ CheckOutdated(c) \/ CheckUpToDate(c)
       \/ Run(c) \/ Fail(c) \/ AfterCommand(c)
  \/ Load \/ LogRecord \/ LogFiles \/ CloseLogs
  \/ EndUnchanged \/ BeginSave \/ SaveFiles \/ SaveCommands \/ RemoveLogs
  \/ Die \/ DieSavingFiles \/ DieSavingCommands

Spec == Init /\ [][Next]_vars
-----------------------------------------------------------------------------
(* Properties. *)

(* The output is what the command would make now. *)
Current(c) ==
  LET m == made[Output[c]]
  IN /\ time[Output[c]] # 0 /\ m.variant = variant[c]
     /\ \A f \in Reads(c) : m.from[f] = time[f]

(* The comment in afterCommand(), "deps are written first, only then       *)
(* command goes": a command that is done, above all one that was found up  *)
(* to date, has an output made by its present command line from the        *)
(* present content of all it reads, wherever the process died before.      *)
SurvivesDeath == \A c \in Command : phase = "build" /\ pc[c] = "done" => Current(c)

(* ... which can be relied on, whatever was edited, deleted, reconfigured, *)
(* failed or cut short, while the process never died with a record in the  *)
(* log or in the middle of the list of files: an incremental build gives   *)
(* what a build from nothing would.                                        *)
DoneIsCurrent == ~torn => SurvivesDeath

(* Wherever the process dies, nothing but implicit inputs is ever          *)
(* forgotten: the output of a command that is done exists, was made by its *)
(* present command line and from its present declared inputs.              *)
DeclaredCurrent ==
  \A c \in Command : phase = "build" /\ pc[c] = "done" =>
    LET m == made[Output[c]]
    IN /\ time[Output[c]] # 0 /\ m.variant = variant[c]
       /\ \A f \in Input[c] : m.from[f] = time[f]

(* An incremental build is as good as one from nothing, and where a death  *)
(* took implicit inputs from the records, it is still right for all inputs *)
(* that are declared.                                                      *)
IncrementalIsCurrent == TypeOK /\ DoneIsCurrent /\ DeclaredCurrent

(* After a build that succeeded, one with nothing changed runs nothing.    *)
NothingToDo ==
  settled /\ phase = "build" => \A c \in Command : pc[c] \in {"waiting", "done"}

(* Every hash of an implicit input has a path: getImplicitInputs() and     *)
(* write() never end in "no such file".                                    *)
PathsKnown == \A k \in Key : records[k].deps \subseteq known \cup blank

(* What the storage has in memory can be written and read back: the files  *)
(* of every record it will save are listed when the save begins.           *)
FilesListed ==
  phase \in {"save_files", "save_commands"} =>
    \A k \in Key : records[k].hashed => Implicit(k) \subseteq listed

(* Whatever is loaded from a database and a log of any age, records and    *)
(* paths fit together.                                                     *)
RecordsHavePaths == PathsKnown /\ FilesListed
=============================================================================
