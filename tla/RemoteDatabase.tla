--------------------------- MODULE RemoteDatabase ---------------------------
(***************************************************************************)
(* The database of a remote storage (src/sw/manager/storage_remote.cpp):   *)
(* processes of one user download the server's tables into a repository    *)
(* of files, load the files into packages.db, and open a copy of it in     *)
(* memory, by which they resolve; while the server publishes versions.     *)
(*                                                                         *)
(* A file and a table are named by the version they hold; 0 is absent or   *)
(* empty. Storages with network access and the default system settings.    *)
(***************************************************************************)
EXTENDS Integers

CONSTANTS
  Process,
  Forced,      \* processes with gForceServerDatabaseUpdate
  Table,       \* in the order of sqlite_master
  MaxVersion,  \* bound: versions the server publishes
  Way,         \* how the server is downloaded from
  None         \* nobody, nothing

ASSUME RemoteAssumption ==
  /\ Forced \subseteq Process /\ None \notin Process
  /\ MaxVersion \in Nat \ {0}
  /\ Way \in {"directory", "archive", "git"}
  /\ Table \subseteq Nat

VARIABLES
  latest,            \* the version of the server
  repository,        \* db_repo_dir: the version of each file
  recent,            \* packages.time is younger than PACKAGES_DB_REFRESH_TIME_MINUTES
  database, marked,  \* packages.db: the version of each table, and db_loaded
  updating, writing, \* who holds the lock of db_update, and the write lock of packages.db
  phase, opened,     \* of each process: what it does; whether its copy is in memory
  known, fetched,    \* the server's version it asked for, and the one it downloads
  todo, copy,        \* files or tables to come; the tables its connection sees
  mishaps            \* ghost: what happened to the updates so far

disk == <<repository, recent, database, marked>>
locks == <<updating, writing>>
memory == <<opened, known, fetched, todo, copy>>
vars == <<latest, disk, locks, memory, phase, mishaps>>

VersionFile == -1   \* db.version
File == Table \cup {VersionFile}
Versions == 0..MaxVersion
Empty == [t \in Table |-> 0]
Tables(v) == [t \in Table |-> v]

TypeOK ==
  /\ latest \in Versions
  /\ repository \in [File -> Versions] /\ recent \in BOOLEAN
  /\ database \in [Table -> Versions] /\ marked \in BOOLEAN
  /\ updating \in Process \cup {None} /\ writing \in Process \cup {None}
  /\ phase \in [Process -> {"off", "check", "lock", "wait", "download", "files",
                            "begin", "load", "mark", "open", "idle"}]
  /\ opened \in [Process -> BOOLEAN]
  /\ known \in [Process -> Versions \cup {None}] /\ fetched \in [Process -> Versions]
  /\ todo \in [Process -> SUBSET File] /\ copy \in [Process -> [Table -> Versions]]
  /\ mishaps \subseteq {"cut", "late", "race"}
  /\ writing # None => phase[writing] = "load" /\ ~opened[writing]
  /\ updating # None => phase[updating] \in {"download", "files", "begin", "load"}

Init ==
  /\ latest = 1
  /\ repository = [f \in File |-> 0] /\ recent = FALSE
  /\ database = Empty /\ marked = FALSE
  /\ updating = None /\ writing = None
  /\ phase = [p \in Process |-> "off"] /\ opened = [p \in Process |-> FALSE]
  /\ known = [p \in Process |-> None] /\ fetched = [p \in Process |-> 0]
  /\ todo = [p \in Process |-> {}] /\ copy = [p \in Process |-> Empty]
  /\ mishaps = {}
-----------------------------------------------------------------------------
Become(p, ph) == phase' = [phase EXCEPT ![p] = ph]
UsesFiles(p) == phase[p] \in {"files", "begin", "load"}
InUpdate(p) == UsesFiles(p) \/ phase[p] = "download"
Free(lock, p) == IF lock = p THEN None ELSE lock

(* The server, and time. A directory that is published into while it is     *)
(* copied gives a mixture, as two downloads at once do.                     *)
Publish ==
  /\ latest < MaxVersion /\ latest' = latest + 1
  /\ mishaps' = IF Way = "directory" /\ \E p \in Process : phase[p] = "files"
                THEN mishaps \cup {"race"} ELSE mishaps
  /\ UNCHANGED <<disk, locks, memory, phase>>

Age ==
  /\ recent /\ recent' = FALSE
  /\ UNCHANGED <<latest, repository, database, marked, locks, memory, phase, mishaps>>
-----------------------------------------------------------------------------
(* The constructor: the first one downloads and loads without the lock.     *)
Start(p) ==
  /\ phase[p] = "off" /\ Become(p, IF marked THEN "check" ELSE "download")
  /\ UNCHANGED <<latest, disk, locks, memory, mishaps>>

(* The end of updateDb(); an open storage goes on to answer from its copy.  *)
Updated(p) == Become(p, IF opened[p] THEN "idle" ELSE "open")

(* updateDb() *)
NotDue(p) ==
  /\ phase[p] = "check" /\ recent /\ p \notin Forced
  /\ Updated(p)
  /\ UNCHANGED <<latest, disk, locks, memory, mishaps>>

Due(p) == phase[p] = "check" /\ (~recent \/ p \in Forced)

Compare_Older(p, v) ==
  IF v < repository[VersionFile] THEN Become(p, "lock") ELSE Updated(p)

Compare(p, v) ==
  IF v > repository[VersionFile] THEN Become(p, "lock") ELSE Updated(p)

(* DatabaseInformation::getVersion asks once in a process; no answer is 0.  *)
GetVersion(p) ==
  /\ Due(p) /\ known[p] = None
  /\ known' = [known EXCEPT ![p] = latest] /\ Compare(p, latest)
  /\ UNCHANGED <<latest, disk, locks, opened, fetched, todo, copy, mishaps>>

GetVersionFails(p) ==
  /\ Due(p) /\ known[p] = None
  /\ known' = [known EXCEPT ![p] = 0] /\ Compare(p, 0)
  /\ UNCHANGED <<latest, disk, locks, opened, fetched, todo, copy, mishaps>>

GetVersionAgain(p) ==
  /\ Due(p) /\ known[p] # None /\ Compare(p, known[p])
  /\ UNCHANGED <<latest, disk, locks, memory, mishaps>>

TakeLock(p) == updating = None /\ updating' = p /\ Become(p, "download")

(* single_process_job: who finds it locked waits. Whether it then runs the  *)
(* job or takes it for done is not in this repository: both are allowed.    *)
Lock(p) ==
  /\ phase[p] = "lock"
  /\ \/ TakeLock(p)
     \/ updating # None /\ Become(p, "wait") /\ UNCHANGED updating
  /\ UNCHANGED <<latest, disk, writing, memory, mishaps>>

Waited(p) ==
  /\ phase[p] = "wait" /\ updating = None
  /\ TakeLock(p) \/ (Updated(p) /\ UNCHANGED updating)
  /\ UNCHANGED <<latest, disk, writing, memory, mishaps>>
-----------------------------------------------------------------------------
(* download() *)

Fetch_Known(p) ==
  /\ phase[p] = "download" /\ Become(p, "files")
  /\ fetched' = [fetched EXCEPT ![p] = IF known[p] \in {0, None} THEN latest ELSE known[p]]
  /\ todo' = [todo EXCEPT ![p] = File]
  /\ mishaps' = mishaps \cup (IF \E q \in Process : UsesFiles(q) THEN {"race"} ELSE {})
                        \cup (IF opened[p] THEN {"late"} ELSE {})
  /\ UNCHANGED <<latest, disk, locks, opened, known, copy>>

Fetch(p) ==
  /\ phase[p] = "download" /\ Become(p, "files")
  /\ fetched' = [fetched EXCEPT ![p] = latest]
  /\ todo' = [todo EXCEPT ![p] = File]
  /\ mishaps' = mishaps \cup (IF \E q \in Process : UsesFiles(q) THEN {"race"} ELSE {})
                        \cup (IF opened[p] THEN {"late"} ELSE {})
  /\ UNCHANGED <<latest, disk, locks, opened, known, copy>>

(* Files are copied one by one, in any order, over those that are there.    *)
CopyFile(p, f) ==
  /\ phase[p] = "files" /\ f \in todo[p]
  /\ repository' = [repository EXCEPT ![f] = IF Way = "directory" THEN latest ELSE fetched[p]]
  /\ todo' = [todo EXCEPT ![p] = @ \ {f}]
  /\ UNCHANGED <<latest, recent, database, marked, locks, opened, known, fetched, copy, phase,
                 mishaps>>

WriteDownloadTime_Early(p) ==
  /\ phase[p] = "files" /\ todo[p] \subseteq Table /\ Become(p, "begin")
  /\ recent' = TRUE
  /\ todo' = [todo EXCEPT ![p] = {}] /\ fetched' = [fetched EXCEPT ![p] = 0]
  /\ UNCHANGED <<latest, repository, database, marked, locks, opened, known, copy, mishaps>>

WriteDownloadTime(p) ==
  /\ phase[p] = "files" /\ todo[p] = {} /\ Become(p, "begin")
  /\ recent' = TRUE
  /\ fetched' = [fetched EXCEPT ![p] = 0]
  /\ UNCHANGED <<latest, repository, database, marked, locks, opened, known, todo, copy, mishaps>>
-----------------------------------------------------------------------------
(* load(): one transaction, of the file or of the copy in memory. *)

(* A load that failed left its transaction in the copy open. *)
Spoilt(p) == opened[p] /\ \E t \in Table : copy[p][t] = 0

Begin(p) ==
  /\ phase[p] = "begin" /\ ~Spoilt(p) /\ Become(p, "load")
  /\ todo' = [todo EXCEPT ![p] = Table]
  /\ IF opened[p] THEN UNCHANGED <<writing, copy>>
                  ELSE writing = None /\ writing' = p /\ copy' = [copy EXCEPT ![p] = database]
  /\ UNCHANGED <<latest, disk, updating, opened, known, fetched, mishaps>>

(* Tables are loaded in the order the file lists them. *)
NextTable(p, t) == t \in todo[p] /\ \A u \in todo[p] : t <= u

LoadTable_NoTransaction(p, t) ==
  /\ phase[p] = "load" /\ NextTable(p, t) /\ repository[t] # 0
  /\ copy' = [copy EXCEPT ![p][t] = repository[t]]
  /\ database' = IF opened[p] THEN database ELSE [database EXCEPT ![t] = repository[t]]
  /\ todo' = [todo EXCEPT ![p] = @ \ {t}]
  /\ UNCHANGED <<latest, repository, recent, marked, locks, opened, known, fetched, phase, mishaps>>

LoadTable(p, t) ==
  /\ phase[p] = "load" /\ NextTable(p, t) /\ repository[t] # 0
  /\ copy' = [copy EXCEPT ![p][t] = repository[t]]
  /\ todo' = [todo EXCEPT ![p] = @ \ {t}]
  /\ UNCHANGED <<latest, disk, locks, opened, known, fetched, phase, mishaps>>

Commit(p) ==
  /\ phase[p] = "load" /\ todo[p] = {}
  /\ database' = IF opened[p] THEN database ELSE copy[p]
  /\ updating' = Free(updating, p) /\ writing' = Free(writing, p)
  /\ IF updating = p THEN Updated(p) ELSE Become(p, "mark")
  /\ UNCHANGED <<latest, repository, recent, marked, memory, mishaps>>

Mark(p) ==
  /\ phase[p] = "mark" /\ Become(p, "open")
  /\ marked' = TRUE
  /\ UNCHANGED <<latest, repository, recent, database, locks, memory, mishaps>>

(* PackagesDatabase::open(true, true): what is committed, into memory. *)
Open(p) ==
  /\ phase[p] = "open" /\ Become(p, "idle")
  /\ copy' = [copy EXCEPT ![p] = database]
  /\ opened' = [opened EXCEPT ![p] = TRUE]
  /\ UNCHANGED <<latest, disk, locks, known, fetched, todo, mishaps>>
-----------------------------------------------------------------------------
(* Every resolve() updates first. *)
Resolve(p) ==
  /\ phase[p] = "idle" /\ Become(p, "check")
  /\ UNCHANGED <<latest, disk, locks, memory, mishaps>>
-----------------------------------------------------------------------------
(* An update that ends after it brought the version and before it committed *)
(* its tables.                                                              *)
Interrupted(p) ==
  mishaps' = IF phase[p] \in {"begin", "load"} \/ (phase[p] = "files" /\ VersionFile \notin todo[p])
             THEN mishaps \cup {"cut"} ELSE mishaps

EndsAs(p, ph) ==
  /\ Become(p, ph) /\ Interrupted(p)
  /\ writing' = Free(writing, p)
  /\ opened' = [opened EXCEPT ![p] = @ /\ ph # "off"]
  /\ known' = [known EXCEPT ![p] = IF ph = "off" THEN None ELSE @]
  /\ todo' = [todo EXCEPT ![p] = {}] /\ fetched' = [fetched EXCEPT ![p] = 0]

(* The process ends, at rest or in the midst of anything: what it held is   *)
(* released, an open transaction is rolled back.                            *)
Exit(p) ==
  /\ phase[p] # "off" /\ EndsAs(p, "off")
  /\ updating' = Free(updating, p)
  /\ copy' = [copy EXCEPT ![p] = Empty]
  /\ UNCHANGED <<latest, disk>>

AfterThrow(p, tables) ==
  copy' = [copy EXCEPT ![p] = IF opened[p] THEN tables ELSE Empty]

(* An exception of download() or load() fails the request, and in the       *)
(* constructor the process.                                                 *)
Throws(p) ==
  /\ EndsAs(p, IF opened[p] THEN "idle" ELSE "off")
  /\ updating' = Free(updating, p)
  /\ UNCHANGED latest

DownloadFails(p) ==
  /\ phase[p] \in {"download", "files"} /\ Throws(p) /\ AfterThrow(p, copy[p])
  /\ UNCHANGED disk

(* When git fails the repository is removed. Nothing creates its directory  *)
(* again, so that both git and the archive it is to be taken from fail too. *)
GitFails(p) ==
  /\ phase[p] = "download" /\ Way = "git" /\ Throws(p) /\ AfterThrow(p, copy[p])
  /\ repository' = [f \in File |-> 0]
  /\ UNCHANGED <<recent, database, marked>>

BeginFails(p) ==
  phase[p] = "begin" /\ Spoilt(p) /\ Throws(p) /\ AfterThrow(p, copy[p]) /\ UNCHANGED disk

(* "Cannot open file": the table was emptied before. *)
LoadFails(p, t) ==
  /\ phase[p] = "load" /\ NextTable(p, t) /\ repository[t] = 0 /\ Throws(p)
  /\ AfterThrow(p, [copy[p] EXCEPT ![t] = 0])
  /\ UNCHANGED disk
-----------------------------------------------------------------------------
Update(p) ==
  \/ NotDue(p) \/ GetVersion(p) \/ GetVersionAgain(p) \/ Lock(p) \/ Waited(p)
  \/ Fetch(p) \/ (\E f \in File : CopyFile(p, f)) \/ WriteDownloadTime(p)
  \/ Begin(p) \/ BeginFails(p) \/ (\E t \in Table : LoadTable(p, t) \/ LoadFails(p, t))
  \/ Commit(p) \/ Mark(p) \/ Open(p)

Failure(p) == GetVersionFails(p) \/ DownloadFails(p) \/ GitFails(p)

Next ==
  \/ Publish \/ Age
  \/ \E p \in Process : Start(p) \/ Update(p) \/ Failure(p) \/ Resolve(p) \/ Exit(p)

Spec == Init /\ [][Next]_vars

(* Processes are run, come to their end and are started again; the network  *)
(* is not down forever, and time passes.                                    *)
Fairness ==
  /\ WF_vars(Age)
  /\ \A p \in Process :
       /\ WF_vars(Start(p)) /\ WF_vars(Update(p))
       /\ SF_vars(phase[p] = "idle" /\ Exit(p)) /\ SF_vars(GetVersion(p))

FairSpec == Spec /\ Fairness
-----------------------------------------------------------------------------
Whole(tables) == \E v \in Versions : tables = Tables(v)

(* The file and every copy that requests are answered from hold the tables  *)
(* of one version, whoever writes and reads them at the same time, as long  *)
(* as no two downloads ran at once and no load into the copy failed.        *)
OneVersion ==
  "race" \notin mishaps =>
    /\ Whole(database)
    /\ \A p \in Process : phase[p] = "idle" => Whole(copy[p]) \/ Spoilt(p)

(* No request is answered from a mixture of two versions of the tables.     *)
TablesAreWhole == TypeOK /\ OneVersion

(* Between the updates the database is at the version of the repository, as *)
(* long as no update was cut, and none was made by an open storage: those   *)
(* leave a new repository with an old database, which no process loads      *)
(* before the server's next version. (A repository that git lost has none.) *)
InStep ==
  (\A p \in Process : ~InUpdate(p)) =>
    repository[VersionFile] = 0 \/ database = Tables(repository[VersionFile])

UpToDate == mishaps = {} => InStep

(* The database never goes back to an older version, as long as no two      *)
(* downloads ran at once.                                                   *)
NeverBack ==
  [][mishaps' \cap {"race"} = {} => \A t \in Table : database'[t] >= database[t]]_vars

FailsOrDies == \E p \in Process : phase[p] # "idle" /\ (Failure(p) \/ Exit(p))

(* As long as no update is cut or made by an open storage, and failures and *)
(* deaths come to an end, the database gets the server's last version.      *)
CatchesUp ==
  [](mishaps = {}) /\ <>[][~FailsOrDies]_vars => <>[](database = Tables(latest))
==============================================================================
