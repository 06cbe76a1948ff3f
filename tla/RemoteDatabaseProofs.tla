------------------------ MODULE RemoteDatabaseProofs -------------------------
(***************************************************************************)
(* Proofs about RemoteDatabase for any number of processes, tables and     *)
(* versions, and every way of downloading: requests are answered from the  *)
(* tables of one version, and the database never goes back.                *)
(***************************************************************************)
EXTENDS RemoteDatabase, TLAPS

PhaseNames == {"off", "check", "lock", "wait", "download", "files",
               "begin", "load", "mark", "open", "idle"}

IdleIsOpen == \A p \in Process : phase[p] = "idle" => opened[p]

(* What p downloads. *)
Source(p) == IF Way = "directory" THEN latest ELSE fetched[p]

(* While there was no race one process at most uses the files.              *)
Alone == \A p, q \in Process : UsesFiles(p) /\ UsesFiles(q) => p = q

(* The files p has copied are of the version it downloads, unless the git   *)
(* of another process removed them, and no table is newer.                  *)
Copied(p) ==
  phase[p] = "files" =>
    /\ Source(p) \in Versions /\ Source(p) <= latest
    /\ \A t \in Table : database[t] <= Source(p)
    /\ \A f \in File \ todo[p] : repository[f] \in {0, Source(p)}

(* What p loads is of one version v, which is not older than the database.  *)
LoadedFrom(p, v) ==
  /\ v <= latest
  /\ \A t \in Table :
       /\ database[t] <= v /\ repository[t] \in {0, v}
       /\ phase[p] = "load" /\ t \notin todo[p] => copy[p][t] = v
Loaded(p) == phase[p] \in {"begin", "load"} => \E v \in Versions : LoadedFrom(p, v)

(* The copy of an open storage, unless it is being loaded into.             *)
Readable(p) == opened[p] /\ phase[p] # "load" => Whole(copy[p]) \/ Spoilt(p)

Ordered ==
  /\ Alone /\ Whole(database)
  /\ \A t \in Table : database[t] <= latest
  /\ \A p \in Process : Copied(p) /\ Loaded(p) /\ Readable(p)

IInv == TypeOK /\ IdleIsOpen /\ ("race" \notin mishaps => Ordered)

LEMMA InitInv == Init => IInv
<1> SUFFICES ASSUME Init PROVE IInv
  OBVIOUS
<1> USE RemoteAssumption DEF Init, Versions, File, Empty
<1>0. 0 \in Versions /\ 1 \in Versions
  OBVIOUS
<1>1. TypeOK /\ IdleIsOpen
  BY <1>0 DEF TypeOK, IdleIsOpen
<1>2. Whole(database)
  <2>1. database = Tables(0)
    BY DEF Tables
  <2> QED
    BY <1>0, <2>1 DEF Whole
<1>3. Alone /\ \A p \in Process : Copied(p) /\ Loaded(p) /\ Readable(p)
  BY DEF Alone, Copied, Loaded, Readable, UsesFiles
<1> QED
  BY <1>1, <1>2, <1>3 DEF IInv, Ordered

(* A step of p between its updates, or into one whose lock it takes. *)
LEMMA TurnStep ==
  ASSUME TypeOK, IdleIsOpen, NEW p \in Process, NEW ph, ph \in PhaseNames,
         ph = "idle" => opened[p],
         phase[p] \notin {"download", "files", "begin", "load"},
         phase' = [phase EXCEPT ![p] = ph],
         updating' = updating \/ (updating' = p /\ ph = "download"),
         known' \in [Process -> Versions \cup {None}],
         UNCHANGED <<latest, disk, writing, opened, fetched, todo, copy, mishaps>>
  PROVE  TypeOK' /\ IdleIsOpen'
<1> USE DEF TypeOK, IdleIsOpen, disk, PhaseNames
<1>1. phase' \in [Process -> PhaseNames] /\ IdleIsOpen'
  OBVIOUS
<1>2. writing' # None => phase'[writing'] = "load" /\ ~opened'[writing']
  OBVIOUS
<1>3. updating' # None => phase'[updating'] \in {"download", "files", "begin", "load"}
  OBVIOUS
<1> QED
  BY <1>1, <1>2, <1>3 DEF Versions, File

(* Every step keeps the types, and the lock with who is in the midst of an  *)
(* update.                                                                 *)
LEMMA TypeStep == ASSUME TypeOK, IdleIsOpen, [Next]_vars PROVE TypeOK' /\ IdleIsOpen'
<1> USE RemoteAssumption DEF TypeOK, IdleIsOpen, Versions, File, VersionFile, Empty
<1>1. CASE UNCHANGED vars
  BY <1>1 DEF vars, disk, locks, memory
<1>2. CASE Publish
  BY <1>2 DEF Publish, disk, locks, memory
<1>3. CASE Age
  BY <1>3 DEF Age, locks, memory
<1>4. ASSUME NEW p \in Process, Start(p) \/ Resolve(p) \/ Mark(p)
             \/ NotDue(p) \/ GetVersion(p) \/ GetVersionFails(p) \/ GetVersionAgain(p)
             \/ Lock(p) \/ Waited(p)
      PROVE  TypeOK' /\ IdleIsOpen'
  <2>1. CASE Start(p)
    BY <2>1, TurnStep DEF Start, Become, locks, memory, PhaseNames
  <2>2. CASE Resolve(p)
    BY <2>2, TurnStep DEF Resolve, Become, locks, memory, PhaseNames
  <2>3. CASE Mark(p)
    BY <2>3 DEF Mark, Become, locks, memory
  <2>4. CASE NotDue(p)
    BY <2>4, TurnStep DEF NotDue, Updated, Become, locks, memory, PhaseNames
  <2>5. CASE GetVersion(p)
    BY <2>5, TurnStep DEF GetVersion, Due, Compare, Updated, Become, locks, PhaseNames
  <2>6. CASE GetVersionFails(p)
    <3>1. known' \in [Process -> Versions \cup {None}]
      BY <2>6 DEF GetVersionFails
    <3> QED
      BY <2>6, <3>1, TurnStep DEF GetVersionFails, Due, Compare, Updated, Become, locks, PhaseNames
  <2>7. CASE GetVersionAgain(p)
    BY <2>7, TurnStep DEF GetVersionAgain, Due, Compare, Updated, Become, locks, memory, PhaseNames
  <2>8. CASE Lock(p)
    BY <2>8, TurnStep DEF Lock, TakeLock, Become, memory, PhaseNames
  <2>9. CASE Waited(p)
    BY <2>9, TurnStep DEF Waited, TakeLock, Updated, Become, memory, PhaseNames
  <2> QED
    BY <1>4, <2>1, <2>2, <2>3, <2>4, <2>5, <2>6, <2>7, <2>8, <2>9
<1>6. ASSUME NEW p \in Process, Fetch(p) PROVE TypeOK' /\ IdleIsOpen'
  BY <1>6 DEF Fetch, Become, disk, locks
<1>7. ASSUME NEW p \in Process, NEW f \in File, CopyFile(p, f) PROVE TypeOK' /\ IdleIsOpen'
  BY <1>7 DEF CopyFile, locks
<1>8. ASSUME NEW p \in Process, WriteDownloadTime(p) PROVE TypeOK' /\ IdleIsOpen'
  BY <1>8 DEF WriteDownloadTime, Become, locks
<1>9. ASSUME NEW p \in Process, Begin(p) PROVE TypeOK' /\ IdleIsOpen'
  BY <1>9 DEF Begin, Become, disk
<1>10. ASSUME NEW p \in Process, NEW t \in Table, LoadTable(p, t) PROVE TypeOK' /\ IdleIsOpen'
  BY <1>10 DEF LoadTable, disk, locks
<1>11. ASSUME NEW p \in Process, Commit(p) PROVE TypeOK' /\ IdleIsOpen'
  BY <1>11 DEF Commit, Free, Updated, Become, memory
<1>12. ASSUME NEW p \in Process, Open(p) PROVE TypeOK' /\ IdleIsOpen'
  BY <1>12 DEF Open, Become, disk, locks
<1>13. ASSUME NEW p \in Process, Exit(p) PROVE TypeOK' /\ IdleIsOpen'
  BY <1>13 DEF Exit, EndsAs, Interrupted, Free, Become, disk
<1>5. ASSUME NEW p \in Process, DownloadFails(p) PROVE TypeOK' /\ IdleIsOpen'
  BY <1>5 DEF DownloadFails, Throws, AfterThrow, EndsAs, Interrupted, Free, Become, disk
<1>14. ASSUME NEW p \in Process, BeginFails(p) PROVE TypeOK' /\ IdleIsOpen'
  BY <1>14 DEF BeginFails, Throws, AfterThrow, EndsAs, Interrupted, Free, Become, disk
<1>15. ASSUME NEW p \in Process, GitFails(p) PROVE TypeOK' /\ IdleIsOpen'
  BY <1>15 DEF GitFails, Throws, AfterThrow, EndsAs, Interrupted, Free, Become
<1>16. ASSUME NEW p \in Process, NEW t \in Table, LoadFails(p, t) PROVE TypeOK' /\ IdleIsOpen'
  BY <1>16 DEF LoadFails, Throws, AfterThrow, EndsAs, Interrupted, Free, Become, disk
<1> QED
  BY <1>1, <1>2, <1>3, <1>4, <1>5, <1>6, <1>7, <1>8, <1>9, <1>10, <1>11, <1>12, <1>13, <1>14, <1>15, <1>16
  DEF Next, Update, Failure
-----------------------------------------------------------------------------
Same(q) ==
  /\ phase'[q] = phase[q] /\ opened'[q] = opened[q] /\ fetched'[q] = fetched[q]
  /\ todo'[q] = todo[q] /\ copy'[q] = copy[q]

(* A step of p: only who alone uses the files changes them or the tables,   *)
(* except that files may be removed, and nobody begins to use them beside   *)
(* another.                                                                 *)
LEMMA OwnStep ==
  ASSUME TypeOK, Ordered, NEW p \in Process,
         \A q \in Process \ {p} : Same(q),
         latest' = latest,
         \/ UsesFiles(p)
         \/ database' = database /\ \A f \in File : repository'[f] \in {0, repository[f]},
         Whole(database'), \A t \in Table : database'[t] <= latest,
         UsesFiles(p)' => UsesFiles(p) \/ \A q \in Process : ~UsesFiles(q),
         Copied(p)', Loaded(p)', Readable(p)'
  PROVE  Ordered'
<1>1. Alone'
  BY DEF Ordered, Alone, UsesFiles, Same
<1>2. ASSUME NEW q \in Process, q # p PROVE Copied(q)' /\ Loaded(q)' /\ Readable(q)'
  <2>1. Same(q)
    BY <1>2
  <2>2. Copied(q) /\ Loaded(q) /\ Readable(q)
    BY DEF Ordered
  <2>3. Readable(q)'
    BY <2>1, <2>2 DEF Readable, Same, Spoilt, Whole
  <2>4. CASE ~UsesFiles(q)
    BY <2>1, <2>3, <2>4 DEF Copied, Loaded, UsesFiles, Same
  <2>5. CASE UsesFiles(q)
    <3>1. database' = database /\ \A f \in File : repository'[f] \in {0, repository[f]}
      BY <1>2, <2>5 DEF Ordered, Alone
    <3>2. Copied(q)'
      BY <2>1, <2>2, <3>1 DEF Copied, Same, Source
    <3>3. Loaded(q)'
      <4> SUFFICES ASSUME phase[q] \in {"begin", "load"}
                   PROVE  \E v \in Versions : LoadedFrom(q, v)'
        BY <2>1 DEF Loaded, Same
      <4>1. PICK v \in Versions : LoadedFrom(q, v)
        BY <2>2 DEF Loaded
      <4>2. LoadedFrom(q, v)'
        BY <2>1, <3>1, <4>1 DEF LoadedFrom, Same, File
      <4> QED
        BY <4>2
    <3> QED
      BY <2>3, <3>2, <3>3
  <2> QED
    BY <2>4, <2>5
<1> QED
  BY <1>1, <1>2 DEF Ordered

(* p neither is nor gets where it uses the files. *)
LEMMA QuietStep ==
  ASSUME TypeOK, Ordered, NEW p \in Process,
         \A q \in Process \ {p} : Same(q),
         latest' = latest, database' = database,
         \A f \in File : repository'[f] \in {0, repository[f]},
         phase'[p] \notin {"files", "begin", "load"},
         Readable(p)'
  PROVE  Ordered'
<1>1. Copied(p)' /\ Loaded(p)' /\ ~UsesFiles(p)'
  BY DEF Copied, Loaded, UsesFiles
<1>2. Whole(database') /\ \A t \in Table : database'[t] <= latest
  BY DEF Ordered
<1> QED
  BY <1>1, <1>2, OwnStep

(* Nothing that happened is forgotten. *)
LEMMA MishapsStay == ASSUME [Next]_vars PROVE mishaps \subseteq mishaps'
<1>1. CASE Publish \/ Age \/ UNCHANGED vars
  BY <1>1 DEF vars, Publish, Age
<1>2. ASSUME NEW p \in Process, Throws(p) \/ Exit(p) PROVE mishaps \subseteq mishaps'
  BY <1>2 DEF Throws, Exit, EndsAs, Interrupted
<1>3. ASSUME NEW p \in Process, Failure(p) \/ BeginFails(p)
             \/ \E t \in Table : LoadFails(p, t)
      PROVE  mishaps \subseteq mishaps'
  BY <1>2, <1>3 DEF Failure, GetVersionFails, DownloadFails, GitFails, BeginFails, LoadFails
<1>4. ASSUME NEW p \in Process, Start(p) \/ Resolve(p) \/ Exit(p)
      PROVE  mishaps \subseteq mishaps'
  BY <1>2, <1>4 DEF Start, Resolve
<1>5. ASSUME NEW p \in Process, Update(p) PROVE mishaps \subseteq mishaps'
  BY <1>3, <1>5 DEF Update, NotDue, GetVersion, GetVersionAgain, Lock, Waited, Fetch, CopyFile,
                    WriteDownloadTime, Begin, LoadTable, Commit, Mark, Open
<1> QED
  BY <1>1, <1>3, <1>4, <1>5 DEF Next

LEMMA OrderedStep ==
  ASSUME TypeOK, IdleIsOpen, [Next]_vars, "race" \notin mishaps', "race" \notin mishaps => Ordered
  PROVE  Ordered'
<1> USE RemoteAssumption
<1>0. Ordered /\ \A p \in Process : Copied(p) /\ Loaded(p) /\ Readable(p)
  <2>1. mishaps \subseteq mishaps'
    BY MishapsStay
  <2> QED
    BY <2>1 DEF Ordered
<1>1. CASE UNCHANGED vars
  BY <1>0, <1>1 DEF vars, disk, locks, memory, Ordered, Alone, Copied, Loaded, LoadedFrom, Readable,
     UsesFiles, Source, Whole, Spoilt
<1>2. CASE Publish
  <2>1. Way = "directory" => \A p \in Process : phase[p] # "files"
    BY <1>2 DEF Publish
  <2>2. latest <= latest'
    BY <1>2 DEF Publish, TypeOK, Versions
  <2>3. Alone' /\ Whole(database)'
    BY <1>0, <1>2 DEF Publish, disk, memory, Ordered, Alone, UsesFiles, Whole
  <2>4. \A t \in Table : database'[t] <= latest'
    BY <1>0, <1>2 DEF Publish, disk, TypeOK, Ordered, Versions
  <2>5. ASSUME NEW p \in Process PROVE Copied(p)' /\ Loaded(p)' /\ Readable(p)'
    <3>1. Copied(p)'
      BY <1>0, <1>2, <2>1 DEF Publish, disk, memory, Copied, Source, TypeOK, Versions
    <3>2. Loaded(p)'
      BY <1>0, <1>2 DEF Publish, disk, memory, Loaded, LoadedFrom, TypeOK, Versions
    <3>3. Readable(p)'
      BY <1>0, <1>2 DEF Publish, disk, memory, Readable, Spoilt
    <3> QED
      BY <3>1, <3>2, <3>3
  <2> QED
    BY <2>3, <2>4, <2>5 DEF Ordered
<1>3. CASE Age
  BY <1>0, <1>3 DEF Age, locks, memory, Ordered, Alone, Copied, Loaded, LoadedFrom, Readable,
     UsesFiles, Source, Whole, Spoilt
<1>4. ASSUME NEW p \in Process, Start(p) \/ Resolve(p) \/ Mark(p)
             \/ NotDue(p) \/ GetVersion(p) \/ GetVersionFails(p) \/ GetVersionAgain(p)
             \/ Lock(p) \/ Waited(p)
      PROVE  Ordered'
  <2>1. \A q \in Process \ {p} : Same(q)
    BY <1>4 DEF Same, TypeOK, disk, memory, Start, Resolve, Mark, NotDue, GetVersion, GetVersionFails,
       GetVersionAgain, Lock, Waited, TakeLock, Compare, Updated, Become
  <2>2. /\ UNCHANGED <<latest, database, repository, opened, copy>>
        /\ phase'[p] \notin {"files", "begin", "load"} /\ phase[p] # "load"
    BY <1>4 DEF TypeOK, disk, memory, Start, Resolve, Mark, NotDue, GetVersion, GetVersionFails,
       GetVersionAgain, Due, Lock, Waited, TakeLock, Compare, Updated, Become
  <2>3. Readable(p)'
    BY <1>0, <2>2 DEF Readable, Spoilt
  <2> QED
    BY <1>0, <2>1, <2>2, <2>3, QuietStep
<1>5. ASSUME NEW p \in Process, Fetch(p) PROVE Ordered'
  <2>1. \A q \in Process \ {p} : Same(q)
    BY <1>5 DEF Fetch, Same, TypeOK, Become
  <2>2. \A q \in Process : ~UsesFiles(q)
    BY <1>5 DEF Fetch
  <2>3. Copied(p)'
    BY <1>0, <1>5 DEF Fetch, Copied, Source, TypeOK, disk, Ordered, Versions
  <2>4. Loaded(p)' /\ Readable(p)'
    BY <1>0, <1>5 DEF Fetch, Become, Loaded, Readable, Spoilt, TypeOK
  <2> QED
    BY <1>0, <1>5, <2>1, <2>2, <2>3, <2>4, OwnStep DEF Fetch, disk, Ordered
<1>6. ASSUME NEW p \in Process, NEW f \in File, CopyFile(p, f) PROVE Ordered'
  <2>1. \A q \in Process \ {p} : Same(q)
    BY <1>6 DEF CopyFile, Same, TypeOK
  <2>2. Copied(p)'
    BY <1>0, <1>6 DEF CopyFile, Copied, Source, TypeOK
  <2>3. UsesFiles(p) /\ Loaded(p)' /\ Readable(p)'
    BY <1>0, <1>6 DEF CopyFile, UsesFiles, Loaded, Readable, Spoilt
  <2> QED
    BY <1>0, <1>6, <2>1, <2>2, <2>3, OwnStep DEF CopyFile, Ordered
<1>7. ASSUME NEW p \in Process, WriteDownloadTime(p) PROVE Ordered'
  <2>1. \A q \in Process \ {p} : Same(q)
    BY <1>7 DEF WriteDownloadTime, Same, TypeOK, Become
  <2>0. PICK v \in Versions : v = Source(p)
    BY <1>0, <1>7 DEF WriteDownloadTime, Copied
  <2>2. LoadedFrom(p, v)'
    BY <1>0, <1>7, <2>0 DEF WriteDownloadTime, Become, Copied, LoadedFrom, TypeOK, File
  <2>4. Loaded(p)'
    BY <2>2 DEF Loaded
  <2>3. UsesFiles(p) /\ Copied(p)' /\ Readable(p)'
    BY <1>0, <1>7 DEF WriteDownloadTime, Become, UsesFiles, Copied, Readable, Spoilt, TypeOK
  <2> QED
    BY <1>0, <1>7, <2>1, <2>3, <2>4, OwnStep DEF WriteDownloadTime, Ordered
<1>8. ASSUME NEW p \in Process, Begin(p) PROVE Ordered'
  <2>1. \A q \in Process \ {p} : Same(q)
    BY <1>8 DEF Begin, Same, TypeOK, Become
  <2>2. PICK v \in Versions : LoadedFrom(p, v)
    BY <1>0, <1>8 DEF Begin, Loaded
  <2>3. LoadedFrom(p, v)'
    BY <1>8, <2>2 DEF Begin, Become, LoadedFrom, TypeOK, disk
  <2>4. UsesFiles(p) /\ Copied(p)' /\ Readable(p)' /\ Loaded(p)'
    BY <1>8, <2>3 DEF Begin, Become, UsesFiles, Copied, Readable, Loaded, TypeOK
  <2> QED
    BY <1>0, <1>8, <2>1, <2>4, OwnStep DEF Begin, disk, Ordered
<1>9. ASSUME NEW p \in Process, NEW t \in Table, LoadTable(p, t) PROVE Ordered'
  <2>1. \A q \in Process \ {p} : Same(q)
    BY <1>9 DEF LoadTable, Same, TypeOK
  <2>2. PICK v \in Versions : LoadedFrom(p, v)
    BY <1>0, <1>9 DEF LoadTable, Loaded
  <2>3. LoadedFrom(p, v)'
    BY <1>9, <2>2 DEF LoadTable, LoadedFrom, TypeOK, disk
  <2>4. UsesFiles(p) /\ Copied(p)' /\ Readable(p)' /\ Loaded(p)'
    BY <1>9, <2>3 DEF LoadTable, UsesFiles, Copied, Readable, Loaded
  <2> QED
    BY <1>0, <1>9, <2>1, <2>4, OwnStep DEF LoadTable, disk, Ordered
<1>10. ASSUME NEW p \in Process, Commit(p) PROVE Ordered'
  <2>1. \A q \in Process \ {p} : Same(q)
    BY <1>10 DEF Commit, Same, TypeOK, Become, Updated, memory
  <2>2. PICK v \in Versions : LoadedFrom(p, v)
    BY <1>0, <1>10 DEF Commit, Loaded
  <2>3. copy[p] = Tables(v) /\ copy' = copy
    BY <1>10, <2>2 DEF Commit, LoadedFrom, TypeOK, Tables, memory
  <2>4. Whole(database') /\ \A t \in Table : database'[t] <= latest
    BY <1>0, <1>10, <2>2, <2>3 DEF Commit, Whole, LoadedFrom, Tables, Ordered
  <2>5. UsesFiles(p) /\ phase'[p] \in {"idle", "open", "mark"}
    BY <1>10 DEF Commit, UsesFiles, Updated, Become, TypeOK
  <2>6. Copied(p)' /\ Loaded(p)' /\ Readable(p)' /\ ~UsesFiles(p)'
    BY <2>3, <2>5 DEF Copied, Loaded, Readable, UsesFiles, Whole
  <2> QED
    BY <1>0, <1>10, <2>1, <2>4, <2>5, <2>6, OwnStep DEF Commit
<1>11. ASSUME NEW p \in Process, Open(p) PROVE Ordered'
  <2>1. \A q \in Process \ {p} : Same(q)
    BY <1>11 DEF Open, Same, TypeOK, Become
  <2>2. Readable(p)' /\ phase'[p] = "idle"
    BY <1>0, <1>11 DEF Open, Become, Readable, Ordered, TypeOK
  <2> QED
    BY <1>0, <1>11, <2>1, <2>2, QuietStep DEF Open, disk
<1>12. ASSUME NEW p \in Process, NEW ph \in {"idle", "off"}, EndsAs(p, ph),
              UNCHANGED <<latest, database>>, \A f \in File : repository'[f] \in {0, repository[f]},
              copy' = [copy EXCEPT ![p] = copy'[p]], Readable(p)'
       PROVE  Ordered'
  <2>1. \A q \in Process \ {p} : Same(q)
    BY <1>12 DEF EndsAs, Same, TypeOK, Become
  <2>2. phase'[p] \notin {"files", "begin", "load"}
    BY <1>12 DEF EndsAs, Become, TypeOK
  <2> QED
    BY <1>0, <1>12, <2>1, <2>2, QuietStep
<1>13. ASSUME NEW p \in Process, Exit(p) PROVE Ordered'
  <2>1. Readable(p)'
    BY <1>13 DEF Exit, EndsAs, Readable, TypeOK
  <2> QED
    BY <1>12, <1>13, <2>1 DEF Exit, disk, TypeOK
<1>14. ASSUME NEW p \in Process, DownloadFails(p) \/ BeginFails(p) \/ GitFails(p) PROVE Ordered'
  <2>1. PICK ph \in {"idle", "off"} : EndsAs(p, ph)
    BY <1>14 DEF DownloadFails, BeginFails, GitFails, Throws
  <2>2. /\ UNCHANGED <<latest, database>>
        /\ \A f \in File : repository'[f] \in {0, repository[f]}
    BY <1>14 DEF DownloadFails, BeginFails, GitFails, Throws, disk, TypeOK
  <2>3. /\ phase[p] # "load"
        /\ copy' = [copy EXCEPT ![p] = IF opened[p] THEN copy[p] ELSE Empty]
    BY <1>14 DEF DownloadFails, BeginFails, GitFails, AfterThrow
  <2>4. opened'[p] => opened[p]
    BY <2>1 DEF EndsAs, TypeOK
  <2>5. Readable(p)'
    BY <1>0, <2>3, <2>4 DEF Readable, Spoilt, TypeOK
  <2>6. copy' = [copy EXCEPT ![p] = copy'[p]]
    BY <2>3 DEF TypeOK
  <2> QED
    BY <1>12, <2>1, <2>2, <2>5, <2>6
<1>15. ASSUME NEW p \in Process, NEW t \in Table, LoadFails(p, t) PROVE Ordered'
  <2>1. PICK ph \in {"idle", "off"} : EndsAs(p, ph)
    BY <1>15 DEF LoadFails, Throws
  <2>2. copy' = [copy EXCEPT ![p] = IF opened[p] THEN [copy[p] EXCEPT ![t] = 0] ELSE Empty]
    BY <1>15 DEF LoadFails, AfterThrow
  <2>3. opened'[p] => opened[p]
    BY <2>1 DEF EndsAs, TypeOK
  <2>4. Readable(p)'
    BY <2>2, <2>3 DEF Readable, Spoilt, TypeOK
  <2>5. copy' = [copy EXCEPT ![p] = copy'[p]]
    BY <2>2 DEF TypeOK
  <2> QED
    BY <1>12, <1>15, <2>1, <2>4, <2>5 DEF LoadFails, Throws, disk
<1> QED
  BY <1>1, <1>2, <1>3, <1>4, <1>5, <1>6, <1>7, <1>8, <1>9, <1>10, <1>11, <1>13, <1>14, <1>15
  DEF Next, Update, Failure
-----------------------------------------------------------------------------
LEMMA Invariant == Spec => []IInv
<1>1. IInv /\ [Next]_vars => IInv'
  BY TypeStep, OrderedStep DEF IInv
<1> QED
  BY InitInv, <1>1, PTL DEF Spec

(* Every request is answered from the tables of one version, as long as no  *)
(* two downloads ran at once and no load into the copy failed: the database *)
(* is written in one transaction, by the one process that uses the files.   *)
THEOREM TablesStayWhole == Spec => []TablesAreWhole
<1>1. IInv => TablesAreWhole
  BY DEF IInv, TablesAreWhole, OneVersion, Ordered, Readable, IdleIsOpen
<1> QED
  BY Invariant, <1>1, PTL

(* Only the end of a transaction changes the database. *)
LEMMA OnlyCommit ==
  ASSUME [Next]_vars, database' # database
  PROVE  \E p \in Process : Commit(p)
<1>1. CASE Publish \/ Age \/ UNCHANGED vars
  BY <1>1 DEF vars, disk, Publish, Age
<1>2. ASSUME NEW p \in Process, Start(p) \/ Resolve(p) \/ Exit(p) \/ Failure(p)
      PROVE  FALSE
  BY <1>2 DEF disk, Start, Resolve, Exit, Failure, GetVersionFails, DownloadFails, GitFails
<1>3. ASSUME NEW p \in Process,
             \/ NotDue(p) \/ GetVersion(p) \/ GetVersionAgain(p) \/ Lock(p) \/ Waited(p)
             \/ Fetch(p) \/ \E f \in File : CopyFile(p, f)
      PROVE  FALSE
  BY <1>3 DEF disk, NotDue, GetVersion, GetVersionAgain, Lock, Waited, Fetch, CopyFile
<1>4. ASSUME NEW p \in Process,
             \/ WriteDownloadTime(p) \/ Begin(p) \/ BeginFails(p) \/ Mark(p) \/ Open(p)
             \/ \E t \in Table : LoadTable(p, t) \/ LoadFails(p, t)
      PROVE  FALSE
  BY <1>4 DEF disk, WriteDownloadTime, Begin, BeginFails, Mark, Open, LoadTable, LoadFails
<1> QED
  BY <1>1, <1>2, <1>3, <1>4 DEF Next, Update

(* As long as no two downloads ran at once, the database never goes back to *)
(* an older version.                                                        *)
THEOREM DatabaseNeverGoesBack == Spec => NeverBack
<1>1. ASSUME IInv, [Next]_vars, mishaps' \cap {"race"} = {}, NEW t \in Table
      PROVE  database'[t] >= database[t]
  <2>1. CASE database' = database
    BY <1>1, <2>1, RemoteAssumption DEF IInv, TypeOK, Versions
  <2>2. CASE database' # database
    <3>1. PICK p \in Process : Commit(p)
      BY <1>1, <2>2, OnlyCommit
    <3>2. Ordered
      BY <1>1, <3>1 DEF IInv, Commit
    <3>3. PICK v \in Versions : LoadedFrom(p, v)
      BY <3>1, <3>2 DEF Commit, Ordered, Loaded
    <3>4. database'[t] = v
      BY <2>2, <3>1, <3>3 DEF Commit, LoadedFrom
    <3> QED
      BY <1>1, <3>3, <3>4, RemoteAssumption DEF LoadedFrom, IInv, TypeOK, Versions
  <2> QED
    BY <2>1, <2>2
<1>2. IInv /\ [Next]_vars =>
        [mishaps' \cap {"race"} = {} => \A t \in Table : database'[t] >= database[t]]_vars
  BY <1>1
<1> QED
  BY Invariant, <1>2, PTL DEF Spec, NeverBack
-----------------------------------------------------------------------------
(* Nothing happened to the updates so far: *)

(* What p loads is of the version the repository says it has; *)
LoadsVersion(p) ==
  phase[p] \in {"begin", "load"} /\ repository[VersionFile] # 0 =>
    \A t \in Table :
      /\ repository[t] \in {0, repository[VersionFile]}
      /\ phase[p] = "load" /\ t \notin todo[p] => copy[p][t] = repository[VersionFile]

(* and who did not bring a version yet left that of the database.           *)
NotBrought(p) == UsesFiles(p) => phase[p] = "files" /\ VersionFile \in todo[p]
SameVersion == repository[VersionFile] = 0 \/ database = Tables(repository[VersionFile])

Undisturbed ==
  /\ \A p \in Process : (UsesFiles(p) => ~opened[p]) /\ LoadsVersion(p)
  /\ (\A p \in Process : NotBrought(p)) => SameVersion

(* p neither uses the files after the step nor brought a version before.    *)
LEMMA QuietVersions ==
  ASSUME TypeOK, Undisturbed, NEW p \in Process,
         \A q \in Process \ {p} : Same(q),
         database' = database, \A f \in File : repository'[f] \in {0, repository[f]},
         NotBrought(p), ~UsesFiles(p)'
  PROVE  Undisturbed'
<1>0. VersionFile \in File /\ Table \subseteq File
  BY DEF File
<1>1. ASSUME NEW q \in Process PROVE (UsesFiles(q)' => ~opened'[q]) /\ LoadsVersion(q)'
  <2>1. CASE q = p
    BY <2>1 DEF UsesFiles, LoadsVersion
  <2>2. CASE q # p
    <3>1. Same(q) /\ LoadsVersion(q) /\ (UsesFiles(q) => ~opened[q])
      BY <2>2 DEF Undisturbed
    <3>2. LoadsVersion(q)'
      BY <1>0, <3>1 DEF LoadsVersion, Same
    <3> QED
      BY <3>1, <3>2 DEF UsesFiles, Same
  <2> QED
    BY <2>1, <2>2
<1>2. ASSUME \A q \in Process : NotBrought(q)' PROVE SameVersion'
  <2>1. \A q \in Process : NotBrought(q)
    BY <1>2 DEF NotBrought, UsesFiles, Same
  <2> QED
    BY <1>0, <2>1 DEF Undisturbed, SameVersion, Tables
<1> QED
  BY <1>1, <1>2 DEF Undisturbed

(* p alone uses the files.                                                  *)
LEMMA AloneVersions ==
  ASSUME TypeOK', Undisturbed, NEW p \in Process,
         \A q \in Process \ {p} : Same(q) /\ ~UsesFiles(q),
         UsesFiles(p)' => ~opened'[p], LoadsVersion(p)',
         NotBrought(p)' => SameVersion'
  PROVE  Undisturbed'
  BY DEF Undisturbed, UsesFiles, LoadsVersion, Same

LEMMA VersionsStep ==
  ASSUME IInv, IInv', [Next]_vars, mishaps' = {}, mishaps = {} => Undisturbed
  PROVE  Undisturbed'
<1> USE RemoteAssumption
<1>0. /\ TypeOK /\ IdleIsOpen /\ Ordered /\ Undisturbed /\ mishaps = {}
      /\ \A p, q \in Process : UsesFiles(p) /\ UsesFiles(q) => p = q
      /\ VersionFile \in File /\ Table \subseteq File
  BY MishapsStay DEF IInv, Ordered, Alone, File
<1>00. TypeOK' /\ \A f \in File : repository[f] \in Nat
  BY <1>0 DEF IInv, TypeOK, Versions
<1>1. CASE UNCHANGED vars
  BY <1>0, <1>1 DEF vars, disk, memory, Undisturbed, UsesFiles, LoadsVersion, NotBrought,
     SameVersion, Tables
<1>2. CASE Publish \/ Age
  BY <1>0, <1>2 DEF Publish, Age, disk, memory, Undisturbed, UsesFiles, LoadsVersion, NotBrought,
     SameVersion, Tables
<1>3. ASSUME NEW p \in Process, Start(p) \/ Resolve(p) \/ Mark(p)
             \/ NotDue(p) \/ GetVersion(p) \/ GetVersionFails(p) \/ GetVersionAgain(p)
             \/ Lock(p) \/ Waited(p) \/ Open(p)
      PROVE  Undisturbed'
  <2>1. \A q \in Process \ {p} : Same(q)
    BY <1>0, <1>3 DEF Same, TypeOK, disk, memory, Start, Resolve, Mark, NotDue, GetVersion,
       GetVersionFails, GetVersionAgain, Lock, Waited, Open, TakeLock, Compare, Updated, Become
  <2>2. /\ UNCHANGED <<database, repository>>
        /\ phase'[p] \notin {"files", "begin", "load"}
        /\ phase[p] \notin {"files", "begin", "load"}
    BY <1>0, <1>3 DEF TypeOK, disk, memory, Start, Resolve, Mark, NotDue, GetVersion,
       GetVersionFails, GetVersionAgain, Due, Lock, Waited, Open, TakeLock, Compare, Updated, Become
  <2>3. NotBrought(p) /\ ~UsesFiles(p)' /\ \A f \in File : repository'[f] \in {0, repository[f]}
    BY <2>2 DEF NotBrought, UsesFiles
  <2> QED
    BY <1>0, <2>1, <2>2, <2>3, QuietVersions
<1>4. ASSUME NEW p \in Process, Fetch(p) PROVE Undisturbed'
  <2>1. \A q \in Process : ~UsesFiles(q) /\ (q # p => Same(q))
    BY <1>0, <1>4 DEF Fetch, Same, TypeOK, Become
  <2>2. ~opened'[p] /\ phase'[p] = "files"
    BY <1>0, <1>4 DEF Fetch, Become, TypeOK
  <2>3. SameVersion'
    BY <1>0, <1>4, <2>1 DEF Fetch, disk, Undisturbed, NotBrought, SameVersion, Tables
  <2>4. LoadsVersion(p)'
    BY <2>2 DEF LoadsVersion
  <2> QED
    BY <1>0, <1>00, <2>1, <2>2, <2>3, <2>4, AloneVersions
<1>5. ASSUME NEW p \in Process, UsesFiles(p), \A q \in Process \ {p} : Same(q),
             UsesFiles(p)' => opened'[p] = opened[p], LoadsVersion(p)',
             NotBrought(p)' => SameVersion'
      PROVE  Undisturbed'
  <2>1. \A q \in Process \ {p} : Same(q) /\ ~UsesFiles(q)
    BY <1>0, <1>5
  <2>2. UsesFiles(p)' => ~opened'[p]
    BY <1>0, <1>5 DEF Undisturbed
  <2> QED
    BY <1>0, <1>00, <1>5, <2>1, <2>2, AloneVersions
<1>6. ASSUME NEW p \in Process, NEW f \in File, CopyFile(p, f) PROVE Undisturbed'
  <2>1. /\ \A q \in Process \ {p} : Same(q)
        /\ UsesFiles(p) /\ opened' = opened /\ LoadsVersion(p)' /\ phase' = phase
    BY <1>0, <1>6 DEF CopyFile, Same, TypeOK, UsesFiles, LoadsVersion
  <2>2. ASSUME NotBrought(p)' PROVE SameVersion'
    <3>1. VersionFile \in todo[p] /\ f # VersionFile
      BY <1>0, <1>6, <2>1, <2>2 DEF NotBrought, CopyFile, UsesFiles, TypeOK
    <3>2. \A q \in Process : NotBrought(q)
      BY <1>0, <1>6, <2>1, <3>1 DEF NotBrought, CopyFile
    <3> QED
      BY <1>0, <1>6, <3>1, <3>2 DEF Undisturbed, SameVersion, CopyFile, TypeOK, Tables
  <2> QED
    BY <1>5, <2>1, <2>2
<1>7. ASSUME NEW p \in Process, WriteDownloadTime(p) PROVE Undisturbed'
  <2>1. /\ \A q \in Process \ {p} : Same(q)
        /\ UsesFiles(p) /\ opened' = opened /\ phase'[p] = "begin" /\ repository' = repository
    BY <1>0, <1>7 DEF WriteDownloadTime, Become, Same, TypeOK, UsesFiles
  <2>2. \A f \in File : repository[f] \in {0, Source(p)}
    BY <1>0, <1>7 DEF WriteDownloadTime, Ordered, Copied
  <2>3. LoadsVersion(p)'
    BY <1>0, <2>1, <2>2 DEF LoadsVersion
  <2> QED
    BY <1>5, <2>1, <2>3 DEF NotBrought, UsesFiles
<1>8. ASSUME NEW p \in Process, Begin(p) PROVE Undisturbed'
  <2>1. /\ \A q \in Process \ {p} : Same(q)
        /\ UsesFiles(p) /\ opened' = opened /\ phase'[p] = "load" /\ repository' = repository
        /\ todo'[p] = Table /\ phase[p] = "begin"
    BY <1>0, <1>8 DEF Begin, Become, Same, TypeOK, UsesFiles, disk
  <2>2. LoadsVersion(p)'
    BY <1>0, <2>1 DEF Undisturbed, LoadsVersion
  <2> QED
    BY <1>5, <2>1, <2>2 DEF NotBrought, UsesFiles
<1>9. ASSUME NEW p \in Process, NEW t \in Table, LoadTable(p, t) PROVE Undisturbed'
  <2>1. /\ \A q \in Process \ {p} : Same(q)
        /\ UsesFiles(p) /\ opened' = opened /\ phase[p] = "load" /\ phase' = phase
        /\ repository' = repository /\ repository[t] # 0
        /\ \A u \in Table : copy'[p][u] = IF u = t THEN repository[t] ELSE copy[p][u]
        /\ todo'[p] = todo[p] \ {t}
    BY <1>0, <1>9 DEF LoadTable, Same, TypeOK, UsesFiles, disk
  <2>2. LoadsVersion(p)'
    BY <1>0, <2>1 DEF Undisturbed, LoadsVersion
  <2> QED
    BY <1>5, <2>1, <2>2 DEF NotBrought, UsesFiles
<1>10. ASSUME NEW p \in Process, Commit(p) PROVE Undisturbed'
  <2>1. /\ \A q \in Process \ {p} : Same(q)
        /\ UsesFiles(p) /\ phase[p] = "load" /\ todo[p] = {} /\ ~UsesFiles(p)'
        /\ repository' = repository /\ copy[p] \in [Table -> Versions]
    BY <1>0, <1>10 DEF Commit, Become, Updated, Same, TypeOK, UsesFiles, memory
  <2>2. database' = copy[p]
    BY <1>0, <1>10, <2>1 DEF Commit, Undisturbed
  <2>3. repository[VersionFile] # 0 => copy[p] = Tables(repository[VersionFile])
    BY <1>0, <2>1 DEF Undisturbed, LoadsVersion, Tables
  <2>4. SameVersion' /\ LoadsVersion(p)'
    BY <2>1, <2>2, <2>3 DEF SameVersion, Tables, LoadsVersion, UsesFiles
  <2> QED
    BY <1>5, <2>1, <2>4
<1>11. ASSUME NEW p \in Process, NEW ph \in {"idle", "off"}, EndsAs(p, ph), database' = database,
              \A f \in File : repository'[f] \in {0, repository[f]},
              \A q \in Process \ {p} : copy'[q] = copy[q]
       PROVE  Undisturbed'
  <2>1. \A q \in Process \ {p} : Same(q)
    BY <1>0, <1>11 DEF EndsAs, Same, TypeOK, Become
  <2>2. ~UsesFiles(p)'
    BY <1>0, <1>11 DEF EndsAs, Become, UsesFiles, TypeOK
  <2>3. NotBrought(p)
    BY <1>0, <1>11 DEF EndsAs, Interrupted, NotBrought, UsesFiles
  <2> QED
    BY <1>0, <1>11, <2>1, <2>2, <2>3, QuietVersions
<1>12. ASSUME NEW p \in Process, \/ DownloadFails(p) \/ BeginFails(p) \/ GitFails(p) \/ Exit(p)
                                 \/ \E t \in Table : LoadFails(p, t)
       PROVE  Undisturbed'
  <2>1. PICK ph \in {"idle", "off"} : EndsAs(p, ph)
    BY <1>12 DEF DownloadFails, BeginFails, GitFails, LoadFails, Exit, Throws
  <2>2. database' = database /\ \A f \in File : repository'[f] \in {0, repository[f]}
    BY <1>0, <1>12 DEF DownloadFails, BeginFails, GitFails, LoadFails, Exit, disk, TypeOK
  <2>3. \A q \in Process \ {p} : copy'[q] = copy[q]
    BY <1>0, <1>12 DEF DownloadFails, BeginFails, GitFails, LoadFails, Exit, AfterThrow, TypeOK
  <2> QED
    BY <1>11, <2>1, <2>2, <2>3
<1> QED
  BY <1>1, <1>2, <1>3, <1>4, <1>6, <1>7, <1>8, <1>9, <1>10, <1>12 DEF Next, Update, Failure

(* As long as no update was cut and none was made by an open storage, the   *)
(* database is at the version of the repository between the updates.        *)
THEOREM DatabaseFollows == Spec => []UpToDate
<1> DEFINE Inv == IInv /\ (mishaps = {} => Undisturbed)
<1>1. Init => Inv
  BY InitInv, RemoteAssumption
  DEF Init, Undisturbed, UsesFiles, LoadsVersion, SameVersion, Versions, File, VersionFile
<1>2. Inv /\ IInv' /\ [Next]_vars => Inv'
  BY VersionsStep
<1>3. Inv => UpToDate
  <2> SUFFICES ASSUME Undisturbed, \A p \in Process : ~InUpdate(p) PROVE SameVersion
    BY DEF UpToDate, InStep, SameVersion
  <2>1. \A p \in Process : NotBrought(p)
    BY DEF InUpdate, NotBrought
  <2> QED
    BY <2>1 DEF Undisturbed
<1> HIDE DEF Inv
<1> QED
  BY <1>1, <1>2, <1>3, Invariant, PTL DEF Spec
==============================================================================
