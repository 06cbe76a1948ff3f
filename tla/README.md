# Verification of SW

SW is a build system and package manager in C++. This directory keeps TLA+ specifications of the
parts of it that decide whether a build is right: which commands run, in which order, what is
remembered of them, which package versions are taken and how they come to the local storage. The
code is under `src/src/sw/`; every definition that stands for code is tied to its lines in
`PROJECT.json` ("map").

## 1. Inventory

| Part | State it keeps | Operations | Meets | Hard behaviour | Correct when |
|---|---|---|---|---|---|
| Plan creation (`builder/execution_plan.*`, `command_node.*`) | dependencies, dependents and `dependencies_left` of commands, `commands`, `unprocessed_commands` | `create`, `prepare`, `init` | commands (files they read and write), execution | cycles, two producers of one file, dependence on hash-table order | verdict and order do not depend on iteration order; the execution gets consistent counters |
| Plan execution (`builder/execution_plan.cpp`) | `running`, `stopped`, `interrupted`, `askip_errors`, futures | `execute`, `stop`, `setTimeLimit` | executor threads, `Command::execute` | countdown by many threads, errors, time limit, stop request, lifetime of locals | every command once, after its dependencies; the verdict agrees with what happened; it returns |
| Commands (`builder/command.*`) | `executed_`, `mtime`, `implicit_inputs`, chain `prev`/`next`, pool | `execute0`, `beforeCommand`, `execute1`, `afterCommand` | storage, file data, pools | chains run from several jobs, limited pools, failure between two steps | up-to-date verdict is sound, pool limit is kept, no command runs twice |
| Command storage (`builder/command_storage.*`) | records by hash, file table, logs | `insert`, `async_command_log`, `save`, `load` | commands, one writer thread | crash between two writes, two processes, truncated log | after a restart no outdated command is taken for up to date |
| Concurrent map, file data (`builder/concurrent_map.h`, `file*.cpp`) | slots; time and refresh state of files | `insert`, `refresh`, `isChanged` | commands | insertion race, refresh race, exception during a refresh | one object per key; a time is read once and seen by all |
| Core (`core/*.cpp`) | targets, loaders, transforms, drivers, input database | `load_packages`, `load_package`, `transform_executor::execute`, time limit parsing | plan, drivers, resolver | recursion through dependencies, objects shared by several loads | each build takes the commands of all it needs, built as asked |
| Resolution (`support/resolver.cpp`, `version.cpp`, `package_version_map.h`) | request with its result | `setPackage`, `resolve` over storages, cache | storages | order of storages, branches against versions, pre-releases | the result is the preferred version that matches, from any order |
| Local storage (`manager/storage.cpp`, `database.cpp`) | directories, database rows | `install`, `remove`, `resolve` | remote storage | two processes, crash between unpack and row | an installed row has a complete directory |
| Remote storage (`manager/storage_remote.cpp`, `remote.cpp`) | downloaded database, its version and times | `updateDb`, `download`, `load`, `copyArchive` | network, local files | failure in the middle of a load, several processes | the loaded tables are one version of the database |
| Settings, paths, ids (`support/settings.cpp`, `package_path.cpp`) | values | `mergeMissing`, `mergeAndAssign`, comparison, hash | everything that looks targets up | maps within maps, ignored keys | order and equality are consistent |
| Source download (`support/source.cpp`) | stamps, directories | `download` | resolver, driver | partial download, concurrent download | a stamped directory is complete |
| Driver (`driver/`) | targets with their dependencies, rules with the files they found, checks | `loadPackage`, prepare passes, `getCommands`, `runRules`, check storage | core, plan, resolver | rules feed on each other's files; cycles of dependencies; iteration that inserts | passes end, every source gets its command once, its output is linked |
| Client, GUI, protocol, tools | options | commands of the user | core | text and I/O | not modelled |

Components interact by calls inside one process, by the executor's threads, and through files
shared by processes (storages, command database, package directories).

## 2. Plan

What decides whether a build is right comes first, from the execution outwards. Done:

1. `ExecutionPlan`, the abstract `BuildDag`, and the mapping `ExecutionPlanRefinement`: how a plan
   is executed. Proofs: `ExecutionPlanProofs`.
2. `PlanCreation`: what the execution is handed. Proofs: `PlanCreationProofs`.
3. `CommandExecution`: what a job does inside `Command::execute`. Proofs: `CommandExecutionProofs`.
4. `CommandRecords`: what "up to date" means over many builds and deaths. Proofs:
   `CommandRecordsProofs`.
5. `FileStorage`: the times of files that 4 relies on. Proofs: `FileProofs`.
6. `PackageStorage`: resolution and installation. Proofs: `PackageStorageProofs`.
7. `RemoteDatabase`: the listing of 6, as several processes update it. Proofs: `RemoteDatabaseProofs`.
8. `RuleFiles`: which commands the files of a target give. Proofs: `FileProofs`.
9. `PackageLoading`: which targets a build loads, and whose commands it takes. Proofs:
   `PackageLoadingProofs`.

What is left, in this order: a second process in `CommandRecords` (`command_storage.cpp:295`) and in
`PackageStorage`; the checks of the host (`driver/checks.cpp`), whose results are shared by targets
through files; the source download (`support/source.cpp`); and, as functions over bounded
inputs, `parseTimeLimit` and the merging and equality of settings.

How the modules meet. `PackageLoading` says which targets give commands, `RuleFiles` which commands a
native target gives, `PlanCreation` what becomes of them: a plan that `ExecutionPlan` finds as its `Init`
and `IsValid` assume (`HandedOverReady`, `AcyclicHandedOver`). `CommandExecution` is the step from
`EnterCommand` to `Succeed` or `Fail` of `ExecutionPlan`, seen from inside. `FileStorage` shows what one
reading of a time may give to several jobs, `CommandRecords` assumes that what a job reads is what the
cache of the run holds. `RemoteDatabase` is one step of `PackageStorage`: `TablesAreWhole` is why the
`listing` there has one content per version.

## 3. Modules and code

Operators that end in `_Something` and stand before a definition are its mutants: how the code could
plausibly be wrong there. `PROJECT.json` says which property each of them breaks.

### ExecutionPlan (`builder/execution_plan.cpp`, `execute`, `stop`)

One job exists per command, so a job is named by its command, and `job` is its place in the lambda.
The main thread's loop is `RejectPlan`, `PushRoots`, `Snapshot`, `WaitRound`, `AllPerformed`,
`WaitRunning`, `Return`; a job's code is `Skip` or `PassCheck`, `EnterCommand`, `Succeed` or `Fail`,
`CountError`, `Rethrow`, `Release`, `FinishJob`. `left` is `dependencies_left`; `fs`, `fs2`, `waited` are
the futures and the counter `i`; `running`, `stopped`, `interrupted`, `askip_errors` keep their names.
`TimeLimitPasses` and `Stop` belong to the environment. A push holds the mutex from end to end and is
one step. When the loop is left early, jobs in the queue outlive `execute()` and read its dead local
variables: they may read anything (`Skip`, `PassCheck` once `main = "returned"`).

`BuildDag` is what executing a plan promises whatever the executor does; `ExecutionPlanRefinement`
maps `ExecutionPlan` to it.

### PlanCreation (`create`, `prepare`, `init`)

`phase` is the loop that runs, `todo` what it has yet to visit, in any order, as the containers are
hash tables. `in` is the build: hashes, explicit dependencies, files read and written. The last
criterion of `lessDuringExecution` compares a command with itself and is left as void as it is.

### CommandExecution (`builder/command.cpp` `execute0`, `beforeCommand`, `execute1`, `afterCommand`; `ResourcePool`)

One job per command; `at` is the command whose `execute0` it is in, since a job of a piped command
executes the head of its chain. `executed` is `executed_`, `n` the pool's counter. `isOutdated` is a
bit of each command; `AfterCommand` clears it, except for the commands that always run
(`command.cpp:237`). `CommandRecords` says what it stands for. `took` and `gave` are ghosts: the jobs that
locked the pool, and those that unlocked it.

### CommandRecords (`isOutdated`, `afterCommand`, `builder/command_storage.*`)

Runs of the program follow each other (`Load` ... `RemoveLogs`, or a death), and the user edits,
deletes and reconfigures between them. `dbFiles`, `dbRecords`, `logFiles`, `logRecords` are the four
files of the storage; `records`, `known` (paths by hash), `blank` (hashes with an empty path),
`listed` and `queue` its memory. `made` is a ghost: what the present content of an output was made
from. It rests on four assumptions: a write has a time of its own, later than all before; nothing is
edited while a build runs; a dependency processor reports every header that was included; one
process uses one storage.

### FileStorage (`builder/concurrent_map.h`, `file.cpp`, `file_storage.cpp`)

One file, several jobs. An insertion is `Find`, or `Exchange` and, for the job that displaced the
data of another, `CopyTime`, `CopyState`, `TestState`, `Settle` (the assignment operator of `FileData`).
`refresh()` is `Acquire` to `Publish`; `isChanged()` is `Retry` to `IsNewer`. `last_write_time` is no
atomic: each load and store is a step. The writer of the file is a job that may look at it, removes it
or not, writes it, marks it unrefreshed and looks again; the plan makes others wait, except `early`
ones, which knew the file only as an implicit input.

### PackageStorage (`support/resolver.cpp`, `manager/storage.cpp`, `database.cpp`, `storage_remote.cpp`)

One package path, one process with one request at a time. `NextStorage` moves through the storages in
the order of `SwManagerContext`, `Row` takes one row of `PackagesDatabase::resolve`. An install goes
`CreateDirectory`, `CopyArchive`, `ClearDirectory`, `Unpack`, `WriteRow`, each of which may be the last
before a death; the row is one transaction. `listing` is the copy of the remote's database in memory,
`filed` its file, `served` what the server has. Publishing, and removing a directory by hand, are the
environment. `spoiled` is a ghost for the versions whose directory was lost, or cut by a failed
re-installation, while their row stayed. It is assumed that the transaction of `installPackage` commits at
its end (its guard comes from a library).

### RemoteDatabase (`manager/storage_remote.cpp`, `remote.cpp`)

Processes of one user and the server. A file of the repository and a table of `packages.db` are named by
the version they hold; 0 is absent or empty. A process goes `Start` (the constructor), `NotDue` or
`GetVersion` (`updateDb`: the time file, then the server's version, which a process asks for once), `Lock`
and `Waited` (`single_process_job`), `Fetch`, `CopyFile`, `WriteDownloadTime` (`download`), `Begin`,
`LoadTable`, `Commit` (`load`), `Mark` and `Open`; then `Resolve` starts the next update. The constructor's
first load takes no lock, and an open storage loads into its copy in memory: both as in the code. Each step
may fail where the code can throw (`DownloadFails`, `GitFails`, `BeginFails`, `LoadFails`), and be the last
before a death (`Exit`). `mishaps` is a ghost that remembers what the properties make exceptions for: a
race of two downloads, a late update by an open storage, an update that was cut short. What the library
does with a process that waited for the lock (run the job, or take it for done) is left open: both.

### RuleFiles (`driver/rule_storage.cpp`, `rule.cpp`, `rule_file.cpp`)

One native target and its files. `order` holds the names of its rules as `std::map` hands them out, `at`
is the next one in the pass; `EndPass` is the comparison of sizes that ends the passes. `Compile` is
`NativeCompilerRule::addInputs`, `Link` `NativeLinkerRule::addInputs`, `Resources` and `UserRule`
`NativeRule::addInputs`, `TooMany` their exceptions, `GetCommands` `RuleFiles::getCommands`. A file is its
extension and the sequence of what it was made from, both of `Word`. A target has a rule for assembler
(all but the Visual Studio compilers of processors other than x86) and one rule of the user's at least, which
makes sources, here `.cpp` from `.proto` (`RulesAssumption`); a target without `.proto` files stands for one
without such a rule, which does nothing there. A target is given no file that lies where its own build
writes (`TargetsAssumption`). `vs` says which of the tools are Visual Studio's: its compilers set a program
database, its linker takes definition files and is the one that exports all symbols. `Compile` inserts into
the hash table it iterates over; when that rehashes, the iteration may miss any of the files it has not seen
yet (it takes any non-empty subset), and the ghost `missed` holds the sources that were.

### PackageLoading (`core/transform.cpp`, `input.cpp`, `client/common/command/build.cpp`, `driver/package.cpp`, `entry_point.cpp`, `target/base.cpp`, `target/native.cpp`)

One process after another builds the same project. A target is a package name and a configuration.
`LoadPackages` registers the loader of the input, `LoadRequested` loads each package of the input in each
configuration, `Execute` and `TakeRequested` ask their targets for commands. `getCommands` is recursive:
`stack` holds its nested calls, each of which first prepares (`LinkDependency` loads one dependency in
`prepare_pass3`, `Prepare2` ends the passes and records a built package as installed), then merges
the commands of its dependencies (`TakeDependency`, in the order of a set of pointers) and returns. `asking`
is `in_get_commands`, which is never reset, `commands` the cached commands. Each build keeps the `settings`
and the `known` package of its last load, and the places of the targets it ever `added`; a load makes
every package of the input with what the build holds then, and keeps those the build wants (`Made`). The
`...Fails` actions are the exceptions of the code at this commit, and end the process.

## 4. Runs

| Run | Instance | Shows |
|---|---|---|
| `plan_builds` | 4 commands, all dependency relations, cyclic ones included, 2 threads, `skip_errors` 2, errors that throw or do not, time limit, `stop()`; fair | `DependencyOrder`, `CountersExact`, `PerformedOnce`; the loop of the main thread ends with the work (`LoopEndsWork`); success, missing steps and the error budget are told as they happened (`OutcomeTold`); `BuildDag` is implemented (`ImplementsDag`); `execute()` returns, and the abstract build gets its verdict |
| `plan_steps` | 2 commands, 1 thread, time limit | violated: after a stop in the last round `execute()` ends as if all had been executed |
| `plan_creation` | 3 commands and a foreign one, all relations, two files | the verdict is the one the build deserves, in any order of iteration (`VerdictExact`); the order is topological; what execution is handed is acyclic and complete (`HandedOverReady`) |
| `command_jobs` | 3 commands in a pool of 1, one of them the head of a pipe of 2, and one beside them; the head may be up to date or always run, a second may be up to date; fair | no resource and no wake-up is lost, and the pool grows exactly by what jobs give back without having taken it (`PoolSound`); a program starts once, a chain is performed, every job ends |
| `records_builds` | generator and compiler, clock up to 5 | what is taken for up to date is current, unless a death tore the records (`IncrementalIsCurrent`); nothing is run twice for nothing; records name files that are listed |
| `file_times` | 3 jobs, one may write, fair | the insertion race has one flaw only, jobs after the writer see its output, a refresh has an owner, waits end |
| `package_requests` | 2 versions, one with two contents, 3 worlds (two releases, one overridden; a release and a prerelease; a release and a branch) | the right version and content, complete directories across deaths, and what was resolved is what is handed out |
| `remote_updates` | 2 processes, 2 tables, 2 versions, download by git, fair | tables of one version (`TablesAreWhole`), an update that ended is loaded (`UpToDate`), no way back, and the database catches up with the server |
| `rules_passes` | every choice of 8 files and some with two of a kind, each kind of target, with and without Windows, Visual Studio's tools, exports, unity build; the user's rule before, between or after the others; fair | the commands are those of the target; on Windows all is linked, and the objects that are not exported are exactly those that come late (`LateFiles`); a target is refused exactly for the reasons of the code (`FailsExactly`); passes end |
| `rules_unity` | the same | violated: a unity build of C or C++ sources is refused |
| `loading_builds` | every two packages with every use, input, storage and configuration, every graph of three packages; two processes one after another; fair | packages are built as asked, no target is prepared twice, a build takes the commands of all it needs; what is built is exactly what lies within the limits of the code, in any order of visiting (`BuiltWithinLimits`); runs end |
| `loading_refusals` | the build test `cpp/static` in two of its configurations | violated: the project is refused, though every dependency is a package of the input |

Where a question has several parts (`LoopEndsWork`, `OutcomeTold`, `VerdictExact`, `HandedOverReady`,
`PoolSound`, `IncrementalIsCurrent`, `RaceHasOneFlaw`, `AnswerIsRight`, `LateFiles`, `FailsExactly`,
`LoadedAsAsked`), the property is the conjunction of definitions that are named and explained in the
module.

### Bounds

Commands: a countdown needs two dependencies of one command, the lost push a third that follows, and
the verdict's corner cases a command beside them; four give all of it with two failures. Three jobs
are the least with two that race and a third that suffers (pool, insertion). Two versions and two
contents are the least with a preference and a change; requests and deaths are unbounded. Clock 5 in
`CommandRecords` is the initial version of the files, two writes of a first build, and two more for an
edit and what follows from it. Two processes are the least with a race of downloads, two tables the
least with a mixture, two versions the least with an old and a new one; updates, failures and deaths are
unbounded. Two builds of a project are what it takes for the second to find what the first installed,
`MaxDepth` 8 is more than the targets of an instance, so that no recursion is cut. `plan_builds` takes one
dependency relation of each class of isomorphic ones: the definitions tell commands apart only by `deps`.
In `command_jobs` the pool has a command that is always outdated, one that may be up to date, and the head
of a pipe, so that its resource is taken, given back untaken and waited for.

`CHECK_DEADLOCK FALSE` is used where a system ends for good: `FileStorage` (all jobs are done, or wait for
a refresh that threw) and `PackageLoading` (the last process ended).

### Fairness

`ExecutionPlan`, `CommandExecution`, `FileStorage`: weak fairness of the main thread and of each job,
that is, of everything each can do: threads of the executor are scheduled, a program that was started
ends, and `wait` on a mutex or a condition variable returns some time after it can. Nothing is assumed of
the clock, of `stop()`, of the order in which waiters are served, nor of the user. `ChecksEnd` allows for
one exception that the code has: when a refresh throws, others spin.

`RuleFiles` and `PackageLoading` are sequential programs, so that weak fairness of `Next` says only that
the program goes on. `RemoteDatabase` assumes that processes run, end and are started again, that the time
of the last download gets old, and that the network answers some time if it is asked again and again
(strong fairness, as a process asks once only and has to be ended first); of failures and deaths
`CatchesUp` says itself that they come to an end.

## 5. Proofs

Each theorem holds for every value of the constants under the `ASSUME`s of its module, which say that sets
are finite, that markers like `None` differ from what they stand beside, and that the builds, versions,
projects and targets considered have the shape that the comment on them describes. All are safety
properties: the prover has no `ENABLED`, hence no fairness.

- `ExecutionPlanProofs`: `TypeCorrect`, `CountersAreExact`, `DependenciesFirst`, `CommandsPerformedOnce`.
  `DependencyOrder` is not inductive: that a job exists must say that *all* dependencies counted down,
  and a counter of one that only one is left. The invariant is `Shape` (types, without the sign of the
  counters), `StationInv` (what the place of a job says of its exit), `PushInv` (a command with
  dependencies has a job exactly when all of them counted down), `CountersExact`, and `RunningExact`
  (`running` is the number of jobs inside). `LastRelease` is the heart: a counter of one that is counted
  down belongs to the last dependency. `LoopEndIsEndOfWork` adds the main thread's books (`LoopInv`): the
  futures in `fs` and `fs2` and the counter `i` are all jobs that were pushed.
  `Refinement`, `Spec => ImplementsDag`: steps of jobs map to `BuildDag`'s by the two invariants above; for
  the verdict `CauseInv` says that a job which was skipped has a cause: the time limit, `stop()` or a
  failure. `OutcomeIsTold` adds `BudgetInv` (`askip_errors` is `SkipErrors` less the failures that were
  counted, so one job alone sees it reach the end) and `WorkInv` (what has no dependencies was pushed, and
  the loop is not left while a future waits unless a stop was asked for). From these and the acyclic plan,
  `NothingLeft`: when the loop ends undisturbed, with no failure, all commands were pushed, so that the
  count of futures at the end is the count of commands.
- `PlanCreationProofs`: `TopologicalOrder`, `ValidPlanIsAcyclic`, from an invariant that adds to the order
  that dependencies stay in the plan, that what is taken is in `commands` or still in `cmds`, and that a
  set of commands that keeps itself from being taken stays in `cmds` (`StuckStay`). `VerdictIsExact` and
  `HandedOverIsReady` add what each loop has found out of the build when it is left (`CheckFound`,
  `GeneratorsFound`, `EdgesFound`, `OrderFound`, `LinkFound`): so a command that is rejected proves a
  property of the build, and a pass without progress that what is left waits for itself (`StuckIsLeft`).
- `CommandExecutionProofs`: `ProgramsStartOnce`. `Exclusive`: a job that waits for a resource is the only
  one to do so for its command, which was not started yet though `executed_` is set.
  `ChainsArePerformed`: `ChainInv` says who is still responsible for a chain that was not performed.
  `PoolsAreSound` has no hypothesis: the pool does grow (section 6), and the theorem says by how much. The
  counter is the size of the pool, less the resources that were taken and not given back, plus those that
  were given back and not taken. A job gives back what it did not take only if its command was up to date,
  or another job of the same pipe performs or performed it; a job that took a resource gives it back when
  it ends. No wake-up is lost: as long as one sleeps, enough are awake for the free resources.
- `CommandRecordsProofs`: `IncrementalBuild`, `SecondBuildRunsNothing`, `RecordsKeepPaths`, for any
  commands, headers, command lines, and any length of history. That an output is current cannot be kept
  from step to step by itself: what is known when a command is found up to date is a record, and a record
  may be of the database, of the log, of the queue or of memory, from this build or any before. So the
  invariant says of every record wherever it is (`RecordsOk`): the output is not older than the record,
  and when it is as old, it is from the run that was recorded. `MadeOk` says of every output that what it
  was made from is still the same, or missing, or newer; `Whole` that, unless a death tore the log, a
  record of the run an output is from has all headers of that run, or a source is newer, in which case the
  command runs anyway. `StorageOk` follows the queue and the logs, `CacheOk` the cached times, `BuiltOk`
  says of each command what its place in the build has established. `SettledOk` is for the second build:
  after a build that succeeded with nothing changed since, the records are those a build would compare
  with. `FiniteHasMax` (a finite set of integers has a greatest element) is what makes `NewTime` not older
  than any input.
- `FileProofs` holds the proofs about two modules that share nothing. About `FileStorage`:
  `RefreshesAreOwned`. `CopiesIntoOwn`: a job that is copying after it lost the race of insertion holds
  the file data it made itself, so it will settle what it copied. `OneFlaw`: while nobody writes,
  originals are good, and a wrong time was copied. `OutputIsSeen`: the writer's second look
  (`WriterLooks`) and the readers it releases (`ReaderLooks`). About `RuleFiles`: `CommandsAreOfTarget`,
  `LateFilesAreLinked`, `FailuresAreExact`, for any targets, any order of any number of rules, and
  whatever an iteration misses. The properties speak of the end, and nothing in them survives a pass, in
  which the files of one rule are another rule's inputs. The invariant `RulesInv` says of every file that
  is not a source by which rule it was made, and from what (`FilesMade`); from the names alone it follows
  that different files have different objects and that the output, the objects, the resources and the
  sources a rule makes are never the same file. `RulesSettled` is the argument for the passes: while a
  pass has added nothing, the rules it has applied have nothing left to add (`Closed`), since each either
  adds a file or finds none to add, an iteration that misses files included; so a pass that ends with as
  many files as it began with has left all rules with nothing to add. `LateArrivals`, `Awaited` and
  `Exported` follow the definition file, which is made once, in the first pass that links: what is in it
  stays, and a source whose object is not in it was missed by an iteration before, or is made by a rule
  after the compilers had their turn. `Exporting` says the same of the commands at the end.
  `FailsForCause` is for the exceptions: two definition files or program databases, or a unity build,
  whose objects depend on a file that is in no set of files. The converse of both (these do fail, these
  are not exported) is in `FailuresAreExact` and `LateFilesAreLinked`. `PassesAreBounded` is the measure
  under `PassesEnd`: a new pass begins with more files, and these are of a finite set that is known when
  the first begins (`MostFiles`). That the program goes on is left to TLC.
- `PackageStorageProofs`: `DirectoriesAreComplete`, `HandedAsResolved`. Between the clearing of a directory
  and its row the process knows what is in it (`InHands`), and a search reads rows that stay (`FromRows`).
  `AnswersAreRight`: `Scanned` says that the result is the best of the rows seen so far, with the content and
  storage that are right as far as the search has come; `TakesOver` is that `setPackage` compares by an order,
  so that a version that takes over was in no row before. `AfterDrop` is the search after a local package
  without directory was dropped: all found before is lost, but a version is missing its directory then,
  and it is the best of what was lost, so that whoever relies on all directories (`Present`), or is handed
  that very version later (`ChosenVersion`), still has the best.
- `RemoteDatabaseProofs`: `TablesStayWhole`, `DatabaseNeverGoesBack`, for any number of processes and every
  way of downloading. Without a race one process at most uses the files (`Alone`); what it copied is of
  the version it downloads (`Copied`), what it loads is of one version that is not older than the
  database (`Loaded`). `DatabaseFollows` (`UpToDate`) needs more of the undisturbed updates (`Undisturbed`):
  a process that loads has put the version of the repository into every table it is through with, and
  as long as all that use the files have not brought a version yet, the database has the one of the
  repository.
- `PackageLoadingProofs`: `TargetsAreAsAsked`, `NoneIsPreparedTwice`, for any project. `Nested`: the nested
  calls of `getCommands` are of different targets, each marked, and those that prepare have no commands.
  `AllIsTaken` and `LimitsAreExact` compare a run with the closure of the dependencies, which `Reach`
  defines by recursion. `ReachesLeast` proves first that it is the least closed set, from a least
  counterexample among the finite sets of targets (`WFMin` of the library, which has no operator
  parameter). Then: what was asked has been prepared, with all its dependencies loaded, and each of these
  asked or left to a call on the stack (`AskedInv`), and known commands are taken or held by a call. At
  the end no call is left, so that what was asked is closed and holds all that is needed (`AllIsGiven`);
  it is not more, since only what is needed is ever loaded (`NeededOK`). For the limits: a target whose
  package with its settings was installed before resolved to the record, and is never loaded (`LinkLoads`),
  a loader of the driver stands for a program or for sources (`LoadersOK`), and each exception points to
  one of them (`LoadHasCause`, `LinkHasCause`). `MadeIs`: whatever a build kept of the last load, the next
  makes one target. Assumed: packages and configurations are finite sets, and no
  package has the name that stands for the build of the input.

Only model-checked: liveness and the fair refinement, which need fairness and `ENABLED`:
`ExecuteReturns` and `ImplementsFairDag` of the execution, `JobsEnd` of the commands, `ChecksEnd` of the file
storage, `CatchesUp` of the remote database, `PassesEnd` of the rules and `RunsEnd` of the loading. Every
invariant and every action property of a passing run is stated by a theorem.

## 6. What the runs found

Three promises of the repository are shown to fail by runs of their own:

- `plan_steps`, `execution_plan.cpp:150`: futures of skipped jobs are counted as performed steps, so the
  check of line 172 and the message about the time limit miss a stop in the last round. `OutcomeTold`
  says what holds: success can be believed when the time limit did not pass, nobody called `stop()` and,
  where errors do not throw, none stopped the build.
- `rules_unity`, `rule_file.cpp:65`: the build test `test/build/cpp/unity` sets `UnityBuild`, but the files
  such a target writes are in no set of files (`rule.cpp:382`), so that its commands cannot be collected.
  `FailsExactly` says of which targets this is true.
- `loading_refusals`, `entry_point.cpp:471`: `sw.cpp:375` registers the build test `cpp/static` with several
  configurations, and `-configuration d,r` is documented, but the second load of an input finds the empty
  place of the first target and throws "Bad number of targets". With one configuration the same happens
  for the second package of the input. `BuiltWithinLimits` lists, as the code's own limits, all that this
  commit refuses; besides this one: a dependency on a package of the input is looked up in storages only
  (`base.cpp:893`; the tests `cpp/static` and `cpp/exe_lib` have such dependencies), and the three limits
  of `native.cpp` below.

Met while modelling, and visible in the models as exceptions that the properties name:

- `command.cpp:518`: an up-to-date command of a pool gives back a resource it never took, and so does a
  job of a pipe that finds the head executed: the pool grows beyond its size, as `PoolSound` says exactly.
- `command_storage.cpp:318`: the record is logged before its files, against the comment in
  `command.cpp:615`. A header seen only in that record is then forgotten for good; `IncrementalIsCurrent`
  excepts a death between the two.
- `file.cpp:59`: copying file data reads the time before the state, so that a copy made during a
  refresh may say "there is a time" and "it is zero": a source is called missing (`RaceHasOneFlaw`).
- `storage.cpp:299`: a local package without directory takes the other storages' candidates with it
  (`AnswerIsRight`).
- `storage_remote.cpp:56`: an update by an open storage advances the repository and its copy in memory,
  not the file; no process loads that version into the file any more (`mishaps`, "late").
- `storage_remote.cpp:207`: after a failed git pull the directory is removed and not created again.
- `rule.cpp:734`: the definition file is made once, from the objects of the pass that links first. Objects
  that come later are linked but not in it, against the comment "export all symbols" (`rule.cpp:731`);
  `LateFiles` says exactly which. The link command of a target outside Windows is made from files with the
  extensions of Windows (so `AllLinked` speaks of Windows only).
- `native.cpp:2041`, `:2142`: a static or header-only library with dependencies fails an assertion in
  `prepare_pass3`; a dependency that is exported by a dependency meets an unimplemented branch.
- `native.cpp:1752`: a package is recorded as installed before its commands run; the next process resolves it
  as a binary, which the driver cannot load.
- `execution_plan.cpp`: jobs outlive `execute()` when the loop is left early and read its dead locals.
- `command.cpp:550`: a job of a pipe may find the head executed between its tests, and fail with "Trying to
  execute command twice".

## 7. Not modelled

- Text and data without control: command lines, options of compilers, front ends, client, GUI, protocol,
  graph and trace output, serialization of plans, versions and ranges as text.
- Bodies that only throw "unimplemented" at this commit: the distributed builder, import of packages, parts
  of `SwBuild` and of the prepare passes (`prepare_pass3_2` and `_3_3` are not reached with dependencies).
- `driver/checks.cpp` (`performChecks`): its control is a plan of commands like any other; its results are
  data. `core/build.cpp`'s time limit, `support/source.cpp` and the algebra of settings are in the plan.
- The builtin storage of detected programs, which is filled once at start and read.
- In `RemoteDatabase`: torn files, the busy timeout of SQLite, `gForceServerQuery`, and system settings
  that forbid updates. In `RuleFiles`: precompiled headers, circular import libraries, and the free
  commands of a file (`rule_file.cpp:59`), as nothing in the code calls `RuleFiles::addCommand` (a rule of
  a user could). In `PackageLoading`: the driver's config packages and targets of more than one package
  per entry point. In `PackageStorage`: binaries with settings, deletion, and a second process. In
  `CommandRecords`: a second process.

Three hazards are outside what the models distinguish, and need a test or a review instead: the static
buffer that the writers of several `CommandStorage`s share (`command_storage.cpp:308`), `isOutdated()` of a
head that writes its fields without a lock (`command.cpp:263`), and the duration in `parseTimeLimit` that
is never initialised (`core/build.cpp:214`).
