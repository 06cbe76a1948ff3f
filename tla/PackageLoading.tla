---------------------------- MODULE PackageLoading ----------------------------
(* sw build: the client loads every package of the input in every            *)
(* configuration (command/build.cpp), and transform_executor takes their     *)
(* commands.  A loader makes one target per settings (driver/package.cpp);   *)
(* prepare1 finds the packages of its dependencies, and only prepare2, run   *)
(* from getCommands, loads them ("to prevent loops", native.cpp).            *)
(*                                                                           *)
(* A target is a pair of a name and a configuration.  The stack holds the    *)
(* nested getCommands() calls, the innermost first.  The driver's config     *)
(* packages, whose build is not implemented, are left out.                   *)
EXTENDS Naturals, Sequences, FiniteSets

CONSTANTS
  Name,         \* names of packages
  Config,       \* settings
  HostConfig,   \* getHostSettings()
  Projects,     \* the projects considered
  Runs,         \* bound: processes that build the project, one after another
  MaxDepth,     \* bound: nested getCommands() calls
  None          \* no package or settings; a target that was moved away

Kinds == {"program", "executable", "static", "header"}
Uses == {"no", "private", "public", "tool"}   \* "tool": a rule or dummy dependency
Target == Name \X Config

ASSUME LoadingAssumption ==
  /\ IsFiniteSet(Name) /\ IsFiniteSet(Config)
  /\ "path" \notin Name                    \* the key of the build of the input
  /\ None \notin Name
  /\ HostConfig \in Config
  /\ Runs \in Nat \ {0} /\ MaxDepth \in Nat \ {0}
  /\ \A p \in Projects :
       /\ p.kind \in [Name -> Kinds]
       /\ p.use \in [Name -> [Name -> Uses]]
       /\ p.stored \subseteq Name            \* with sources in a storage
       /\ p.path \in Seq(Name)               \* the packages of the input
       /\ p.asked \in Seq(Config)            \* createSettings()
       /\ \A n \in Name : p.kind[n] = "program" => \A d \in Name : p.use[n][d] = "no"

VARIABLES
  project,      \* the project, which nothing changes
  run,          \* the process
  installed,    \* rows of the local storage with settings: built packages
  before,       \* installed, when the process started
  phase,        \* where the process is
  todo,         \* packages still to be loaded, or to give their commands
  loaders,      \* transform::package_loaders
  settings,     \* current_settings of each build
  known,        \* known_target of each build
  added,        \* added_targets of each build
  transforms,   \* the transforms of each loader
  found,        \* resolved_pkg of the dependencies of each target
  asking,       \* targets with in_get_commands
  commands,     \* targets whose commands are known
  stack,        \* nested getCommands()
  taken         \* targets whose commands the executor has

vars == <<project, run, installed, before, phase, todo, loaders, settings, known, added,
          transforms, found, asking, commands, stack, taken>>
process == <<todo, loaders, settings, known, added, transforms, found, asking, commands,
             stack, taken>>

------------------------------------------------------------------------------
Kind(t) == project.kind[t[1]]
PathNames == {project.path[i] : i \in 1..Len(project.path)}

(* The client loads each package of the input with each of the settings. *)
Requests ==
  LET k == Len(project.asked) IN
  [i \in 1..(Len(project.path) * k) |->
    <<project.path[((i - 1) \div k) + 1], project.asked[((i - 1) % k) + 1]>>]

(* getDependencies(); the settings of a dependency are completed with those  *)
(* the target exports, or those of the host.                                 *)
Dependencies(t) == {d \in Name : project.use[t[1]][d] # "no"}
DependencyOf(t, d) == <<d, IF project.use[t[1]][d] = "tool" THEN HostConfig ELSE t[2]>>
Active(t) == {d \in Name : project.use[t[1]][d] \in {"private", "public"}}

(* prepare_pass2 of a static or header only library adds a copy of every     *)
(* dependency to the interface, and nothing resolves the copies.             *)
Propagated(t) == IF Kind(t) \in {"static", "header"} THEN Active(t) ELSE {}

(* What a dependency exports in its interface settings: pass3_1 stops there. *)
Exported(d) == {e \in Name : project.use[d][e] = "public"}

(* resolveDependency: the package with these settings, or else its sources. *)
Resolved_SourcesFirst(t, d) ==
  IF project.kind[d] = "program" THEN "program"
  ELSE IF d \in project.stored THEN "source"
  ELSE IF DependencyOf(t, d) \in installed THEN "binary"
  ELSE "none"
Resolved(t, d) ==
  IF project.kind[d] = "program" THEN "program"
  ELSE IF DependencyOf(t, d) \in installed THEN "binary"
  ELSE IF d \in project.stored THEN "source"
  ELSE "none"

------------------------------------------------------------------------------
(* The inputs of one path share one build; a package of a storage has its    *)
(* own.                                                                      *)
BuildOf(n) == IF loaders[n] = "path" THEN "path" ELSE n
Builds == Name \cup {"path"}

InputOf(b) == IF b = "path" THEN PathNames ELSE {b}

(* load() tells the build which settings and which package it wants, and the *)
(* build keeps both when the load is over.                                   *)
SettingsFor(t) == [settings EXCEPT ![BuildOf(t[1])] = t[2]]
KnownFor(t) == [known EXCEPT ![BuildOf(t[1])] = t[1]]

(* The build function makes every package of its input, with the settings    *)
(* that the build holds; markAsDummy takes away those it does not want.      *)
Made(t) ==
  LET b == BuildOf(t[1]) IN
  {<<n, SettingsFor(t)[b]>> : n \in {n \in InputOf(b) : KnownFor(t)[b] \in {None, n}}}

(* loadPackage() prepares what was made, and wants exactly one target among  *)
(* those the build ever added: it moves it away, and an empty pointer stays. *)
LoadThrows(t) ==
  /\ t \notin DOMAIN transforms
  /\ \/ \E u \in Made(t) : \E d \in Dependencies(u) : Resolved(u, d) = "none"
     \/ Len(added[BuildOf(t[1])]) + Cardinality(Made(t)) # 1

Put(f, t, v) == [x \in DOMAIN f \cup {t} |-> IF x = t THEN v ELSE f[x]]

Load(t) ==
  IF t \in DOMAIN transforms THEN UNCHANGED <<settings, known, added, transforms, found>>
  ELSE LET made == CHOOSE u \in Made(t) : TRUE IN
       /\ settings' = SettingsFor(t)
       /\ known' = KnownFor(t)
       /\ added' = [added EXCEPT ![BuildOf(t[1])] = <<None>>]
       /\ transforms' = Put(transforms, t, made)
       /\ found' = Put(found, t, [d \in Dependencies(made) |-> Resolved(made, d)])

Throw == phase' = "failed" /\ UNCHANGED <<project, run, installed, before, process>>

------------------------------------------------------------------------------
Init ==
  /\ project \in Projects
  /\ run = 1
  /\ installed = {} /\ before = {}
  /\ phase = "inputs"
  /\ todo = <<>> /\ stack = <<>>
  /\ loaders = [n \in Name |-> "none"]
  /\ settings = [b \in Builds |-> None] /\ known = [b \in Builds |-> None]
  /\ added = [b \in Builds |-> <<>>]
  /\ transforms = <<>> /\ found = <<>>
  /\ asking = {} /\ commands = {} /\ taken = {}

(* load_packages: the packages of the input, loaded dry, give their names;   *)
(* the settings of this load, a local variable, are gone after it.           *)
LoadPackages_Unregistered ==
  /\ phase = "inputs"
  /\ phase' = "load"
  /\ todo' = Requests
  /\ UNCHANGED <<project, run, installed, before, loaders, settings, known, added,
                 transforms, found, asking, commands, stack, taken>>
LoadPackages ==
  /\ phase = "inputs"
  /\ phase' = "load"
  /\ todo' = Requests
  /\ loaders' = [n \in Name |-> IF n \in PathNames THEN "path" ELSE loaders[n]]
  /\ UNCHANGED <<project, run, installed, before, settings, known, added, transforms,
                 found, asking, commands, stack, taken>>

LoadRequested ==
  /\ phase = "load" /\ todo # <<>>
  /\ ~LoadThrows(Head(todo))
  /\ Load(Head(todo))
  /\ todo' = Tail(todo)
  /\ UNCHANGED <<project, run, installed, before, phase, loaders, asking, commands,
                 stack, taken>>

LoadRequestedFails ==
  /\ phase = "load" /\ todo # <<>>
  /\ LoadThrows(Head(todo))
  /\ Throw

(* transform_executor::execute begins. *)
Execute ==
  /\ phase = "load" /\ todo = <<>>
  /\ phase' = "take"
  /\ todo' = Requests
  /\ UNCHANGED <<project, run, installed, before, loaders, settings, known, added,
                 transforms, found, asking, commands, stack, taken>>

------------------------------------------------------------------------------
(* Commands cs are merged into those of the innermost call, or into those of *)
(* the executor.                                                             *)
Merge(cs, calls) ==
  IF calls = <<>> THEN taken' = taken \cup cs /\ stack' = <<>>
  ELSE /\ stack' = <<[Head(calls) EXCEPT !.cmds = @ \cup cs]>> \o Tail(calls)
       /\ UNCHANGED taken

(* t->get_commands(): a target whose commands are known gives them without   *)
(* those of its dependencies, one that is being asked gives nothing.         *)
GetCommands_Unguarded(t, calls) ==
  IF Kind(t) = "program" \/ t \in commands
  THEN Merge({t} \cap commands, calls) /\ UNCHANGED asking
  ELSE /\ Len(calls) < MaxDepth
       /\ asking' = asking \cup {t}
       /\ stack' = <<[target |-> t, at |-> "prepare", left |-> Dependencies(t), cmds |-> {}]>>
                   \o calls
       /\ UNCHANGED taken
GetCommands(t, calls) ==
  IF Kind(t) = "program" \/ t \in commands \/ t \in asking
  THEN Merge({t} \cap commands, calls) /\ UNCHANGED asking
  ELSE /\ Len(calls) < MaxDepth
       /\ asking' = asking \cup {t}
       /\ stack' = <<[target |-> t, at |-> "prepare", left |-> Dependencies(t), cmds |-> {}]>>
                   \o calls
       /\ UNCHANGED taken

TakeRequested ==
  /\ phase = "take" /\ stack = <<>> /\ todo # <<>>
  /\ GetCommands(transforms[Head(todo)], <<>>)
  /\ todo' = Tail(todo)
  /\ UNCHANGED <<project, run, installed, before, phase, loaders, settings, known,
                 added, transforms, found, commands>>

Top == Head(stack)
In(at) == phase = "take" /\ stack # <<>> /\ Top.at = at

(* prepare_pass3 loads one dependency: load_package finds a loader by the    *)
(* name of the package, or makes one of the driver.                          *)
LinkFails(d) ==
  \/ loaders[d] = "none" /\ found[Top.target][d] = "binary"
  \/ LoadThrows(DependencyOf(Top.target, d))

LinkDependency ==
  /\ In("prepare")
  /\ \E d \in Top.left :
       /\ ~LinkFails(d)
       /\ loaders' = [loaders EXCEPT ![d] = IF @ = "none" THEN "driver" ELSE @]
       /\ Load(DependencyOf(Top.target, d))
       /\ stack' = <<[Top EXCEPT !.left = @ \ {d}]>> \o Tail(stack)
  /\ UNCHANGED <<project, run, installed, before, phase, todo, asking, commands, taken>>

LinkDependencyFails ==
  /\ In("prepare")
  /\ \/ \E d \in Top.left : LinkFails(d)
     \/ Propagated(Top.target) # {}
  /\ Throw

(* The rest of prepare2, and getCommands1: a target that is not local is     *)
(* recorded as installed with its settings.                                  *)
Reexports(t) == Kind(t) # "header" /\ \E d \in Active(t) : Exported(d) # {}

Prepare2 ==
  LET t == Top.target
      own == IF Kind(t) = "header" THEN {} ELSE {t} IN
  /\ In("prepare") /\ Top.left = {} /\ Propagated(t) = {}
  /\ ~Reexports(t)
  /\ installed' = IF loaders[t[1]] = "path" THEN installed ELSE installed \cup {t}
  /\ commands' = commands \cup own
  /\ stack' = <<[Top EXCEPT !.at = "merge", !.left = Dependencies(t), !.cmds = own]>> \o Tail(stack)
  /\ UNCHANGED <<project, run, before, phase, todo, loaders, settings, known, added,
                 transforms, found, asking, taken>>

Prepare2Fails ==
  /\ In("prepare") /\ Top.left = {} /\ Propagated(Top.target) = {}
  /\ Reexports(Top.target)
  /\ Throw

(* getCommands() goes on with the commands of the dependencies... *)
TakeDependency ==
  /\ In("merge")
  /\ \E d \in Top.left :
       GetCommands(transforms[DependencyOf(Top.target, d)],
                   <<[Top EXCEPT !.left = @ \ {d}]>> \o Tail(stack))
  /\ UNCHANGED <<project, run, installed, before, phase, todo, loaders, settings, known,
                 added, transforms, found, commands>>

(* ... and returns all of them. *)
Return_Own ==
  /\ In("merge") /\ Top.left = {}
  /\ Merge({Top.target} \cap commands, Tail(stack))
  /\ UNCHANGED <<project, run, installed, before, phase, todo, loaders, settings, known,
                 added, transforms, found, asking, commands>>
Return ==
  /\ In("merge") /\ Top.left = {}
  /\ Merge(Top.cmds, Tail(stack))
  /\ UNCHANGED <<project, run, installed, before, phase, todo, loaders, settings, known,
                 added, transforms, found, asking, commands>>

(* The plan of the commands is created and executed. *)
Finish ==
  /\ phase = "take" /\ stack = <<>> /\ todo = <<>>
  /\ phase' = "done"
  /\ UNCHANGED <<project, run, installed, before, process>>

(* The project is built again, by another process. *)
Again ==
  /\ phase \in {"done", "failed"} /\ run < Runs
  /\ run' = run + 1
  /\ before' = installed
  /\ phase' = "inputs"
  /\ todo' = <<>> /\ stack' = <<>>
  /\ loaders' = [n \in Name |-> "none"]
  /\ settings' = [b \in Builds |-> None] /\ known' = [b \in Builds |-> None]
  /\ added' = [b \in Builds |-> <<>>]
  /\ transforms' = <<>> /\ found' = <<>>
  /\ asking' = {} /\ commands' = {} /\ taken' = {}
  /\ UNCHANGED <<project, installed>>

Next ==
  \/ LoadPackages \/ LoadRequested \/ LoadRequestedFails \/ Execute \/ TakeRequested
  \/ LinkDependency \/ LinkDependencyFails \/ Prepare2 \/ Prepare2Fails
  \/ TakeDependency \/ Return \/ Finish \/ Again

Spec == Init /\ [][Next]_vars
FairSpec == Spec /\ WF_vars(Next)

------------------------------------------------------------------------------
(* Properties.                                                               *)

TypeOK ==
  /\ run \in 1..Runs
  /\ installed \subseteq Target /\ before \subseteq Target
  /\ phase \in {"inputs", "load", "take", "done", "failed"}
  /\ todo \in Seq(Target)
  /\ loaders \in [Name -> {"none", "path", "driver"}]
  /\ settings \in [Builds -> Config \cup {None}] /\ known \in [Builds -> Name \cup {None}]
  /\ DOMAIN added = Builds /\ DOMAIN transforms \subseteq Target
  /\ DOMAIN found = DOMAIN transforms
  /\ asking \subseteq Target /\ commands \subseteq asking /\ taken \subseteq commands
  /\ \A i \in 1..Len(stack) :
       stack[i].target \in asking /\ stack[i].at \in {"prepare", "merge"}

(* A transform is a target of the package it was asked for, built with the   *)
(* settings it was asked with, although the build and its settings are       *)
(* shared by the loaders of an input and outlive each load.                  *)
BuiltAsAsked == \A t \in DOMAIN transforms : transforms[t] = t

(* What is built is used: a dependency on a package of the input is loaded   *)
(* from the input, never from the storage that resolved it.                  *)
InputComesFirst == \A n \in PathNames : loaders[n] # "driver"

(* Each dependency is the package that was asked for: from the input if the  *)
(* input has it, with its own settings, whoever asked for it first.          *)
LoadedAsAsked == TypeOK /\ BuiltAsAsked /\ InputComesFirst

(* prepare2 has no guard of its own: no target is asked for its commands     *)
(* while it is being asked, in a cycle of dependencies too, and a target     *)
(* whose commands are known is not prepared again.                           *)
PreparedOnce ==
  \A i, j \in 1..Len(stack) :
    /\ stack[i].target = stack[j].target => i = j
    /\ stack[i].at = "prepare" => stack[i].target \notin commands

(* All that the asked packages need, with the configuration it is needed in. *)
Needs(ts) == ts \cup UNION {{DependencyOf(t, d) : d \in Dependencies(t)} : t \in ts}
Reach[ts \in SUBSET Target] ==
  IF Needs(ts) \subseteq ts THEN ts ELSE Reach[Needs(ts)]
NeededFor(asked) == Reach[{<<n, c>> : n \in PathNames, c \in asked}]
Asked == {project.asked[i] : i \in 1..Len(project.asked)}

(* A build executes the commands of every target it needs, once it executes  *)
(* any, in cycles and diamonds of dependencies too.                          *)
ClosureTaken ==
  phase = "done" =>
    taken = {t \in NeededFor(Asked) : Kind(t) \in {"executable", "static"}}

(* The limits of this commit, when these targets are needed.  The code        *)
(*   - resolves a dependency in storages only, one on a package of the input *)
(*     too (resolveDependency),                                              *)
(*   - never resolves what it propagates from a library (prepare_pass3),     *)
(*   - does not read what a dependency exports (prepare_pass3_1),            *)
(*   - cannot load what an earlier process recorded as installed (getInput), *)
(*   - loads one target in each build (loadPackage).                         *)
AllWithinLimits(needed) ==
  /\ \A t \in needed :
       /\ \A d \in Dependencies(t) :
            project.kind[d] = "program" \/ d \in project.stored
       /\ Propagated(t) = {}
       /\ ~Reexports(t)
       /\ t \notin before
  /\ \A t, u \in needed : t[1] = u[1] \/ {t[1], u[1]} \subseteq PathNames => t = u
WithinLimits(asked) == AllWithinLimits(NeededFor(asked))

(* A process builds exactly what lies within these limits: its verdict never *)
(* depends on the order dependencies, sets of pointers, are visited in, nor  *)
(* on who loaded what before.  The limits are the code's own, not what the   *)
(* project may expect: see RefusedForCause.                                  *)
BuiltWithinLimits ==
  /\ phase = "done" => WithinLimits(Asked)
  /\ phase = "failed" => ~WithinLimits(Asked)

(* Each process executes the plan or throws, whatever the cycles of the      *)
(* dependencies.                                                             *)
RunsEnd == <>(run = Runs /\ phase \in {"done", "failed"})

(* What the tests of the repository and its manual expect: a build is        *)
(* refused only for a dependency that is neither a package of the input nor  *)
(* one with sources in a storage, in several configurations too              *)
(* ("-configuration ... Specify multiple using a comma", client.tex).        *)
RefusedForCause ==
  phase = "failed" =>
    \E t \in NeededFor(Asked) : \E d \in Dependencies(t) :
      project.kind[d] # "program" /\ d \notin project.stored \cup PathNames
==============================================================================
