------------------------ MODULE PackageLoadingProofs ------------------------
(***************************************************************************)
(* Proofs about PackageLoading for any projects, packages, configurations  *)
(* and numbers of builds: every target is the one that was asked for, the  *)
(* recursion over dependencies prepares none twice and takes the commands  *)
(* of all that is needed, in cycles too, and a process builds exactly what *)
(* lies within the limits of the code, in whatever order it visits sets.   *)
(***************************************************************************)
EXTENDS PackageLoading, FiniteSetTheorems, TLAPS

Frame == [target : Target, at : {"prepare", "merge"}, left : SUBSET Name,
          cmds : SUBSET Target]

Shape ==
  /\ project \in Projects /\ run \in 1..Runs
  /\ installed \subseteq Target /\ before \subseteq Target
  /\ phase \in {"inputs", "load", "take", "done", "failed"}
  /\ todo \in Seq(Target)
  /\ loaders \in [Name -> {"none", "path", "driver"}]
  /\ settings \in [Builds -> Config \cup {None}] /\ known \in [Builds -> Name \cup {None}]
  /\ added \in [Builds -> Seq(Target \cup {None})]
  /\ asking \subseteq Target /\ commands \subseteq asking /\ taken \subseteq commands

(* The transforms; once the input is known its packages have its loader.    *)
Transforms ==
  /\ DOMAIN transforms \subseteq Target /\ DOMAIN found = DOMAIN transforms
  /\ BuiltAsAsked
  /\ \A n \in PathNames \cap Name :
       loaders[n] = IF phase = "inputs" THEN "none" ELSE "path"
  /\ \A n \in Name : loaders[n] = "path" => n \in PathNames

(* What is asked for its commands was loaded before.                        *)
Loaded ==
  /\ phase = "load" => \A i \in 1..Len(Requests) :
       \/ Requests[i] \in DOMAIN transforms
       \/ \E k \in 1..Len(todo) : todo[k] = Requests[i]
  /\ phase = "take" => \A k \in 1..Len(todo) : todo[k] \in DOMAIN transforms

(* A frame of a call, when the targets ts are loaded and the commands of cs *)
(* are known.                                                               *)
FrameOK(f, cs, ts) ==
  /\ f.left \subseteq Dependencies(f.target)
  /\ f.cmds \subseteq cs
  /\ \A d \in Dependencies(f.target) :
       (f.at = "prepare" /\ d \in f.left) \/ DependencyOf(f.target, d) \in ts
  /\ f.at = "prepare" => f.target \notin cs

(* The nested calls are of different targets, all marked.                   *)
Nested(calls, marked, cs, ts) ==
  /\ calls \in Seq(Frame)
  /\ \A i \in 1..Len(calls) : calls[i].target \in marked /\ FrameOK(calls[i], cs, ts)
  /\ \A i, j \in 1..Len(calls) : calls[i].target = calls[j].target => i = j

IInv == Shape /\ Transforms /\ Loaded /\ Nested(stack, asking, commands, DOMAIN transforms)

LEMMA Division ==
  ASSUME NEW k \in Nat, NEW n \in Nat, NEW i \in 1..(n * k)
  PROVE  ((i - 1) \div k) + 1 \in 1..n /\ ((i - 1) % k) + 1 \in 1..k
  OBVIOUS

LEMMA Product == ASSUME NEW k \in Nat, NEW n \in Nat PROVE n * k \in Nat
  OBVIOUS

LEMMA RequestsAreTargets ==
  ASSUME project \in Projects
  PROVE  /\ Requests \in Seq(Target)
         /\ \A i \in 1..Len(Requests) : Requests[i][1] \in PathNames
<1> DEFINE k == Len(project.asked)
           n == Len(project.path)
<1>1. /\ project.path \in Seq(Name) /\ project.asked \in Seq(Config)
      /\ k \in Nat /\ n \in Nat
  BY LoadingAssumption
<1>2. Requests = [i \in 1..(n * k) |->
        <<project.path[((i - 1) \div k) + 1], project.asked[((i - 1) % k) + 1]>>]
  BY DEF Requests
<1>3. \A i \in 1..n : project.path[i] \in Name /\ project.path[i] \in PathNames
  BY <1>1 DEF PathNames
<1>4. \A i \in 1..k : project.asked[i] \in Config
  BY <1>1
<1> HIDE DEF k, n
<1>5. n * k \in Nat
  BY <1>1, Product
<1>6. ASSUME NEW i \in 1..(n * k)
      PROVE  Requests[i] \in Target /\ Requests[i][1] \in PathNames
  <2>1. ((i - 1) \div k) + 1 \in 1..n /\ ((i - 1) % k) + 1 \in 1..k
    BY <1>1, Division
  <2> QED
    BY <1>2, <1>3, <1>4, <2>1 DEF Target
<1>7. Requests \in Seq(Target) /\ Len(Requests) = n * k
  BY <1>2, <1>5, <1>6
<1> QED
  BY <1>6, <1>7

LEMMA InitInv == Init => IInv
<1> SUFFICES ASSUME Init PROVE IInv
  OBVIOUS
<1>1. Shape
  BY LoadingAssumption DEF Init, Shape
<1>2. Transforms /\ Loaded
  BY DEF Init, Transforms, Loaded, BuiltAsAsked
<1>3. Nested(stack, asking, commands, DOMAIN transforms)
  BY DEF Init, Nested
<1> QED
  BY <1>1, <1>2, <1>3 DEF IInv
-----------------------------------------------------------------------------
LEMMA DependenciesAreTargets ==
  ASSUME NEW t \in Target
  PROVE  /\ Dependencies(t) \subseteq Name
         /\ \A d \in Dependencies(t) : DependencyOf(t, d) \in Target
  BY LoadingAssumption DEF Target, Dependencies, DependencyOf

(* Whatever the build kept of the last load, this one makes the package and  *)
(* the settings that are wanted, and nothing else of the input.              *)
LEMMA MadeIs ==
  ASSUME Shape, Transforms, NEW t \in Target
  PROVE  /\ Made(t) = {t} /\ Cardinality(Made(t)) = 1
         /\ SettingsFor(t) \in [Builds -> Config \cup {None}]
         /\ KnownFor(t) \in [Builds -> Name \cup {None}]
<1> DEFINE b == BuildOf(t[1])
<1>1. /\ t[1] \in Name /\ t[2] \in Config /\ t = <<t[1], t[2]>>
      /\ b \in Builds /\ t[1] \in InputOf(b)
  BY LoadingAssumption DEF Target, BuildOf, Builds, InputOf, Transforms
<1>2. /\ SettingsFor(t) \in [Builds -> Config \cup {None}] /\ SettingsFor(t)[b] = t[2]
      /\ KnownFor(t) \in [Builds -> Name \cup {None}] /\ KnownFor(t)[b] = t[1]
  BY <1>1 DEF Shape, SettingsFor, KnownFor
<1> HIDE DEF b
<1>3. {n \in InputOf(b) : KnownFor(t)[b] \in {None, n}} = {t[1]}
  BY <1>1, <1>2, LoadingAssumption
<1>4. Made(t) = {<<n, SettingsFor(t)[b]>> : n \in {t[1]}}
  BY <1>3 DEF Made, b
<1>5. Made(t) = {t}
  BY <1>1, <1>2, <1>4
<1>6. Cardinality({t}) = 1
  BY FS_Singleton
<1> QED
  BY <1>2, <1>5, <1>6

(* What a load that makes a target makes.                                    *)
LEMMA LoadIs ==
  ASSUME Shape, Transforms, NEW t \in Target, t \notin DOMAIN transforms,
         ~LoadThrows(t), Load(t)
  PROVE  /\ added[BuildOf(t[1])] = <<>>
         /\ added' = [added EXCEPT ![BuildOf(t[1])] = <<None>>]
         /\ settings' \in [Builds -> Config \cup {None}]
         /\ known' \in [Builds -> Name \cup {None}]
         /\ transforms' = Put(transforms, t, t)
         /\ found' = Put(found, t, [d \in Dependencies(t) |-> Resolved(t, d)])
         /\ \A d \in Dependencies(t) : Resolved(t, d) # "none"
<1> DEFINE b == BuildOf(t[1])
           made == CHOOSE u \in Made(t) : TRUE
<1>1. b \in Builds /\ added[b] \in Seq(Target \cup {None})
  BY DEF BuildOf, Builds, Target, Shape
<1>2. Made(t) = {t} /\ Cardinality(Made(t)) = 1
  BY MadeIs
<1>3. made = t
  BY <1>2
<1>4. Len(added[b]) + 1 = 1 /\ \A d \in Dependencies(t) : Resolved(t, d) # "none"
  BY <1>2 DEF LoadThrows
<1>5. added[b] = <<>>
  BY <1>1, <1>4
<1>6. /\ settings' = SettingsFor(t) /\ known' = KnownFor(t)
      /\ added' = [added EXCEPT ![b] = <<None>>]
      /\ transforms' = Put(transforms, t, made)
      /\ found' = Put(found, t, [d \in Dependencies(made) |-> Resolved(made, d)])
  BY DEF Load
<1> HIDE DEF made
<1> QED
  BY <1>3, <1>4, <1>5, <1>6, MadeIs

(* A load either finds the target or makes exactly it.                      *)
LEMMA LoadMakes ==
  ASSUME Shape, Transforms, NEW t \in Target, ~LoadThrows(t), Load(t)
  PROVE  /\ added' \in [Builds -> Seq(Target \cup {None})]
         /\ settings' \in [Builds -> Config \cup {None}]
         /\ known' \in [Builds -> Name \cup {None}]
         /\ DOMAIN transforms' = DOMAIN transforms \cup {t}
         /\ DOMAIN found' = DOMAIN transforms'
         /\ \A x \in DOMAIN transforms' : transforms'[x] = x
<1>1. CASE t \in DOMAIN transforms
  <2>1. UNCHANGED <<settings, known, added, transforms, found>>
    BY <1>1 DEF Load
  <2> QED
    BY <1>1, <2>1 DEF Shape, Transforms, BuiltAsAsked
<1>2. CASE t \notin DOMAIN transforms
  <2>1. BuildOf(t[1]) \in Builds /\ <<None>> \in Seq(Target \cup {None})
    BY DEF BuildOf, Builds, Target
  <2>2. added' \in [Builds -> Seq(Target \cup {None})]
    BY <1>2, <2>1, LoadIs DEF Shape
  <2>3. /\ settings' \in [Builds -> Config \cup {None}]
        /\ known' \in [Builds -> Name \cup {None}]
        /\ transforms' = Put(transforms, t, t)
        /\ found' = Put(found, t, [d \in Dependencies(t) |-> Resolved(t, d)])
    BY <1>2, LoadIs
  <2> QED
    BY <2>2, <2>3 DEF Put, Transforms, BuiltAsAsked
<1> QED
  BY <1>1, <1>2

(* The nested calls when the innermost returns, ...                         *)
LEMMA NestedTail ==
  ASSUME NEW calls, NEW m, NEW cs, NEW ts, Nested(calls, m, cs, ts), calls # <<>>
  PROVE  Nested(Tail(calls), m, cs, ts)
<1>1. /\ calls \in Seq(Frame) /\ Tail(calls) \in Seq(Frame) /\ Len(calls) \in Nat
      /\ Len(Tail(calls)) = Len(calls) - 1
      /\ \A i \in 1..Len(Tail(calls)) : Tail(calls)[i] = calls[i + 1]
  BY DEF Nested
<1> QED
  BY <1>1 DEF Nested

(* ... when it goes on, ...                                                 *)
LEMMA NestedTop ==
  ASSUME NEW calls, NEW m, NEW cs, NEW cs2, NEW ts, NEW f \in Frame,
         Nested(calls, m, cs, ts), calls # <<>>, f.target = Head(calls).target,
         cs \subseteq cs2, cs2 \subseteq cs \cup {f.target}, FrameOK(f, cs2, ts)
  PROVE  Nested(<<f>> \o Tail(calls), m, cs2, ts)
<1> DEFINE new == <<f>> \o Tail(calls)
<1>1. /\ calls \in Seq(Frame) /\ Len(calls) \in Nat /\ Len(calls) > 0
      /\ new \in Seq(Frame) /\ Len(new) = Len(calls)
      /\ \A i \in 1..Len(calls) : new[i] = IF i = 1 THEN f ELSE calls[i]
  BY DEF Nested
<1>2. Head(calls) = calls[1]
  BY <1>1
<1> HIDE DEF new
<1>3. \A i \in 1..Len(new) : new[i].target = calls[i].target
  BY <1>1, <1>2
<1>4. ASSUME NEW i \in 1..Len(new) PROVE new[i].target \in m /\ FrameOK(new[i], cs2, ts)
  <2>1. CASE i = 1
    BY <1>1, <1>3, <2>1 DEF Nested
  <2>2. CASE i # 1
    <3>1. new[i] = calls[i] /\ calls[i].target # f.target
      BY <1>1, <1>2, <2>2 DEF Nested
    <3> QED
      BY <1>1, <3>1 DEF Nested, FrameOK
  <2> QED
    BY <2>1, <2>2
<1>5. Nested(new, m, cs2, ts)
  BY <1>1, <1>3, <1>4 DEF Nested
<1> QED
  BY <1>5 DEF new

(* ... and when another begins.                                             *)
LEMMA NestedPush ==
  ASSUME NEW calls, NEW m, NEW cs, NEW ts, NEW f \in Frame,
         Nested(calls, m, cs, ts), f.target \notin m, FrameOK(f, cs, ts)
  PROVE  Nested(<<f>> \o calls, m \cup {f.target}, cs, ts)
<1> DEFINE new == <<f>> \o calls
<1>1. /\ calls \in Seq(Frame) /\ Len(calls) \in Nat
      /\ new \in Seq(Frame) /\ Len(new) = Len(calls) + 1
      /\ \A i \in 1..Len(new) : new[i] = IF i = 1 THEN f ELSE calls[i - 1]
  BY DEF Nested
<1> HIDE DEF new
<1>2. \A i \in 1..Len(new) : new[i].target \in m \cup {f.target} /\ FrameOK(new[i], cs, ts)
  BY <1>1 DEF Nested
<1>3. \A i, j \in 1..Len(new) : new[i].target = new[j].target => i = j
  <2> SUFFICES ASSUME NEW i \in 1..Len(new), NEW j \in 1..Len(new),
                      new[i].target = new[j].target
               PROVE  i = j
    OBVIOUS
  <2>1. \A k \in 1..Len(new) : k # 1 => k - 1 \in 1..Len(calls) /\ new[k] = calls[k - 1]
    BY <1>1
  <2>2. \A k \in 1..Len(new) : k # 1 => new[k].target \in m
    BY <2>1 DEF Nested
  <2>3. new[1] = f /\ (i = 1 <=> j = 1)
    BY <1>1, <2>2
  <2>4. CASE i = 1
    BY <2>3, <2>4
  <2>5. CASE i # 1
    <3>1. calls[i - 1].target = calls[j - 1].target
      BY <2>1, <2>3, <2>5
    <3>2. i - 1 = j - 1
      BY <2>1, <2>3, <2>5, <3>1 DEF Nested
    <3> QED
      BY <1>1, <3>2
  <2> QED
    BY <2>4, <2>5
<1>4. Nested(new, m \cup {f.target}, cs, ts)
  BY <1>1, <1>2, <1>3 DEF Nested
<1> QED
  BY <1>4 DEF new

LEMMA NestedMore ==
  ASSUME NEW calls, NEW m, NEW cs, NEW ts, NEW ts2,
         Nested(calls, m, cs, ts), ts \subseteq ts2
  PROVE  Nested(calls, m, cs, ts2)
  BY DEF Nested, FrameOK
-----------------------------------------------------------------------------
LEMMA MergeStep ==
  ASSUME NEW cs, NEW calls, NEW m, NEW ts, Shape, commands \subseteq Target,
         Nested(calls, m, commands, ts), cs \subseteq commands, Merge(cs, calls)
  PROVE  Nested(stack', m, commands, ts) /\ taken' \subseteq commands
<1>1. CASE calls = <<>>
  BY <1>1 DEF Merge, Nested, Shape
<1>2. CASE calls # <<>>
  <2> DEFINE f == [Head(calls) EXCEPT !.cmds = @ \cup cs]
  <2>1. Head(calls) \in Frame /\ FrameOK(Head(calls), commands, ts)
    BY <1>2 DEF Nested
  <2>2. f \in Frame /\ f.target = Head(calls).target
    BY <2>1 DEF Frame
  <2>3. FrameOK(f, commands, ts)
    BY <2>1 DEF FrameOK, Frame
  <2>4. stack' = <<f>> \o Tail(calls) /\ taken' = taken
    BY <1>2 DEF Merge
  <2> HIDE DEF f
  <2> QED
    BY <1>2, <2>2, <2>3, <2>4, NestedTop DEF Shape
<1> QED
  BY <1>1, <1>2

LEMMA GetCommandsStep ==
  ASSUME NEW t \in Target, NEW calls, NEW ts, Shape,
         Nested(calls, asking, commands, ts), GetCommands(t, calls)
  PROVE  /\ Nested(stack', asking', commands, ts)
         /\ asking \subseteq asking' /\ asking' \subseteq Target /\ taken' \subseteq commands
<1>0. commands \subseteq Target
  BY DEF Shape
<1>1. CASE Kind(t) = "program" \/ t \in commands \/ t \in asking
  <2>1. Merge({t} \cap commands, calls) /\ asking' = asking
    BY <1>1 DEF GetCommands
  <2> QED
    BY <1>0, <2>1, MergeStep DEF Shape
<1>2. CASE ~(Kind(t) = "program" \/ t \in commands \/ t \in asking)
  <2> DEFINE f == [target |-> t, at |-> "prepare", left |-> Dependencies(t), cmds |-> {}]
  <2>1. f \in Frame /\ f.target = t
    BY DependenciesAreTargets DEF Frame
  <2>2. FrameOK(f, commands, ts)
    BY <1>2 DEF FrameOK
  <2>3. asking' = asking \cup {t} /\ stack' = <<f>> \o calls /\ taken' = taken
    BY <1>2 DEF GetCommands
  <2> HIDE DEF f
  <2> QED
    BY <1>2, <2>1, <2>2, <2>3, NestedPush DEF Shape
<1> QED
  BY <1>1, <1>2
-----------------------------------------------------------------------------
(* The project stays, and with it what the calls depend on.                 *)
LEMMA NestedNext ==
  ASSUME UNCHANGED project, Nested(stack', asking', commands', DOMAIN transforms')
  PROVE  Nested(stack, asking, commands, DOMAIN transforms)'
  BY DEF Nested, FrameOK, Dependencies, DependencyOf

LEMMA SameRequests ==
  ASSUME UNCHANGED project
  PROVE  PathNames' = PathNames /\ Requests' = Requests
  BY DEF PathNames, Requests

LEMMA LoadPhaseStep ==
  ASSUME IInv, LoadPackages \/ LoadRequested \/ Execute
  PROVE  IInv'
<1> USE DEF IInv
<1>0. /\ UNCHANGED <<project, run, installed, before, asking, commands, stack, taken>>
      /\ PathNames' = PathNames /\ Requests' = Requests
  BY SameRequests DEF LoadPackages, LoadRequested, Execute
<1>1. CASE LoadPackages
  <2>1. Requests \in Seq(Target)
    BY RequestsAreTargets DEF Shape
  <2>2. Shape' /\ Loaded'
    BY <1>0, <1>1, <2>1 DEF LoadPackages, Shape, Loaded
  <2>3. Transforms'
    BY <1>0, <1>1 DEF LoadPackages, Transforms, Shape, BuiltAsAsked
  <2>4. Nested(stack, asking, commands, DOMAIN transforms)'
    BY <1>0, <1>1, NestedNext DEF LoadPackages
  <2> QED
    BY <2>2, <2>3, <2>4
<1>2. CASE LoadRequested
  <2> DEFINE t == Head(todo)
  <2>1. /\ phase = "load" /\ todo # <<>> /\ ~LoadThrows(t) /\ Load(t) /\ todo' = Tail(todo)
        /\ UNCHANGED <<phase, loaders>>
    BY <1>2 DEF LoadRequested
  <2>2. t \in Target /\ todo' \in Seq(Target)
    BY <2>1 DEF Shape
  <2>3. /\ added' \in [Builds -> Seq(Target \cup {None})]
        /\ settings' \in [Builds -> Config \cup {None}]
        /\ known' \in [Builds -> Name \cup {None}]
        /\ DOMAIN transforms' = DOMAIN transforms \cup {t}
        /\ DOMAIN found' = DOMAIN transforms'
        /\ \A x \in DOMAIN transforms' : transforms'[x] = x
    BY <2>1, <2>2, LoadMakes
  <2>4. Shape'
    BY <1>0, <2>1, <2>2, <2>3 DEF Shape
  <2>5. Transforms'
    BY <1>0, <2>1, <2>2, <2>3 DEF Transforms, BuiltAsAsked
  <2>6. Loaded'
    <3>1. \A k \in 1..Len(todo) : todo[k] = t \/ \E l \in 1..Len(todo') : todo'[l] = todo[k]
      <4>1. /\ todo \in Seq(Target) /\ Len(todo) \in Nat /\ Len(todo') = Len(todo) - 1
            /\ \A l \in 1..Len(todo') : todo'[l] = todo[l + 1]
            /\ t = todo[1]
        BY <2>1 DEF Shape
      <4>2. ASSUME NEW k \in 1..Len(todo), k # 1
            PROVE  k - 1 \in 1..Len(todo') /\ todo'[k - 1] = todo[k]
        BY <4>1, <4>2
      <4> QED
        BY <4>1, <4>2
    <3>2. /\ DOMAIN transforms' = DOMAIN transforms \cup {t} /\ phase = "load"
          /\ phase' = phase /\ Requests' = Requests
      BY <1>0, <2>1, <2>3
    <3>3. \A i \in 1..Len(Requests) :
            Requests[i] \in DOMAIN transforms \/ \E k \in 1..Len(todo) : todo[k] = Requests[i]
      BY <2>1 DEF Loaded
    <3> HIDE DEF t
    <3>4. \A i \in 1..Len(Requests') :
            \/ Requests'[i] \in DOMAIN transforms'
            \/ \E k \in 1..Len(todo') : todo'[k] = Requests'[i]
      BY <3>1, <3>2, <3>3
    <3> QED
      BY <3>2, <3>4 DEF Loaded
  <2>7. Nested(stack, asking, commands, DOMAIN transforms)'
    BY <1>0, <2>3, NestedMore, NestedNext
  <2> QED
    BY <2>4, <2>5, <2>6, <2>7
<1>3. CASE Execute
  <2>1. Requests \in Seq(Target)
    BY RequestsAreTargets DEF Shape
  <2>2. Shape'
    BY <1>0, <1>3, <2>1 DEF Execute, Shape
  <2>3. Loaded'
    BY <1>0, <1>3 DEF Execute, Loaded
  <2>4. Transforms'
    BY <1>0, <1>3 DEF Execute, Transforms, BuiltAsAsked
  <2>5. Nested(stack, asking, commands, DOMAIN transforms)'
    BY <1>0, <1>3, NestedNext DEF Execute
  <2> QED
    BY <2>2, <2>3, <2>4, <2>5
<1> QED
  BY <1>1, <1>2, <1>3

(* The end of a process, and the beginning of the next.                     *)
LEMMA ProcessStep ==
  ASSUME IInv, \/ LoadRequestedFails \/ LinkDependencyFails \/ Prepare2Fails
               \/ Finish \/ Again \/ UNCHANGED vars
  PROVE  IInv'
<1> USE DEF IInv, process
<1>0. project' = project /\ PathNames' = PathNames /\ Requests' = Requests
  BY SameRequests DEF LoadRequestedFails, LinkDependencyFails, Prepare2Fails, Finish, Again,
                      Throw, vars
<1>1. CASE Again
  <2>1. Shape'
    BY <1>0, <1>1, LoadingAssumption DEF Again, Shape
  <2>2. Transforms' /\ Loaded'
    BY <1>0, <1>1 DEF Again, Transforms, Loaded, BuiltAsAsked
  <2>3. Nested(<<>>, {}, {}, DOMAIN transforms')
    BY DEF Nested
  <2>4. Nested(stack, asking, commands, DOMAIN transforms)'
    BY <1>0, <1>1, <2>3, NestedNext DEF Again
  <2> QED
    BY <2>1, <2>2, <2>4
<1>2. CASE Finish \/ UNCHANGED vars \/ (Throw /\ phase # "inputs")
  <2>1. /\ UNCHANGED <<project, run, installed, before, process>>
        /\ (phase' \in {"done", "failed"} /\ phase # "inputs") \/ phase' = phase
    BY <1>2 DEF Finish, vars, Throw
  <2>2. Shape' /\ Transforms'
    BY <1>0, <2>1 DEF Shape, Transforms, BuiltAsAsked
  <2>3. Loaded'
    BY <1>0, <2>1 DEF Loaded
  <2>4. Nested(stack, asking, commands, DOMAIN transforms)'
    BY <2>1, NestedNext
  <2> QED
    BY <2>2, <2>3, <2>4
<1> QED
  BY <1>1, <1>2 DEF LoadRequestedFails, LinkDependencyFails, Prepare2Fails, In

(* transform_executor takes the commands; getCommands() recurs.             *)
LEMMA TakeStep ==
  ASSUME IInv, TakeRequested \/ LinkDependency \/ Prepare2 \/ TakeDependency \/ Return
  PROVE  IInv'
<1> DEFINE ts == DOMAIN transforms
           Rest == Tail(stack)
<1> USE DEF IInv
<1>0. /\ UNCHANGED <<project, run, before, phase>> /\ phase = "take"
      /\ PathNames' = PathNames /\ Requests' = Requests
  BY SameRequests DEF TakeRequested, LinkDependency, Prepare2, TakeDependency, Return, In
<1>t. /\ stack # <<>> =>
           /\ Top \in Frame /\ Top.target \in Target /\ Top.target \in asking
           /\ FrameOK(Top, commands, ts)
           /\ Nested(Rest, asking, commands, ts)
  <2> SUFFICES ASSUME stack # <<>>
               PROVE  /\ Top \in Frame /\ Top.target \in Target /\ Top.target \in asking
                      /\ FrameOK(Top, commands, ts) /\ Nested(Rest, asking, commands, ts)
    OBVIOUS
  <2>1. stack \in Seq(Frame) /\ Top = stack[1] /\ 1 \in 1..Len(stack)
    BY DEF Top, Nested
  <2>2. Top \in Frame /\ Top.target \in asking /\ FrameOK(Top, commands, ts)
    BY <2>1 DEF Nested
  <2> QED
    BY <2>2, NestedTail DEF Shape
<1>1. CASE TakeRequested
  <2> DEFINE t == Head(todo)
  <2>1. /\ todo # <<>> /\ stack = <<>> /\ GetCommands(transforms[t], <<>>)
        /\ todo' = Tail(todo)
        /\ UNCHANGED <<installed, loaders, settings, known, added, transforms, found, commands>>
    BY <1>1 DEF TakeRequested
  <2>2. /\ t \in ts /\ todo' \in Seq(Target)
        /\ \A k \in 1..Len(todo') : todo'[k] \in ts
    <3>1. /\ todo \in Seq(Target) /\ Len(todo) \in Nat /\ Len(todo') = Len(todo) - 1
          /\ \A l \in 1..Len(todo') : todo'[l] = todo[l + 1] /\ l + 1 \in 1..Len(todo)
          /\ t = todo[1] /\ 1 \in 1..Len(todo) /\ todo' \in Seq(Target)
      BY <2>1 DEF Shape
    <3> QED
      BY <1>0, <3>1 DEF Loaded
  <2>3. transforms[t] = t /\ t \in Target
    BY <2>2 DEF Transforms, BuiltAsAsked
  <2>4. Nested(<<>>, asking, commands, ts)
    BY DEF Nested
  <2>5. /\ Nested(stack', asking', commands, ts)
        /\ asking \subseteq asking' /\ asking' \subseteq Target /\ taken' \subseteq commands
    BY <2>1, <2>3, <2>4, GetCommandsStep
  <2>6. Shape'
    BY <1>0, <2>1, <2>2, <2>5 DEF Shape
  <2>7. Transforms' /\ Loaded'
    BY <1>0, <2>1, <2>2 DEF Transforms, Loaded, BuiltAsAsked
  <2>8. Nested(stack, asking, commands, DOMAIN transforms)'
    BY <1>0, <2>1, <2>5, NestedNext
  <2> QED
    BY <2>6, <2>7, <2>8
<1>2. CASE LinkDependency
  <2>1. PICK d \in Top.left :
          /\ ~LinkFails(d)
          /\ loaders' = [loaders EXCEPT ![d] = IF @ = "none" THEN "driver" ELSE @]
          /\ Load(DependencyOf(Top.target, d))
          /\ stack' = <<[Top EXCEPT !.left = @ \ {d}]>> \o Rest
    BY <1>2 DEF LinkDependency
  <2>2. stack # <<>> /\ Top.at = "prepare"
        /\ UNCHANGED <<installed, todo, asking, commands, taken>>
    BY <1>2 DEF LinkDependency, In
  <2> DEFINE t == DependencyOf(Top.target, d)
             f == [Top EXCEPT !.left = @ \ {d}]
  <2>3. t \in Target /\ d \in Name /\ d \in Dependencies(Top.target)
    BY <1>t, <2>1, <2>2, DependenciesAreTargets DEF FrameOK
  <2>4. /\ added' \in [Builds -> Seq(Target \cup {None})]
        /\ settings' \in [Builds -> Config \cup {None}]
        /\ known' \in [Builds -> Name \cup {None}]
        /\ DOMAIN transforms' = ts \cup {t}
        /\ DOMAIN found' = DOMAIN transforms'
        /\ \A x \in DOMAIN transforms' : transforms'[x] = x
    BY <2>1, <2>3, LoadMakes DEF LinkFails
  <2>5. Shape'
    BY <1>0, <2>1, <2>2, <2>3, <2>4 DEF Shape
  <2>6. Transforms' /\ Loaded'
    BY <1>0, <2>1, <2>2, <2>3, <2>4 DEF Transforms, Loaded, BuiltAsAsked, Shape
  <2>7. f \in Frame /\ f.target = Top.target
    BY <1>t, <2>2 DEF Frame
  <2>8. FrameOK(f, commands, ts \cup {t})
    BY <1>t, <2>2 DEF FrameOK, Frame
  <2>9. Nested(stack, asking, commands, ts \cup {t})
    BY NestedMore
  <2> HIDE DEF t, f
  <2>10. Nested(<<f>> \o Rest, asking, commands, ts \cup {t})
    BY <2>2, <2>7, <2>8, <2>9, NestedTop DEF Top
  <2>11. Nested(stack, asking, commands, DOMAIN transforms)'
    BY <1>0, <2>1, <2>2, <2>4, <2>10, NestedNext DEF f
  <2> QED
    BY <2>5, <2>6, <2>11
<1>3. CASE Prepare2
  <2> DEFINE t == Top.target
             own == IF Kind(t) = "header" THEN {} ELSE {t}
             f == [Top EXCEPT !.at = "merge", !.left = Dependencies(t), !.cmds = own]
  <2>1. /\ stack # <<>> /\ Top.at = "prepare" /\ Top.left = {}
        /\ commands' = commands \cup own
        /\ stack' = <<f>> \o Rest
        /\ installed' \subseteq installed \cup {t}
        /\ UNCHANGED <<todo, loaders, settings, known, added, transforms, found, asking,
                       taken>>
    BY <1>3 DEF Prepare2, In
  <2>2. t \in Target /\ t \in asking
    BY <1>t, <2>1
  <2>3. Shape'
    BY <1>0, <2>1, <2>2 DEF Shape
  <2>4. Transforms' /\ Loaded'
    BY <1>0, <2>1 DEF Transforms, Loaded, BuiltAsAsked
  <2>5. f \in Frame /\ f.target = t /\ f.at = "merge" /\ f.left = Dependencies(t) /\ f.cmds = own
    BY <1>t, <2>1, <2>2, DependenciesAreTargets DEF Frame
  <2>6. FrameOK(f, commands', ts)
    BY <1>t, <2>1, <2>5 DEF FrameOK
  <2>7. own \subseteq {f.target}
    BY <2>5
  <2> HIDE DEF f, own
  <2>8. Nested(stack', asking, commands', ts)
    BY <2>1, <2>5, <2>6, <2>7, NestedTop DEF Top
  <2>9. Nested(stack, asking, commands, DOMAIN transforms)'
    BY <1>0, <2>1, <2>8, NestedNext
  <2> QED
    BY <2>3, <2>4, <2>9
<1>4. CASE TakeDependency
  <2>1. PICK d \in Top.left :
          GetCommands(transforms[DependencyOf(Top.target, d)],
                      <<[Top EXCEPT !.left = @ \ {d}]>> \o Rest)
    BY <1>4 DEF TakeDependency
  <2>2. stack # <<>> /\ Top.at = "merge"
        /\ UNCHANGED <<installed, todo, loaders, settings, known, added, transforms, found,
                       commands>>
    BY <1>4 DEF TakeDependency, In
  <2> DEFINE t == DependencyOf(Top.target, d)
             f == [Top EXCEPT !.left = @ \ {d}]
  <2>3. t \in ts /\ transforms[t] = t /\ t \in Target
    BY <1>t, <2>1, <2>2 DEF FrameOK, Transforms, BuiltAsAsked
  <2>4. f \in Frame /\ f.target = Top.target
    BY <1>t, <2>2 DEF Frame
  <2>5. FrameOK(f, commands, ts)
    BY <1>t, <2>2 DEF FrameOK, Frame
  <2> HIDE DEF t, f
  <2>6. Nested(<<f>> \o Rest, asking, commands, ts)
    BY <2>2, <2>4, <2>5, NestedTop DEF Top
  <2>7. /\ Nested(stack', asking', commands, ts)
        /\ asking \subseteq asking' /\ asking' \subseteq Target /\ taken' \subseteq commands
    BY <2>1, <2>3, <2>6, GetCommandsStep DEF f, t
  <2>8. Shape'
    BY <1>0, <2>2, <2>7 DEF Shape
  <2>9. Transforms' /\ Loaded'
    BY <1>0, <2>2 DEF Transforms, Loaded, BuiltAsAsked
  <2>10. Nested(stack, asking, commands, DOMAIN transforms)'
    BY <1>0, <2>2, <2>7, NestedNext
  <2> QED
    BY <2>8, <2>9, <2>10
<1>5. CASE Return
  <2>1. /\ stack # <<>> /\ Merge(Top.cmds, Rest)
        /\ UNCHANGED <<installed, todo, loaders, settings, known, added, transforms, found,
                       asking, commands>>
    BY <1>5 DEF Return, In
  <2>2. Top.cmds \subseteq commands /\ commands \subseteq Target
    BY <1>t, <2>1 DEF FrameOK, Shape
  <2>3. Nested(stack', asking, commands, ts) /\ taken' \subseteq commands
    BY <1>t, <2>1, <2>2, MergeStep
  <2>4. Shape'
    BY <1>0, <2>1, <2>3 DEF Shape
  <2>5. Transforms' /\ Loaded'
    BY <1>0, <2>1 DEF Transforms, Loaded, BuiltAsAsked
  <2>6. Nested(stack, asking, commands, DOMAIN transforms)'
    BY <1>0, <2>1, <2>3, NestedNext
  <2> QED
    BY <2>4, <2>5, <2>6
<1> QED
  BY <1>1, <1>2, <1>3, <1>4, <1>5

THEOREM InductiveInvariant == Spec => []IInv
<1>1. IInv /\ [Next]_vars => IInv'
  BY LoadPhaseStep, ProcessStep, TakeStep DEF Next
<1> QED
  BY InitInv, <1>1, PTL DEF Spec
-----------------------------------------------------------------------------
(* Every target is the package and the configuration it was asked for, and  *)
(* a package of the input is loaded from the input, whoever asked first.    *)
THEOREM TargetsAreAsAsked == Spec => []LoadedAsAsked
<1>1. IInv => LoadedAsAsked
  <2> SUFFICES ASSUME IInv PROVE LoadedAsAsked
    OBVIOUS
  <2>1. TypeOK
    <3>1. \A i \in 1..Len(stack) :
            stack[i].target \in asking /\ stack[i].at \in {"prepare", "merge"}
      <4> SUFFICES ASSUME NEW i \in 1..Len(stack)
                   PROVE  stack[i].target \in asking /\ stack[i].at \in {"prepare", "merge"}
        OBVIOUS
      <4>1. stack[i] \in Frame /\ stack[i].target \in asking
        BY DEF IInv, Nested
      <4> QED
        BY <4>1 DEF Frame
    <3> QED
      BY <3>1 DEF IInv, Shape, Transforms, TypeOK
  <2>2. PathNames \subseteq Name
    BY LoadingAssumption DEF PathNames, IInv, Shape
  <2>3. InputComesFirst
    BY <2>2 DEF InputComesFirst, IInv, Transforms
  <2> QED
    BY <2>1, <2>3 DEF LoadedAsAsked, IInv, Transforms
<1> QED
  BY InductiveInvariant, <1>1, PTL

(* No target is prepared while it is being asked, nor again when its        *)
(* commands are known, in any cycle of dependencies.                        *)
THEOREM NoneIsPreparedTwice == Spec => []PreparedOnce
<1>1. IInv => PreparedOnce
  BY DEF IInv, Nested, FrameOK, PreparedOnce
<1> QED
  BY InductiveInvariant, <1>1, PTL
-----------------------------------------------------------------------------
(* What a set of targets needs is the least set that contains it and the     *)
(* dependencies of its members: Reach finds it, though it is defined by       *)
(* recursion.  The proof takes a least counterexample, by the library's       *)
(* theorem on well-founded orders.                                            *)
Closed(ts) == Needs(ts) \subseteq ts
Least(ts) == {t \in Target : \A s \in SUBSET Target : ts \subseteq s /\ Closed(s) => t \in s}

LEMMA NeedsStep ==
  ASSUME NEW ts \in SUBSET Target
  PROVE  /\ Needs(ts) \in SUBSET Target /\ ts \subseteq Needs(ts)
         /\ \A s \in SUBSET Target : ts \subseteq s => Needs(ts) \subseteq Needs(s)
  BY DependenciesAreTargets DEF Needs

(* One step of the recursion changes nothing of what is needed, ...           *)
LEMMA LeastStep ==
  ASSUME NEW ts \in SUBSET Target
  PROVE  Least(ts) = IF Closed(ts) THEN ts ELSE Least(Needs(ts))
<1>1. ASSUME NEW s \in SUBSET Target, Closed(s)
      PROVE  ts \subseteq s <=> Needs(ts) \subseteq s
  BY <1>1, NeedsStep DEF Closed
<1>2. CASE Closed(ts)
  BY <1>2 DEF Least
<1>3. CASE ~Closed(ts)
  BY <1>1, <1>3 DEF Least
<1> QED
  BY <1>2, <1>3

(* ... so that a function with this recursion exists, ...                      *)
LEMMA ReachIs ==
  Reach = [ts \in SUBSET Target |-> IF Needs(ts) \subseteq ts THEN ts ELSE Reach[Needs(ts)]]
<1> DEFINE g == [ts \in SUBSET Target |-> Least(ts)]
<1>1. \A ts \in SUBSET Target : g[ts] = IF Needs(ts) \subseteq ts THEN ts ELSE g[Needs(ts)]
  BY LeastStep, NeedsStep DEF Closed
<1>2. g = [ts \in SUBSET Target |-> IF Needs(ts) \subseteq ts THEN ts ELSE g[Needs(ts)]]
  BY <1>1, Zenon
<1> HIDE DEF g
<1> QED
  BY <1>2 DEF Reach

(* ... and it finds what is needed.                                           *)
LEMMA ReachesLeast == \A ts \in SUBSET Target : Reach[ts] = Least(ts)
<1> DEFINE bad == {c \in SUBSET Target : Reach[Target \ c] # Least(Target \ c)}
<1>1. IsFiniteSet(Target)
  BY LoadingAssumption, FS_Product DEF Target
<1>2. FiniteSubsetsOf(Target) = SUBSET Target
  BY <1>1, FS_FiniteSubsetsOfFinite
<1>3. IsWellFoundedOn(StrictSubsetOrdering(Target), SUBSET Target)
  BY <1>2, FS_StrictSubsetOrderingWellFounded
<1>4. ASSUME bad # {} PROVE FALSE
  <2>1. PICK c \in bad : \A y \in bad : <<y, c>> \notin StrictSubsetOrdering(Target)
    <3> HIDE DEF bad
    <3>1. bad \subseteq SUBSET Target
      BY DEF bad
    <3> QED
      BY <1>3, <1>4, <3>1, WFMin
  <2> DEFINE ts == Target \ c
             y == Target \ Needs(ts)
  <2>2. c \in SUBSET Target /\ ts \in SUBSET Target /\ Reach[ts] # Least(ts)
    BY <2>1
  <2>3. Reach[ts] = IF Closed(ts) THEN ts ELSE Reach[Needs(ts)]
    BY <2>2, ReachIs DEF Closed
  <2>4. ~Closed(ts) /\ Reach[Needs(ts)] # Least(Needs(ts))
    BY <2>2, <2>3, LeastStep
  <2>5. /\ Needs(ts) \in SUBSET Target /\ ts \subseteq Needs(ts) /\ ts # Needs(ts)
    BY <2>2, <2>4, NeedsStep DEF Closed
  <2>6. y \in SUBSET Target /\ y \subseteq c /\ y # c /\ Target \ y = Needs(ts)
    BY <2>2, <2>5
  <2>7. y \in bad
    BY <2>4, <2>6
  <2>8. <<y, c>> \in StrictSubsetOrdering(Target)
    BY <2>2, <2>6 DEF StrictSubsetOrdering
  <2> QED
    BY <2>1, <2>7, <2>8
<1> QED
  <2> TAKE ts \in SUBSET Target
  <2>1. Target \ ts \in SUBSET Target /\ Target \ (Target \ ts) = ts
    OBVIOUS
  <2> QED
    BY <1>4, <2>1

(* The targets that are asked for, and all that they need.                    *)
First == {<<n, c>> : n \in PathNames, c \in Asked}
Needed == Least(First)
Loads == DOMAIN transforms

LEMMA FirstAreTargets ==
  ASSUME project \in Projects
  PROVE  First \in SUBSET Target /\ PathNames \subseteq Name
<1>1. project.path \in Seq(Name) /\ project.asked \in Seq(Config)
  BY LoadingAssumption
<1> QED
  BY <1>1 DEF First, PathNames, Asked, Target

LEMMA LeastIsClosed ==
  ASSUME NEW ts \in SUBSET Target
  PROVE  /\ ts \subseteq Least(ts) /\ Least(ts) \subseteq Target
         /\ \A t \in Least(ts) : \A d \in Dependencies(t) : DependencyOf(t, d) \in Least(ts)
<1>1. ASSUME NEW t \in Least(ts), NEW d \in Dependencies(t),
             NEW s \in SUBSET Target, ts \subseteq s, Closed(s)
      PROVE  DependencyOf(t, d) \in s
  <2>1. t \in s
    BY <1>1 DEF Least
  <2> QED
    BY <1>1, <2>1 DEF Closed, Needs
<1>2. Least(ts) \subseteq Target /\ ts \subseteq Least(ts)
  BY DEF Least
<1> QED
  BY <1>1, <1>2, DependenciesAreTargets DEF Least

LEMMA LeastIsLeast ==
  ASSUME NEW ts \in SUBSET Target, NEW s \in SUBSET Target, ts \subseteq s,
         \A t \in s : \A d \in Dependencies(t) : DependencyOf(t, d) \in s
  PROVE  Least(ts) \subseteq s
  BY DEF Least, Closed, Needs

LEMMA NeededIs ==
  ASSUME project \in Projects
  PROVE  NeededFor(Asked) = Needed
<1>1. NeededFor(Asked) = Reach[First]
  BY DEF NeededFor, First
<1> QED
  BY <1>1, FirstAreTargets, ReachesLeast DEF Needed

(* The requests run through the packages and configurations, no more, no less. *)
LEMMA RequestsAreFirst ==
  ASSUME project \in Projects
  PROVE  /\ \A i \in 1..Len(Requests) : Requests[i] \in First
         /\ \A t \in First : \E i \in 1..Len(Requests) : Requests[i] = t
<1> DEFINE k == Len(project.asked)
           n == Len(project.path)
           p == project.path
           c == project.asked
<1>1. p \in Seq(Name) /\ c \in Seq(Config) /\ k \in Nat /\ n \in Nat
  BY LoadingAssumption
<1>2. Requests = [i \in 1..(n * k) |-> <<p[((i - 1) \div k) + 1], c[((i - 1) % k) + 1]>>]
  BY DEF Requests
<1>3. First = {<<p[i], c[j]>> : i \in 1..n, j \in 1..k}
  BY DEF First, PathNames, Asked
<1> HIDE DEF k, n, p, c
<1>4. n * k \in Nat
  BY <1>1, Product
<1>5. Len(Requests) = n * k
  BY <1>2, <1>4
<1>6. ASSUME NEW i \in 1..(n * k) PROVE Requests[i] \in First
  <2>1. ((i - 1) \div k) + 1 \in 1..n /\ ((i - 1) % k) + 1 \in 1..k
    BY <1>1, Division
  <2> QED
    BY <1>2, <1>3, <2>1
<1>7. ASSUME NEW t \in First PROVE \E i \in 1..(n * k) : Requests[i] = t
  <2>1. PICK i \in 1..n, j \in 1..k : t = <<p[i], c[j]>>
    BY <1>3
  <2> DEFINE l == (i - 1) * k + j
  <2>2. l \in 1..(n * k) /\ ((l - 1) \div k) + 1 = i /\ ((l - 1) % k) + 1 = j
    BY <1>1
  <2> HIDE DEF l
  <2> QED
    BY <1>2, <2>1, <2>2
<1> QED
  BY <1>5, <1>6, <1>7

(* The project stays, and all that depends on it alone.                       *)
LEMMA SameProject ==
  ASSUME UNCHANGED project
  PROVE  /\ PathNames' = PathNames /\ First' = First /\ Requests' = Requests
         /\ \A t : Kind(t)' = Kind(t)
         /\ \A t : Dependencies(t)' = Dependencies(t) /\ Propagated(t)' = Propagated(t)
         /\ \A t : Reexports(t)' = Reexports(t)
         /\ \A t, d : DependencyOf(t, d)' = DependencyOf(t, d)
  BY DEF PathNames, First, Asked, Requests, Kind, Dependencies, Propagated, Active, Reexports,
         Exported, DependencyOf

LEMMA SameLeast ==
  ASSUME UNCHANGED project, NEW ts
  PROVE  Least(ts)' = Least(ts)
  BY SameProject DEF Least, Closed, Needs
LEMMA SameNeeded ==
  ASSUME UNCHANGED project
  PROVE  Needed' = Needed
<1>1. PICK f : f = First
  OBVIOUS
<1>2. First' = f
  BY <1>1, SameProject
<1> QED
  BY <1>1, <1>2, SameLeast DEF Needed

-----------------------------------------------------------------------------
(* What is installed was so before or was loaded by this process, and is      *)
(* neither a package of the input nor a program.                              *)
RecordedOK ==
  /\ before \subseteq installed /\ installed \ before \subseteq Loads
  /\ \A t \in installed : t[1] \notin PathNames /\ Kind(t) # "program"
(* A loader of the driver was made for a package that is a program or has     *)
(* sources; each build has the one target that was loaded in it; nothing is   *)
(* loaded that was installed before the process started.                      *)
LoadersOK ==
  /\ \A n \in Name : loaders[n] = "path" => n \in PathNames
  /\ \A t \in Loads : loaders[t[1]] # "none" /\ added[BuildOf(t[1])] # <<>> /\ t \notin before
  /\ \A b \in Builds : added[b] # <<>> => \E t \in Loads : BuildOf(t[1]) = b
  /\ \A n \in Name : loaders[n] = "driver" =>
       /\ project.kind[n] = "program" \/ n \in project.stored
       /\ \E t \in Loads : t[1] = n
  /\ \A t, u \in Loads : BuildOf(t[1]) = BuildOf(u[1]) => t = u
(* What a dependency resolved to is still there.                              *)
FoundOK ==
  \A t \in Loads : \A d \in Dependencies(t) :
    /\ \/ found[t][d] = "program" /\ project.kind[d] = "program"
       \/ found[t][d] = "source" /\ d \in project.stored
       \/ found[t][d] = "binary" /\ DependencyOf(t, d) \in installed
    /\ DependencyOf(t, d) \in before => found[t][d] = "binary"
(* Only what is needed is loaded.                                             *)
NeededOK ==
  /\ Loads \subseteq Needed
  /\ \A k \in 1..Len(todo) : todo[k] \in First
LoadInv == RecordedOK /\ LoadersOK /\ FoundOK /\ NeededOK

(* A load that makes a target makes the first one of its build.               *)
LEMMA LoadsOne ==
  ASSUME Shape, Transforms, LoadersOK, RecordedOK, NEW t \in Target, ~LoadThrows(t), Load(t), 
         t \notin Loads
  PROVE  /\ added[BuildOf(t[1])] = <<>>
         /\ added' = [added EXCEPT ![BuildOf(t[1])] = <<None>>]
         /\ Loads' = Loads \cup {t} /\ DOMAIN found = Loads /\ DOMAIN found' = Loads'
         /\ \A u \in Loads : found'[u] = found[u]
         /\ found'[t] = [d \in Dependencies(t) |-> Resolved(t, d)]
         /\ \A d \in Dependencies(t) : Resolved(t, d) # "none"
<1>1. /\ added[BuildOf(t[1])] = <<>>
      /\ added' = [added EXCEPT ![BuildOf(t[1])] = <<None>>]
      /\ transforms' = Put(transforms, t, t)
      /\ found' = Put(found, t, [d \in Dependencies(t) |-> Resolved(t, d)])
      /\ \A d \in Dependencies(t) : Resolved(t, d) # "none"
  BY LoadIs DEF Loads
<1> QED
  BY <1>1 DEF Put, Transforms, Loads

(* A load of what was not installed before keeps all this.                    *)
LEMMA LoadKeeps ==
  ASSUME Shape, Transforms, RecordedOK, LoadersOK, FoundOK, NEW t \in Target,
         ~LoadThrows(t), Load(t), t \notin before,
         UNCHANGED <<project, installed, before>>,
         loaders' = [loaders EXCEPT ![t[1]] = IF @ = "none" THEN "driver" ELSE @],
         loaders[t[1]] = "none" => Kind(t) = "program" \/ t[1] \in project.stored
  PROVE  RecordedOK' /\ LoadersOK' /\ FoundOK'
<1> DEFINE b == BuildOf(t[1])
<1>0. /\ t[1] \in Name /\ loaders \in [Name -> {"none", "path", "driver"}]
      /\ Loads \subseteq Target /\ \A u \in Target : u[1] \in Name
      /\ added \in [Builds -> Seq(Target \cup {None})]
      /\ b \in Builds /\ Name \subseteq Builds
  BY DEF Shape, Transforms, Target, BuildOf, Builds, Loads
<1>p. /\ PathNames' = PathNames
      /\ \A u : Kind(u)' = Kind(u) /\ Dependencies(u)' = Dependencies(u)
      /\ \A u, d : DependencyOf(u, d)' = DependencyOf(u, d)
  BY SameProject
<1>b. /\ \A n \in Name : BuildOf(n)' = BuildOf(n)
      /\ \A n \in Name :
           loaders'[n] = loaders[n] \/ (n = t[1] /\ loaders[n] = "none" /\ loaders'[n] = "driver")
      /\ loaders'[t[1]] # "none"
  BY <1>0 DEF BuildOf
<1>1. CASE t \in Loads
  <2>1. loaders' = loaders
    BY <1>0, <1>1 DEF LoadersOK
  <2>2. UNCHANGED <<added, transforms, found>>
    BY <1>1 DEF Load, Loads
  <2> QED
    BY <1>p, <2>1, <2>2 DEF RecordedOK, LoadersOK, FoundOK, Loads, BuildOf
<1>2. CASE t \notin Loads
  <2>1. /\ added[b] = <<>>
        /\ added' = [added EXCEPT ![b] = <<None>>]
        /\ Loads' = Loads \cup {t} /\ DOMAIN found = Loads /\ DOMAIN found' = Loads'
        /\ \A u \in Loads : found'[u] = found[u]
        /\ found'[t] = [d \in Dependencies(t) |-> Resolved(t, d)]
        /\ \A d \in Dependencies(t) : Resolved(t, d) # "none"
    BY <1>2, LoadsOne
  <2>2. RecordedOK'
    BY <1>p, <2>1 DEF RecordedOK
  <2>3. \A u \in Loads : BuildOf(u[1]) # b
    BY <2>1 DEF LoadersOK
  <2>4. b' = b
    BY <1>0, <1>b
  <2>5. LoadersOK'
    <3>1. \A n \in Name : loaders'[n] = "path" => n \in PathNames'
      BY <1>b, <1>p DEF LoadersOK
    <3>2. \A u \in Loads' : loaders'[u[1]] # "none" /\ u \notin before'
      BY <1>0, <1>b, <2>1 DEF LoadersOK
    <3>3. \A u \in Loads' : added'[BuildOf(u[1])'] # <<>>
      BY <1>0, <1>b, <2>1, <2>3 DEF LoadersOK
    <3>4. ASSUME NEW c \in Builds, added'[c] # <<>>
          PROVE  \E u \in Loads' : BuildOf(u[1])' = c
      <4>1. CASE c = b
        BY <1>0, <1>b, <2>1, <4>1
      <4>2. CASE c # b
        <5>1. added[c] # <<>>
          BY <1>0, <2>1, <3>4, <4>2
        <5>2. PICK u \in Loads : BuildOf(u[1]) = c
          BY <5>1 DEF LoadersOK
        <5> QED
          BY <1>0, <1>b, <2>1, <5>2
      <4> QED
        BY <4>1, <4>2
    <3>5. \A n \in Name : loaders'[n] = "driver" =>
             /\ project'.kind[n] = "program" \/ n \in project'.stored
             /\ \E u \in Loads' : u[1] = n
      BY <1>0, <1>b, <2>1 DEF LoadersOK, Kind
    <3>6. \A u, v \in Loads' : BuildOf(u[1])' = BuildOf(v[1])' => u = v
      BY <1>0, <1>b, <2>1, <2>3 DEF LoadersOK
    <3> QED
      BY <3>1, <3>2, <3>3, <3>4, <3>5, <3>6 DEF LoadersOK, Builds
  <2>6. FoundOK'
    <3>1. ASSUME NEW d \in Dependencies(t)
          PROVE  /\ \/ found'[t][d] = "program" /\ project.kind[d] = "program"
                    \/ found'[t][d] = "source" /\ d \in project.stored
                    \/ found'[t][d] = "binary" /\ DependencyOf(t, d) \in installed
                 /\ DependencyOf(t, d) \in before => found'[t][d] = "binary"
      <4>1. found'[t][d] = Resolved(t, d) /\ Resolved(t, d) # "none"
        BY <2>1, <3>1
      <4>2. Kind(DependencyOf(t, d)) = project.kind[d]
        BY DEF Kind, DependencyOf
      <4> QED
        BY <4>1, <4>2 DEF Resolved, RecordedOK
    <3>2. \A u \in Loads' : \A d \in Dependencies(u) : 
             /\ \/ found'[u][d] = "program" /\ project.kind[d] = "program"
                \/ found'[u][d] = "source" /\ d \in project.stored
                \/ found'[u][d] = "binary" /\ DependencyOf(u, d) \in installed
             /\ DependencyOf(u, d) \in before => found'[u][d] = "binary"
      BY <2>1, <3>1 DEF FoundOK
    <3> QED
      BY <1>p, <3>2 DEF FoundOK
  <2> QED
    BY <2>2, <2>5, <2>6
<1> QED
  BY <1>1, <1>2

-----------------------------------------------------------------------------
(* The nested calls as a set; a target that is asked, or cannot be.           *)
Calls(s) == {s[i] : i \in 1..Len(s)}
Given(t, as) == t \in as \/ Kind(t) = "program"
(* Where the process is: the requests are loaded before their commands are    *)
(* taken, and each has been asked or still waits for it.                      *)
PhaseOK ==
  /\ phase = "inputs" => Loads = {}
  /\ phase \in {"inputs", "load"} => asking = {} /\ stack = <<>>
  /\ phase = "done" => todo = <<>> /\ stack = <<>>
  /\ phase \in {"take", "done"} => \A t \in First :
       t \in Loads /\ (Given(t, asking) \/ \E k \in 1..Len(todo) : todo[k] = t)
AskedOK ==
  /\ asking \subseteq Loads
  /\ \A t \in asking : Kind(t) # "program"
  /\ \A t \in commands : Kind(t) \in {"executable", "static"}

(* The innermost call, and the request that is next.                          *)
LEMMA TopIs ==
  ASSUME IInv, stack # <<>>
  PROVE  /\ stack \in Seq(Frame) /\ Tail(stack) \in Seq(Frame)
         /\ Top \in Frame /\ Top.target \in Target /\ Top.target \in asking
         /\ FrameOK(Top, commands, Loads)
<1>1. stack \in Seq(Frame) /\ Top = stack[1] /\ 1 \in 1..Len(stack)
  BY DEF Top, Nested, IInv
<1>2. Top \in Frame /\ Top.target \in asking /\ FrameOK(Top, commands, Loads)
  BY <1>1 DEF Nested, IInv, Loads
<1> QED
  BY <1>1, <1>2 DEF Shape, IInv

LEMMA TodoTail ==
  ASSUME IInv, todo # <<>>, todo' = Tail(todo)
  PROVE  /\ Head(todo) \in Target
         /\ \E k \in 1..Len(todo) : Head(todo) = todo[k]
         /\ \A k \in 1..Len(todo') : \E l \in 1..Len(todo) : todo'[k] = todo[l]
         /\ \A l \in 1..Len(todo) :
              todo[l] = Head(todo) \/ \E k \in 1..Len(todo') : todo'[k] = todo[l]
<1>1. /\ todo \in Seq(Target) /\ Len(todo) \in Nat /\ Len(todo') = Len(todo) - 1
      /\ \A l \in 1..Len(todo') : todo'[l] = todo[l + 1] /\ l + 1 \in 1..Len(todo)
      /\ Head(todo) = todo[1] /\ 1 \in 1..Len(todo) /\ Head(todo) \in Target
  BY DEF Shape, IInv
<1>2. ASSUME NEW l \in 1..Len(todo), l # 1
      PROVE  l - 1 \in 1..Len(todo') /\ todo'[l - 1] = todo[l]
  BY <1>1, <1>2
<1> QED
  BY <1>1, <1>2

(* A dependency that was installed before the process started is never loaded: *)
(* it resolved to the record, and the one target its package may have by now   *)
(* is another one.                                                            *)
LEMMA LinkLoads ==
  ASSUME IInv, LoadInv, AskedOK, LinkDependency
  PROVE  /\ RecordedOK' /\ LoadersOK' /\ FoundOK' /\ NeededOK'
<1>0. /\ UNCHANGED <<project, installed, before, todo>> /\ stack # <<>>
      /\ Shape /\ Transforms /\ RecordedOK /\ LoadersOK /\ FoundOK
  BY DEF LinkDependency, In, IInv, LoadInv
<1>1. PICK d \in Top.left :
        /\ ~LinkFails(d)
        /\ loaders' = [loaders EXCEPT ![d] = IF @ = "none" THEN "driver" ELSE @]
        /\ Load(DependencyOf(Top.target, d))
  BY DEF LinkDependency
<1> DEFINE u == Top.target
           t == DependencyOf(u, d)
<1>2. u \in Target /\ u \in Loads /\ d \in Dependencies(u)
  BY <1>0, <1>1, TopIs DEF FrameOK, AskedOK
<1>3. t \in Target /\ t[1] = d /\ Kind(t) = project.kind[d] /\ d \in Name
  BY <1>2, DependenciesAreTargets DEF DependencyOf, Kind
<1>4. /\ ~LoadThrows(t) /\ ~(loaders[d] = "none" /\ found[u][d] = "binary")
  BY <1>1 DEF LinkFails
<1>5. loaders[d] = "none" => Kind(t) = "program" \/ d \in project.stored
  BY <1>0, <1>2, <1>3, <1>4 DEF FoundOK
<1>6. t \notin before
  <2> SUFFICES ASSUME t \in before PROVE FALSE
    OBVIOUS
  <2>1. found[u][d] = "binary"
    BY <1>0, <1>2 DEF FoundOK
  <2>2. t[1] \notin PathNames
    BY <1>0 DEF RecordedOK
  <2>3. loaders[d] = "driver"
    BY <1>0, <1>3, <1>4, <2>1, <2>2 DEF Shape, LoadersOK
  <2>4. PICK x \in Loads : x[1] = d
    BY <1>0, <1>3, <2>3 DEF LoadersOK
  <2>5. t \notin Loads
    BY <1>0 DEF LoadersOK
  <2>6. added[BuildOf(t[1])] = <<>>
    BY <1>0, <1>1, <1>3, <1>4, <2>5, LoadsOne
  <2> QED
    BY <1>0, <1>3, <2>4, <2>6 DEF LoadersOK
<1>7. loaders' = [loaders EXCEPT ![t[1]] = IF @ = "none" THEN "driver" ELSE @]
  BY <1>1, <1>3
<1>8. t \in Needed
  BY <1>0, <1>2, FirstAreTargets, LeastIsClosed DEF LoadInv, NeededOK, Needed, Shape
<1>9. Loads' \subseteq Loads \cup {t}
  BY <1>0, <1>1, <1>3, <1>4, LoadMakes DEF Loads
<1>10. Load(t)
  BY <1>1
<1> HIDE DEF t, u
<1>11. NeededOK'
  BY <1>0, <1>8, <1>9, SameNeeded, SameProject DEF NeededOK, LoadInv
<1> QED
  BY <1>0, <1>3, <1>4, <1>5, <1>6, <1>7, <1>10, <1>11, LoadKeeps

LEMMA RequestLoads ==
  ASSUME IInv, LoadInv, LoadRequested
  PROVE  RecordedOK' /\ LoadersOK' /\ FoundOK' /\ NeededOK'
<1> DEFINE t == Head(todo)
<1>0. /\ UNCHANGED <<project, installed, before, loaders>> /\ todo # <<>> /\ phase = "load"
      /\ Shape /\ Transforms /\ RecordedOK /\ LoadersOK /\ FoundOK
      /\ ~LoadThrows(t) /\ Load(t) /\ todo' = Tail(todo)
  BY DEF LoadRequested, IInv, LoadInv
<1>1. t \in Target /\ t \in First
  BY <1>0, TodoTail DEF LoadInv, NeededOK
<1>2. t[1] \in PathNames /\ PathNames \subseteq Name
  BY <1>0, <1>1, FirstAreTargets DEF First, Shape
<1>3. loaders[t[1]] = "path" /\ t \notin before
  BY <1>0, <1>2 DEF Transforms, RecordedOK
<1>4. t \in Needed
  BY <1>0, <1>1, FirstAreTargets, LeastIsClosed DEF Needed, Shape
<1>5. Loads' \subseteq Loads \cup {t}
  BY <1>0, <1>1, LoadMakes DEF Loads
<1>6. loaders' = [loaders EXCEPT ![t[1]] = IF @ = "none" THEN "driver" ELSE @]
  BY <1>0, <1>2, <1>3 DEF Shape
<1> HIDE DEF t
<1>7. \A k \in 1..Len(todo') : todo'[k] \in First
  BY <1>0, TodoTail DEF NeededOK, LoadInv
<1>8. NeededOK'
  BY <1>0, <1>4, <1>5, <1>7, SameNeeded, SameProject DEF NeededOK, LoadInv
<1> QED
  BY <1>0, <1>1, <1>3, <1>6, <1>8, LoadKeeps

LEMMA PrepareLoads ==
  ASSUME IInv, LoadInv, AskedOK, Prepare2
  PROVE  RecordedOK' /\ LoadersOK' /\ FoundOK' /\ NeededOK'
<1> DEFINE t == Top.target
<1>0. /\ UNCHANGED <<project, before, todo, loaders, added, transforms, found>> /\ stack # <<>>
      /\ installed' = IF loaders[t[1]] = "path" THEN installed ELSE installed \cup {t}
      /\ Shape /\ Transforms /\ RecordedOK /\ LoadersOK /\ FoundOK /\ NeededOK
      /\ phase = "take"
  BY DEF Prepare2, In, IInv, LoadInv
<1>1. t \in Target /\ t \in Loads /\ Kind(t) # "program" /\ t[1] \in Name
  BY <1>0, TopIs DEF AskedOK, Target
<1>2. loaders[t[1]] # "path" => t[1] \notin PathNames
  BY <1>0, <1>1 DEF Transforms
<1> HIDE DEF t
<1>3. RecordedOK'
  BY <1>0, <1>1, <1>2, SameProject DEF RecordedOK, Loads
<1>4. LoadersOK'
  BY <1>0, SameProject DEF LoadersOK, Loads, BuildOf
<1>5. FoundOK'
  BY <1>0, SameProject DEF FoundOK, Loads
<1>6. NeededOK'
  BY <1>0, SameProject, SameNeeded DEF NeededOK, Loads
<1> QED
  BY <1>3, <1>4, <1>5, <1>6

LEMMA LoadInvStep ==
  ASSUME IInv, LoadInv, PhaseOK, AskedOK, [Next]_vars
  PROVE  LoadInv'
<1>0. project' = project /\ Shape /\ Transforms /\ RecordedOK /\ LoadersOK /\ FoundOK /\ NeededOK
  BY DEF Next, vars, LoadPackages, LoadRequested, LoadRequestedFails, Execute, TakeRequested,
         LinkDependency, LinkDependencyFails, Prepare2, Prepare2Fails, TakeDependency, Return,
         Finish, Again, Throw, IInv, LoadInv
<1>1. CASE LoadPackages
  <2>1. /\ phase = "inputs" /\ todo' = Requests
        /\ loaders' = [n \in Name |-> IF n \in PathNames THEN "path" ELSE loaders[n]]
        /\ UNCHANGED <<installed, before, added, transforms, found>>
    BY <1>1 DEF LoadPackages
  <2>2. Loads = {} /\ Loads' = {} /\ \A b \in Builds : added[b] = <<>>
    BY <1>0, <2>1 DEF PhaseOK, LoadersOK, Loads
  <2>3. RecordedOK' /\ FoundOK'
    BY <1>0, <2>1, <2>2, SameProject DEF RecordedOK, FoundOK
  <2>4. LoadersOK'
    BY <1>0, <2>1, <2>2, SameProject DEF LoadersOK, Builds
  <2>5. NeededOK'
    BY <1>0, <2>1, <2>2, SameProject, RequestsAreFirst DEF NeededOK, Shape
  <2> QED
    BY <2>3, <2>4, <2>5 DEF LoadInv
<1>2. CASE LoadRequested
  BY <1>2, RequestLoads DEF LoadInv
<1>3. CASE LinkDependency
  BY <1>3, LinkLoads DEF LoadInv
<1>4. CASE Prepare2
  BY <1>4, PrepareLoads DEF LoadInv
<1>5. CASE Again
  <2>1. /\ todo' = <<>> /\ loaders' = [n \in Name |-> "none"]
        /\ added' = [b \in Builds |-> <<>>] /\ before' = installed /\ installed' = installed
        /\ Loads' = {}
    BY <1>5 DEF Again, Loads
  <2>2. RecordedOK' /\ FoundOK' /\ NeededOK'
    BY <1>0, <2>1, SameProject DEF RecordedOK, FoundOK, NeededOK
  <2>3. LoadersOK'
    BY <2>1 DEF LoadersOK, Builds
  <2> QED
    BY <2>2, <2>3 DEF LoadInv
<1>6. CASE UNCHANGED <<installed, before, loaders, added, transforms, found>> /\
           (todo' = todo \/ todo' = Requests \/ (todo # <<>> /\ todo' = Tail(todo)))
  <2>1. \A k \in 1..Len(todo') : todo'[k] \in First
    BY <1>0, <1>6, TodoTail, RequestsAreFirst DEF NeededOK, Shape
  <2>2. NeededOK'
    BY <1>0, <1>6, <2>1, SameProject, SameNeeded DEF NeededOK, Loads
  <2>3. RecordedOK'
    BY <1>0, <1>6, SameProject DEF RecordedOK, Loads
  <2>4. LoadersOK'
    BY <1>0, <1>6, SameProject DEF LoadersOK, Loads, BuildOf
  <2>5. FoundOK'
    BY <1>0, <1>6, SameProject DEF FoundOK, Loads
  <2> QED
    BY <2>2, <2>3, <2>4, <2>5 DEF LoadInv
<1>7. \/ LoadPackages \/ LoadRequested \/ LinkDependency \/ Prepare2 \/ Again
      \/ UNCHANGED <<installed, before, loaders, added, transforms, found>> /\
           (todo' = todo \/ todo' = Requests \/ (todo # <<>> /\ todo' = Tail(todo)))
  BY DEF Next, vars, LoadRequestedFails, Execute, TakeRequested, LinkDependencyFails,
         Prepare2Fails, TakeDependency, Return, Finish, Throw, process
<1> QED
  BY <1>1, <1>2, <1>3, <1>4, <1>5, <1>6, <1>7

-----------------------------------------------------------------------------
(* Only the innermost call prepares, and holds no commands then.              *)
AllMerge(s) == \A f \in Calls(s) : f.at = "merge"
Stacked(s) == s # <<>> => /\ AllMerge(Tail(s))
                          /\ Head(s).at = "prepare" => Head(s).cmds = {}
(* A target that is asked is being prepared, or was prepared: its             *)
(* dependencies are loaded, and each has been asked or is left to the call.   *)
Preparing(t, cs) == \E f \in cs : f.target = t /\ f.at = "prepare"
Left(t, d, cs) == \E f \in cs : f.target = t /\ d \in f.left
Held(t, cs) == \E f \in cs : t \in f.cmds
Prepared(t, cs, as, cm, ts) ==
  /\ Propagated(t) = {} /\ ~Reexports(t)
  /\ Kind(t) = "header" \/ t \in cm
  /\ \A d \in Dependencies(t) :
       /\ DependencyOf(t, d) \in ts
       /\ Given(DependencyOf(t, d), as) \/ Left(t, d, cs)
(* And known commands are taken, or held by a call that will return them.     *)
AskedAll(s, as, cm, tk, ts) ==
  /\ Stacked(s)
  /\ \A t \in as : Preparing(t, Calls(s)) \/ Prepared(t, Calls(s), as, cm, ts)
  /\ \A t \in cm : t \in tk \/ Held(t, Calls(s))
AskedInv == AskedAll(stack, asking, commands, taken, Loads)

LEMMA CallsOf ==
  ASSUME NEW s \in Seq(Frame)
  PROVE  /\ \A f \in Frame : /\ Calls(<<f>> \o s) = {f} \cup Calls(s)
                             /\ <<f>> \o s # <<>> /\ Head(<<f>> \o s) = f /\ Tail(<<f>> \o s) = s
         /\ s # <<>> => Calls(s) = {Head(s)} \cup Calls(Tail(s))
         /\ Calls(<<>>) = {}
<1>1. ASSUME NEW f \in Frame
      PROVE  /\ Calls(<<f>> \o s) = {f} \cup Calls(s)
             /\ <<f>> \o s # <<>> /\ Head(<<f>> \o s) = f /\ Tail(<<f>> \o s) = s
  <2> DEFINE n == <<f>> \o s
  <2>1. /\ n \in Seq(Frame) /\ Len(n) = Len(s) + 1 /\ n[1] = f /\ Len(s) \in Nat
        /\ \A i \in 1..Len(s) : n[i + 1] = s[i]
        /\ \A i \in 1..Len(n) : i = 1 \/ (i - 1 \in 1..Len(s) /\ n[i] = s[i - 1])
    OBVIOUS
  <2>2. n # <<>> /\ Head(n) = f /\ Tail(n) = s
    OBVIOUS
  <2> HIDE DEF n
  <2>3. Calls(n) = {f} \cup Calls(s)
    <3>1. ASSUME NEW x \in Calls(n) PROVE x \in {f} \cup Calls(s)
      BY <2>1 DEF Calls
    <3>2. ASSUME NEW x \in Calls(s) PROVE x \in Calls(n)
      <4>1. PICK i \in 1..Len(s) : x = s[i]
        BY DEF Calls
      <4>2. i + 1 \in 1..Len(n) /\ n[i + 1] = x
        BY <2>1, <4>1
      <4> QED
        BY <4>2 DEF Calls
    <3>3. f \in Calls(n)
      BY <2>1 DEF Calls
    <3> QED
      BY <3>1, <3>2, <3>3
  <2> QED
    BY <2>2, <2>3 DEF n
<1>2. ASSUME s # <<>> PROVE Calls(s) = {Head(s)} \cup Calls(Tail(s))
  <2>1. Head(s) \in Frame /\ Tail(s) \in Seq(Frame) /\ s = <<Head(s)>> \o Tail(s)
    BY <1>2
  <2> DEFINE n == <<Head(s)>> \o Tail(s)
             r == Tail(s)
  <2>2. /\ Len(n) = Len(r) + 1 /\ n[1] = Head(s) /\ Len(r) \in Nat
        /\ \A i \in 1..Len(r) : n[i + 1] = r[i]
        /\ \A i \in 1..Len(n) : i = 1 \/ (i - 1 \in 1..Len(r) /\ n[i] = r[i - 1])
    BY <2>1
  <2> HIDE DEF n, r
  <2>3. ASSUME NEW x \in Calls(n) PROVE x \in {Head(s)} \cup Calls(r)
    BY <2>2 DEF Calls
  <2>4. ASSUME NEW x \in Calls(r) PROVE x \in Calls(n)
    <3>1. PICK i \in 1..Len(r) : x = r[i]
      BY DEF Calls
    <3>2. i + 1 \in 1..Len(n) /\ n[i + 1] = x
      BY <2>2, <3>1
    <3> QED
      BY <3>2 DEF Calls
  <2>5. Head(s) \in Calls(n)
    BY <2>2 DEF Calls
  <2>6. Calls(n) = {Head(s)} \cup Calls(r)
    BY <2>3, <2>4, <2>5
  <2> QED
    BY <2>1, <2>6 DEF n, r
<1>3. Calls(<<>>) = {}
  BY DEF Calls
<1> QED
  BY <1>1, <1>2, <1>3

LEMMA AskedNext ==
  ASSUME UNCHANGED project, AskedAll(stack', asking', commands', taken', Loads')
  PROVE  AskedInv'
  BY SameProject DEF AskedInv, AskedAll, Stacked, AllMerge, Calls, Preparing, Prepared, Given,
     Left, Held, Loads

(* Merged commands are held or taken.                                         *)
LEMMA MergeCalls ==
  ASSUME NEW cs \in SUBSET Target, NEW calls \in Seq(Frame), AllMerge(calls), Merge(cs, calls)
  PROVE  /\ AllMerge(stack') /\ Stacked(stack')
         /\ \A t, d : Left(t, d, Calls(calls)) => Left(t, d, Calls(stack'))
         /\ \A t : t \in taken \/ t \in cs \/ Held(t, Calls(calls))
                   => t \in taken' \/ Held(t, Calls(stack'))
<1>1. CASE calls = <<>>
  <2>1. taken' = taken \cup cs /\ stack' = <<>>
    BY <1>1 DEF Merge
  <2> QED
    BY <1>1, <2>1, CallsOf DEF AllMerge, Stacked, Left, Held
<1>2. CASE calls # <<>>
  <2> DEFINE f == [Head(calls) EXCEPT !.cmds = @ \cup cs]
  <2>0. Head(calls) \in Frame /\ Tail(calls) \in Seq(Frame)
    BY <1>2
  <2>1. stack' = <<f>> \o Tail(calls) /\ taken' = taken
    BY <1>2 DEF Merge
  <2>2. /\ f \in Frame /\ f.target = Head(calls).target /\ f.at = Head(calls).at
        /\ f.left = Head(calls).left /\ f.cmds = Head(calls).cmds \cup cs
    BY <2>0 DEF Frame
  <2> HIDE DEF f
  <2>3. Calls(stack') = {f} \cup Calls(Tail(calls)) /\ stack' # <<>> /\ Head(stack') = f
        /\ Tail(stack') = Tail(calls)
    BY <2>0, <2>1, <2>2, CallsOf
  <2>4. Calls(calls) = {Head(calls)} \cup Calls(Tail(calls))
    BY <1>2, CallsOf
  <2>5. AllMerge(Tail(calls)) /\ f.at = "merge"
    BY <2>2, <2>4 DEF AllMerge
  <2>6. AllMerge(stack') /\ Stacked(stack')
    BY <2>3, <2>5 DEF AllMerge, Stacked
  <2>7. \A t, d : Left(t, d, Calls(calls)) => Left(t, d, Calls(stack'))
    BY <2>2, <2>3, <2>4 DEF Left
  <2>8. \A t : t \in taken \/ t \in cs \/ Held(t, Calls(calls))
               => t \in taken' \/ Held(t, Calls(stack'))
    BY <2>1, <2>2, <2>3, <2>4 DEF Held
  <2> QED
    BY <2>6, <2>7, <2>8
<1> QED
  BY <1>1, <1>2

(* A target that is asked is given, or its call begins.                       *)
LEMMA GetCalls ==
  ASSUME IInv, NEW t \in Target, NEW calls \in Seq(Frame), AllMerge(calls), GetCommands(t, calls)
  PROVE  /\ asking \subseteq asking' /\ asking' \subseteq asking \cup {t}
         /\ Given(t, asking')
         /\ t \in asking \/ t \notin asking' \/ (Kind(t) # "program" /\ Preparing(t, Calls(stack')))
         /\ Stacked(stack')
         /\ \A u, d : Left(u, d, Calls(calls)) => Left(u, d, Calls(stack'))
         /\ \A u : u \in taken \/ Held(u, Calls(calls)) => u \in taken' \/ Held(u, Calls(stack'))
<1>1. CASE Kind(t) = "program" \/ t \in commands \/ t \in asking
  <2>1. Merge({t} \cap commands, calls) /\ asking' = asking
    BY <1>1 DEF GetCommands
  <2>2. Given(t, asking')
    BY <1>1, <2>1 DEF Given, IInv, Shape
  <2> QED
    BY <2>1, <2>2, MergeCalls
<1>2. CASE ~(Kind(t) = "program" \/ t \in commands \/ t \in asking)
  <2> DEFINE f == [target |-> t, at |-> "prepare", left |-> Dependencies(t), cmds |-> {}]
  <2>1. /\ f \in Frame /\ f.target = t /\ f.at = "prepare" /\ f.cmds = {}
    BY DependenciesAreTargets DEF Frame
  <2>2. asking' = asking \cup {t} /\ stack' = <<f>> \o calls /\ taken' = taken
    BY <1>2 DEF GetCommands
  <2> HIDE DEF f
  <2>3. /\ Calls(stack') = {f} \cup Calls(calls)
        /\ stack' # <<>> /\ Head(stack') = f /\ Tail(stack') = calls
    BY <2>1, <2>2, CallsOf
  <2> QED
    BY <1>2, <2>1, <2>2, <2>3 DEF Given, Preparing, Stacked, Left, Held
<1> QED
  BY <1>1, <1>2

(* What the executor or a call asks.                                          *)
LEMMA AsksOne ==
  ASSUME IInv, AskedInv, AllMerge(stack), NEW t \in Target, NEW calls \in Seq(Frame),
         AllMerge(calls), GetCommands(t, calls), UNCHANGED <<project, commands, transforms>>,
         \A u : Held(u, Calls(stack)) => Held(u, Calls(calls)),
         \A u \in asking : \A d \in Dependencies(u) :
           Left(u, d, Calls(stack)) => Left(u, d, Calls(calls)) \/ DependencyOf(u, d) = t
  PROVE  AskedInv'
<1>1. /\ asking \subseteq asking' /\ asking' \subseteq asking \cup {t}
      /\ Given(t, asking')
      /\ t \in asking \/ t \notin asking' \/ Preparing(t, Calls(stack'))
      /\ Stacked(stack')
      /\ \A u, d : Left(u, d, Calls(calls)) => Left(u, d, Calls(stack'))
      /\ \A u : u \in taken \/ Held(u, Calls(calls)) => u \in taken' \/ Held(u, Calls(stack'))
  BY GetCalls
<1>2. \A u \in asking : Prepared(u, Calls(stack), asking, commands, Loads)
  BY DEF AskedInv, AskedAll, Preparing, AllMerge
<1>3. ASSUME NEW u \in asking
      PROVE  Prepared(u, Calls(stack'), asking', commands, Loads)
  <2>1. \A d \in Dependencies(u) :
           Given(DependencyOf(u, d), asking') \/ Left(u, d, Calls(stack'))
    BY <1>1, <1>2, <1>3 DEF Prepared, Given
  <2> QED
    BY <1>2, <1>3, <2>1 DEF Prepared
<1>4. \A u \in commands : u \in taken' \/ Held(u, Calls(stack'))
  BY <1>1 DEF AskedInv, AskedAll
<1>5. Loads' = Loads /\ commands' = commands
  BY DEF Loads
<1>6. AskedAll(stack', asking', commands', taken', Loads')
  BY <1>1, <1>3, <1>4, <1>5 DEF AskedAll
<1> QED
  BY <1>6, AskedNext

LEMMA TopCalls ==
  ASSUME IInv, AskedInv, stack # <<>>
  PROVE  /\ Tail(stack) \in Seq(Frame) /\ AllMerge(Tail(stack))
         /\ Calls(stack) = {Top} \cup Calls(Tail(stack))
         /\ Top \in Frame
         /\ \A f \in Calls(Tail(stack)) : f.target # Top.target
         /\ Top.at = "merge" => AllMerge(stack)
         /\ Top.at = "prepare" => Top.cmds = {}
<1>1. /\ stack \in Seq(Frame) /\ Tail(stack) \in Seq(Frame) /\ Top \in Frame
  BY TopIs
<1>2. Calls(stack) = {Top} \cup Calls(Tail(stack))
  BY <1>1, CallsOf DEF Top
<1>3. AllMerge(Tail(stack)) /\ (Top.at = "prepare" => Top.cmds = {})
  BY DEF AskedInv, AskedAll, Stacked, Top
<1>4. Top.at = "merge" => AllMerge(stack)
  BY <1>2, <1>3 DEF AllMerge
<1>5. ASSUME NEW f \in Calls(Tail(stack)) PROVE f.target # Top.target
  <2>1. PICK i \in 1..Len(Tail(stack)) : f = Tail(stack)[i]
    BY DEF Calls
  <2>2. /\ i + 1 \in 1..Len(stack) /\ f = stack[i + 1] /\ i + 1 # 1
        /\ Top = stack[1] /\ 1 \in 1..Len(stack)
    BY <1>1, <2>1 DEF Top
  <2> QED
    BY <2>2 DEF IInv, Nested
<1> QED
  BY <1>1, <1>2, <1>3, <1>4, <1>5

LEMMA AskedLink ==
  ASSUME IInv, AskedInv, LinkDependency
  PROVE  AskedInv'
<1>1. PICK d \in Top.left :
        /\ ~LoadThrows(DependencyOf(Top.target, d)) /\ Load(DependencyOf(Top.target, d))
        /\ stack' = <<[Top EXCEPT !.left = @ \ {d}]>> \o Tail(stack)
  BY DEF LinkDependency, LinkFails
<1>2. stack # <<>> /\ Top.at = "prepare" /\ UNCHANGED <<project, asking, commands, taken>>
  BY DEF LinkDependency, In
<1>3. /\ Tail(stack) \in Seq(Frame) /\ AllMerge(Tail(stack))
      /\ Calls(stack) = {Top} \cup Calls(Tail(stack)) /\ Top \in Frame /\ Top.cmds = {}
  BY <1>2, TopCalls
<1>4. Loads \subseteq Loads'
  <2>1. DependencyOf(Top.target, d) \in Target
    BY <1>1, <1>2, TopIs, DependenciesAreTargets DEF FrameOK
  <2> QED
    BY <1>1, <2>1, LoadMakes DEF IInv, Loads
<1> DEFINE f == [Top EXCEPT !.left = @ \ {d}]
<1>5. /\ f \in Frame /\ f.target = Top.target /\ f.at = "prepare" /\ f.cmds = {}
  BY <1>2, <1>3 DEF Frame
<1>6. stack' = <<f>> \o Tail(stack)
  BY <1>1
<1> HIDE DEF f
<1>7. /\ Calls(stack') = {f} \cup Calls(Tail(stack))
      /\ stack' # <<>> /\ Head(stack') = f /\ Tail(stack') = Tail(stack)
  BY <1>3, <1>5, <1>6, CallsOf
<1>8. Stacked(stack')
  BY <1>3, <1>5, <1>7 DEF Stacked
<1>9. ASSUME NEW t \in asking
      PROVE  \/ Preparing(t, Calls(stack'))
             \/ Prepared(t, Calls(stack'), asking, commands, Loads')
  <2>1. CASE t = Top.target
    BY <1>5, <1>7, <2>1 DEF Preparing
  <2>2. CASE t # Top.target
    <3>1. Preparing(t, Calls(stack)) => Preparing(t, Calls(stack'))
      BY <1>3, <1>7, <2>2 DEF Preparing
    <3>2. \A e : Left(t, e, Calls(stack)) => Left(t, e, Calls(stack'))
      BY <1>3, <1>7, <2>2 DEF Left
    <3>3. Preparing(t, Calls(stack)) \/ Prepared(t, Calls(stack), asking, commands, Loads)
      BY DEF AskedInv, AskedAll
    <3> QED
      BY <1>4, <3>1, <3>2, <3>3 DEF Prepared
  <2> QED
    BY <2>1, <2>2
<1>10. \A t \in commands : t \in taken \/ Held(t, Calls(stack'))
  BY <1>3, <1>7 DEF AskedInv, AskedAll, Held
<1>11. AskedAll(stack', asking', commands', taken', Loads')
  BY <1>2, <1>8, <1>9, <1>10 DEF AskedAll
<1> QED
  BY <1>2, <1>11, AskedNext

LEMMA AskedPrepare ==
  ASSUME IInv, AskedInv, Prepare2
  PROVE  AskedInv'
<1> DEFINE t == Top.target
           own == IF Kind(t) = "header" THEN {} ELSE {t}
           f == [Top EXCEPT !.at = "merge", !.left = Dependencies(t), !.cmds = own]
<1>1. /\ stack # <<>> /\ Top.at = "prepare" /\ Top.left = {}
      /\ Propagated(t) = {} /\ ~Reexports(t)
      /\ commands' = commands \cup own
      /\ stack' = <<f>> \o Tail(stack)
      /\ UNCHANGED <<project, transforms, asking, taken>>
  BY DEF Prepare2, In
<1>2. /\ Tail(stack) \in Seq(Frame) /\ AllMerge(Tail(stack))
      /\ Calls(stack) = {Top} \cup Calls(Tail(stack)) /\ Top \in Frame /\ Top.cmds = {}
      /\ t \in Target
  BY <1>1, TopCalls, TopIs
<1>3. /\ f \in Frame /\ f.target = t /\ f.at = "merge" /\ f.left = Dependencies(t) /\ f.cmds = own
  BY <1>1, <1>2, DependenciesAreTargets DEF Frame
<1>4. \A d \in Dependencies(t) : DependencyOf(t, d) \in Loads
  BY <1>1, TopIs DEF FrameOK
<1>o. (Kind(t) = "header" \/ t \in own) /\ own \subseteq {t}
  OBVIOUS
<1> HIDE DEF f, own
<1>5. /\ Calls(stack') = {f} \cup Calls(Tail(stack))
      /\ stack' # <<>> /\ Head(stack') = f /\ Tail(stack') = Tail(stack)
  BY <1>1, <1>2, <1>3, CallsOf
<1>6. Stacked(stack')
  BY <1>2, <1>3, <1>5 DEF Stacked
<1>7. ASSUME NEW u \in asking
      PROVE  \/ Preparing(u, Calls(stack'))
             \/ Prepared(u, Calls(stack'), asking, commands', Loads)
  <2>1. CASE u = t
    <3>1. \A d \in Dependencies(t) : Left(t, d, Calls(stack'))
      BY <1>3, <1>5 DEF Left
    <3> QED
      BY <1>1, <1>4, <1>o, <2>1, <3>1 DEF Prepared
  <2>2. CASE u # t
    <3>1. Preparing(u, Calls(stack)) => Preparing(u, Calls(stack'))
      BY <1>2, <1>5, <2>2 DEF Preparing
    <3>2. \A e : Left(u, e, Calls(stack)) => Left(u, e, Calls(stack'))
      BY <1>2, <1>5, <2>2 DEF Left
    <3>3. Preparing(u, Calls(stack)) \/ Prepared(u, Calls(stack), asking, commands, Loads)
      BY DEF AskedInv, AskedAll
    <3> QED
      BY <1>1, <3>1, <3>2, <3>3 DEF Prepared
  <2> QED
    BY <2>1, <2>2
<1>8. \A u \in commands' : u \in taken \/ Held(u, Calls(stack'))
  <2>1. \A u \in commands : u \in taken \/ Held(u, Calls(stack'))
    BY <1>2, <1>5 DEF AskedInv, AskedAll, Held
  <2>2. \A u \in own : Held(u, Calls(stack'))
    BY <1>3, <1>5 DEF Held
  <2> QED
    BY <1>1, <2>1, <2>2
<1>9. Loads' = Loads
  BY <1>1 DEF Loads
<1>10. AskedAll(stack', asking', commands', taken', Loads')
  BY <1>1, <1>6, <1>7, <1>8, <1>9 DEF AskedAll
<1> QED
  BY <1>1, <1>10, AskedNext

LEMMA AskedReturn ==
  ASSUME IInv, AskedInv, Return
  PROVE  AskedInv'
<1>1. /\ stack # <<>> /\ Top.at = "merge" /\ Top.left = {} /\ Merge(Top.cmds, Tail(stack))
      /\ UNCHANGED <<project, transforms, asking, commands>>
  BY DEF Return, In
<1>2. /\ Tail(stack) \in Seq(Frame) /\ AllMerge(Tail(stack)) /\ AllMerge(stack)
      /\ Calls(stack) = {Top} \cup Calls(Tail(stack)) /\ Top \in Frame
  BY <1>1, TopCalls
<1>3. Top.cmds \in SUBSET Target
  BY <1>2 DEF Frame
<1>4. /\ Stacked(stack')
      /\ \A t, d : Left(t, d, Calls(Tail(stack))) => Left(t, d, Calls(stack'))
      /\ \A t : t \in taken \/ t \in Top.cmds \/ Held(t, Calls(Tail(stack)))
               => t \in taken' \/ Held(t, Calls(stack'))
  BY <1>1, <1>2, <1>3, MergeCalls
<1>5. \A t, d : Left(t, d, Calls(stack)) => Left(t, d, Calls(stack'))
  BY <1>1, <1>2, <1>4 DEF Left
<1>6. \A t \in asking : Prepared(t, Calls(stack), asking, commands, Loads)
  BY <1>2 DEF AskedInv, AskedAll, Preparing, AllMerge
<1>7. \A t \in asking : Prepared(t, Calls(stack'), asking, commands, Loads)
  BY <1>5, <1>6 DEF Prepared
<1>8. \A t \in commands : t \in taken' \/ Held(t, Calls(stack'))
  BY <1>2, <1>4 DEF AskedInv, AskedAll, Held
<1>9. Loads' = Loads
  BY <1>1 DEF Loads
<1>10. AskedAll(stack', asking', commands', taken', Loads')
  BY <1>1, <1>4, <1>7, <1>8, <1>9 DEF AskedAll
<1> QED
  BY <1>1, <1>10, AskedNext

LEMMA AskedTake ==
  ASSUME IInv, AskedInv, TakeDependency
  PROVE  AskedInv'
<1>1. PICK d \in Top.left :
        GetCommands(transforms[DependencyOf(Top.target, d)],
                    <<[Top EXCEPT !.left = @ \ {d}]>> \o Tail(stack))
  BY DEF TakeDependency
<1>2. stack # <<>> /\ Top.at = "merge" /\ UNCHANGED <<project, commands, transforms>>
  BY DEF TakeDependency, In
<1>3. /\ Tail(stack) \in Seq(Frame) /\ AllMerge(Tail(stack)) /\ AllMerge(stack)
      /\ Calls(stack) = {Top} \cup Calls(Tail(stack)) /\ Top \in Frame
      /\ FrameOK(Top, commands, Loads)
  BY <1>2, TopCalls, TopIs
<1> DEFINE t == DependencyOf(Top.target, d)
           f == [Top EXCEPT !.left = @ \ {d}]
           calls == <<f>> \o Tail(stack)
<1>4. t \in Loads /\ transforms[t] = t /\ t \in Target
  BY <1>1, <1>2, <1>3 DEF FrameOK, Loads, Transforms, BuiltAsAsked, IInv
<1>5. /\ f \in Frame /\ f.target = Top.target /\ f.at = "merge" /\ f.left = Top.left \ {d}
      /\ f.cmds = Top.cmds
  BY <1>2, <1>3 DEF Frame
<1>6. GetCommands(t, calls)
  BY <1>1, <1>4
<1>7. calls \in Seq(Frame)
  BY <1>3, <1>5
<1> HIDE DEF f
<1>8. Calls(calls) = {f} \cup Calls(Tail(stack))
  BY <1>3, <1>5, CallsOf
<1>9. AllMerge(calls)
  BY <1>3, <1>5, <1>8 DEF AllMerge
<1>10. \A u : Held(u, Calls(stack)) => Held(u, Calls(calls))
  BY <1>3, <1>5, <1>8 DEF Held
<1>11. ASSUME NEW u \in asking, NEW e \in Dependencies(u), Left(u, e, Calls(stack))
       PROVE  Left(u, e, Calls(calls)) \/ DependencyOf(u, e) = t
  BY <1>3, <1>5, <1>8, <1>11 DEF Left
<1> HIDE DEF calls, t
<1> QED
  BY <1>2, <1>3, <1>4, <1>6, <1>7, <1>9, <1>10, <1>11, AsksOne

LEMMA AskedRequest ==
  ASSUME IInv, AskedInv, TakeRequested
  PROVE  AskedInv' /\ Given(Head(todo), asking')
<1> DEFINE t == Head(todo)
<1>1. /\ todo # <<>> /\ stack = <<>> /\ GetCommands(transforms[t], <<>>)
      /\ phase = "take" /\ todo' = Tail(todo)
      /\ UNCHANGED <<project, transforms, commands>>
  BY DEF TakeRequested
<1>2. t \in Loads /\ transforms[t] = t /\ t \in Target
  BY <1>1, TodoTail DEF IInv, Loaded, Transforms, BuiltAsAsked, Loads
<1>3. GetCommands(t, <<>>) /\ <<>> \in Seq(Frame) /\ AllMerge(<<>>)
  BY <1>1, <1>2 DEF AllMerge, Calls
<1> HIDE DEF t
<1>4. Given(t, asking')
  BY <1>2, <1>3, GetCalls
<1>5. AskedInv'
  BY <1>1, <1>2, <1>3, AsksOne
<1> QED
  BY <1>4, <1>5 DEF t

LEMMA AskedInvStep ==
  ASSUME IInv, PhaseOK, AskedInv, [Next]_vars
  PROVE  AskedInv'
<1>1. CASE LinkDependency
  BY <1>1, AskedLink
<1>2. CASE Prepare2
  BY <1>2, AskedPrepare
<1>3. CASE TakeDependency
  BY <1>3, AskedTake
<1>4. CASE Return
  BY <1>4, AskedReturn
<1>5. CASE TakeRequested
  BY <1>5, AskedRequest
<1>6. CASE project' = project /\ asking' = {} /\ commands' = {} /\ stack' = <<>>
  <2>1. AskedAll(stack', asking', commands', taken', Loads')
    BY <1>6 DEF AskedAll, Stacked
  <2> QED
    BY <1>6, <2>1, AskedNext
<1>7. CASE UNCHANGED <<project, stack, asking, commands, taken, transforms>>
  <2>1. AskedAll(stack', asking', commands', taken', Loads')
    BY <1>7 DEF AskedInv, Loads
  <2> QED
    BY <1>7, <2>1, AskedNext
<1>8. LoadPackages \/ LoadRequested \/ Execute \/ Again =>
        project' = project /\ asking' = {} /\ commands' = {} /\ stack' = <<>>
  BY DEF LoadPackages, LoadRequested, Execute, Again, PhaseOK, IInv, Shape
<1>9. LoadRequestedFails \/ LinkDependencyFails \/ Prepare2Fails \/ Finish \/ UNCHANGED vars =>
        UNCHANGED <<project, stack, asking, commands, taken, transforms>>
  BY DEF LoadRequestedFails, LinkDependencyFails, Prepare2Fails, Finish, Throw, process, vars
<1> QED
  BY <1>1, <1>2, <1>3, <1>4, <1>5, <1>6, <1>7, <1>8, <1>9 DEF Next

LEMMA AskedOKStep ==
  ASSUME IInv, PhaseOK, AskedOK, AskedInv, [Next]_vars
  PROVE  AskedOK'
<1>0. project' = project /\ \A t : Kind(t)' = Kind(t)
  BY SameProject
     DEF Next, vars, LoadPackages, LoadRequested, LoadRequestedFails, Execute, TakeRequested,
         LinkDependency, LinkDependencyFails, Prepare2, Prepare2Fails, TakeDependency, Return,
         Finish, Again, Throw
<1>1. CASE LinkDependency
  <2>1. PICK d \in Top.left :
          ~LoadThrows(DependencyOf(Top.target, d)) /\ Load(DependencyOf(Top.target, d))
    BY <1>1 DEF LinkDependency, LinkFails
  <2>2. stack # <<>> /\ UNCHANGED <<asking, commands>>
    BY <1>1 DEF LinkDependency, In
  <2>3. DependencyOf(Top.target, d) \in Target
    BY <2>1, <2>2, TopIs, DependenciesAreTargets DEF FrameOK
  <2>4. Loads \subseteq Loads'
    BY <2>1, <2>3, LoadMakes DEF IInv, Loads
  <2> QED
    BY <1>0, <2>2, <2>4 DEF AskedOK
<1>2. CASE Prepare2
  <2> DEFINE t == Top.target
  <2>1. /\ stack # <<>> /\ UNCHANGED <<transforms, asking>>
        /\ commands' = commands \cup (IF Kind(t) = "header" THEN {} ELSE {t})
    BY <1>2 DEF Prepare2, In
  <2>2. t \in asking /\ t \in Target /\ Kind(t) \in Kinds
    BY <2>1, TopIs, LoadingAssumption DEF Kind, Target, IInv, Shape
  <2>3. Kind(t) # "program"
    BY <2>2 DEF AskedOK
  <2> HIDE DEF t
  <2> QED
    BY <1>0, <2>1, <2>2, <2>3 DEF AskedOK, Kinds, Loads
<1>3. ASSUME NEW t \in Loads, t \in Target, NEW calls \in Seq(Frame), AllMerge(calls),
             GetCommands(t, calls), UNCHANGED <<transforms, commands>>
      PROVE  AskedOK'
  <2>1. /\ asking' \subseteq asking \cup {t}
        /\ t \in asking \/ t \notin asking' \/ Kind(t) # "program"
    BY <1>3, GetCalls
  <2> QED
    BY <1>0, <1>3, <2>1 DEF AskedOK, Loads
<1>4. CASE TakeDependency
  <2>1. PICK d \in Top.left :
          GetCommands(transforms[DependencyOf(Top.target, d)],
                      <<[Top EXCEPT !.left = @ \ {d}]>> \o Tail(stack))
    BY <1>4 DEF TakeDependency
  <2>2. stack # <<>> /\ Top.at = "merge" /\ UNCHANGED <<commands, transforms>>
    BY <1>4 DEF TakeDependency, In
  <2>3. /\ Tail(stack) \in Seq(Frame) /\ AllMerge(Tail(stack)) /\ Top \in Frame
        /\ FrameOK(Top, commands, Loads)
    BY <2>2, TopCalls, TopIs
  <2> DEFINE t == DependencyOf(Top.target, d)
             f == [Top EXCEPT !.left = @ \ {d}]
  <2>4. t \in Loads /\ transforms[t] = t /\ t \in Target
    BY <2>1, <2>2, <2>3 DEF FrameOK, Loads, Transforms, BuiltAsAsked, IInv
  <2>5. f \in Frame /\ f.at = "merge"
    BY <2>2, <2>3 DEF Frame
  <2>6. GetCommands(t, <<f>> \o Tail(stack))
    BY <2>1, <2>4
  <2> HIDE DEF f, t
  <2>7. <<f>> \o Tail(stack) \in Seq(Frame) /\ AllMerge(<<f>> \o Tail(stack))
    <3>1. Calls(<<f>> \o Tail(stack)) = {f} \cup Calls(Tail(stack))
      BY <2>3, <2>5, CallsOf
    <3> QED
      BY <2>3, <2>5, <3>1 DEF AllMerge
  <2> QED
    BY <1>3, <2>2, <2>4, <2>6, <2>7
<1>5. CASE TakeRequested
  <2>1. /\ todo # <<>> /\ GetCommands(transforms[Head(todo)], <<>>) /\ phase = "take"
        /\ todo' = Tail(todo) /\ UNCHANGED <<transforms, commands>>
    BY <1>5 DEF TakeRequested
  <2>2. Head(todo) \in Loads /\ transforms[Head(todo)] = Head(todo) /\ Head(todo) \in Target
    BY <2>1, TodoTail DEF IInv, Loaded, Transforms, BuiltAsAsked, Loads
  <2>3. <<>> \in Seq(Frame) /\ AllMerge(<<>>)
    BY DEF AllMerge, Calls
  <2> QED
    BY <1>3, <2>1, <2>2, <2>3
<1>6. LoadPackages \/ LoadRequested \/ Execute \/ Again => asking' = {} /\ commands' = {}
  BY DEF LoadPackages, LoadRequested, Execute, Again, PhaseOK, IInv, Shape
<1>7. (\/ LoadRequestedFails \/ LinkDependencyFails \/ Prepare2Fails \/ Finish \/ Return
       \/ UNCHANGED vars)
      => UNCHANGED <<asking, commands, transforms>>
  BY DEF LoadRequestedFails, LinkDependencyFails, Prepare2Fails, Finish, Return, Throw,
         process, vars
<1>8. CASE asking' = {} /\ commands' = {}
  BY <1>8 DEF AskedOK
<1>9. CASE UNCHANGED <<asking, commands, transforms>>
  BY <1>0, <1>9 DEF AskedOK, Loads
<1> QED
  BY <1>1, <1>2, <1>4, <1>5, <1>6, <1>7, <1>8, <1>9 DEF Next

LEMMA GivenStays ==
  ASSUME IInv, AskedInv, [Next]_vars, phase = "take", phase' \in {"take", "done"}
  PROVE  asking \subseteq asking' /\ Loads \subseteq Loads'
<1>1. CASE LinkDependency
  <2>1. PICK d \in Top.left :
          ~LoadThrows(DependencyOf(Top.target, d)) /\ Load(DependencyOf(Top.target, d))
    BY <1>1 DEF LinkDependency, LinkFails
  <2>2. stack # <<>> /\ asking' = asking
    BY <1>1 DEF LinkDependency, In
  <2>3. DependencyOf(Top.target, d) \in Target
    BY <2>1, <2>2, TopIs, DependenciesAreTargets DEF FrameOK
  <2> QED
    BY <2>1, <2>2, <2>3, LoadMakes DEF IInv, Loads
<1>2. CASE TakeRequested \/ TakeDependency
  BY <1>2 DEF TakeRequested, TakeDependency, GetCommands, Loads
<1>3. CASE Prepare2 \/ Return \/ Finish \/ UNCHANGED vars
  BY <1>3 DEF Prepare2, Return, Finish, process, vars, Loads
<1> QED
  BY <1>1, <1>2, <1>3
     DEF Next, LoadPackages, LoadRequested, LoadRequestedFails, Execute, LinkDependencyFails,
         Prepare2Fails, Again, Throw

LEMMA PhaseStep ==
  ASSUME IInv, PhaseOK, AskedInv, [Next]_vars
  PROVE  PhaseOK'
<1>0. project' = project /\ First' = First /\ (\A t : Kind(t)' = Kind(t)) /\ project \in Projects
  BY SameProject
     DEF Next, vars, LoadPackages, LoadRequested, LoadRequestedFails, Execute, TakeRequested,
         LinkDependency, LinkDependencyFails, Prepare2, Prepare2Fails, TakeDependency, Return,
         Finish, Again, Throw, IInv, Shape
<1>1. CASE phase = "take" /\ phase' \in {"take", "done"}
  <2>1. asking \subseteq asking' /\ Loads \subseteq Loads'
    BY <1>1, GivenStays
  <2>2. \A t \in First : t \in Loads /\ (Given(t, asking) \/ \E k \in 1..Len(todo) : todo[k] = t)
    BY <1>1 DEF PhaseOK
  <2>3. \/ todo' = todo
        \/ todo # <<>> /\ todo' = Tail(todo) /\ Given(Head(todo), asking')
    BY <1>1, AskedRequest
       DEF Next, vars, LoadPackages, LoadRequested, LoadRequestedFails, Execute, TakeRequested,
           LinkDependency, LinkDependencyFails, Prepare2, Prepare2Fails, TakeDependency, Return,
           Finish, Again, Throw, process
  <2>4. ASSUME NEW t \in First
        PROVE  t \in Loads' /\ (Given(t, asking') \/ \E k \in 1..Len(todo') : todo'[k] = t)
    <3>1. CASE Given(t, asking)
      BY <2>1, <2>2, <3>1 DEF Given
    <3>2. CASE \E k \in 1..Len(todo) : todo[k] = t
      BY <2>1, <2>2, <2>3, <3>2, TodoTail
    <3> QED
      BY <2>2, <3>1, <3>2
  <2>5. phase' = "done" => todo' = <<>> /\ stack' = <<>>
    BY <1>1 DEF Next, vars, LoadPackages, LoadRequested, LoadRequestedFails, Execute,
           TakeRequested, LinkDependency, LinkDependencyFails, Prepare2, Prepare2Fails,
           TakeDependency, Return, Finish, Again, Throw, process
  <2> QED
    BY <1>0, <1>1, <2>4, <2>5 DEF PhaseOK, Given
<1>2. CASE Execute
  <2>1. /\ phase = "load" /\ phase' = "take" /\ todo = <<>> /\ todo' = Requests
        /\ UNCHANGED <<transforms, asking>>
    BY <1>2 DEF Execute
  <2>2. \A t \in First : t \in Loads' /\ \E k \in 1..Len(todo') : todo'[k] = t
    BY <1>0, <2>1, RequestsAreFirst DEF IInv, Loaded, Loads
  <2> QED
    BY <1>0, <2>1, <2>2 DEF PhaseOK
<1>3. CASE LoadPackages \/ LoadRequested
  BY <1>3 DEF LoadPackages, LoadRequested, PhaseOK
<1>4. CASE Again
  BY <1>4 DEF Again, PhaseOK, Loads
<1>5. CASE phase' = "failed"
  BY <1>5 DEF PhaseOK
<1>6. CASE UNCHANGED vars
  BY <1>0, <1>6 DEF vars, PhaseOK, Loads, Given
<1> QED
  BY <1>1, <1>2, <1>3, <1>4, <1>5, <1>6
     DEF Next, LoadRequestedFails, LinkDependencyFails, Prepare2Fails, Throw, TakeRequested,
         LinkDependency, Prepare2, TakeDependency, Return, Finish, In
-----------------------------------------------------------------------------
(* A refusal has a cause among what is needed: one of the limits.             *)
Refused == phase = "failed" => ~AllWithinLimits(Needed)

LEMMA LoadHasCause ==
  ASSUME IInv, LoadInv, NEW t \in Target, t \in Needed, LoadThrows(t)
  PROVE  ~AllWithinLimits(Needed)
<1>0. t \notin Loads /\ Shape /\ Transforms /\ LoadersOK /\ Loads \subseteq Needed
  BY DEF LoadThrows, Loads, IInv, LoadInv, NeededOK
<1>m. Made(t) = {t} /\ Cardinality(Made(t)) = 1
  BY <1>0, MadeIs
<1>1. CASE \E d \in Dependencies(t) : Resolved(t, d) = "none"
  BY <1>1 DEF Resolved, AllWithinLimits
<1>2. CASE Len(added[BuildOf(t[1])]) + 1 # 1
  <2> DEFINE b == BuildOf(t[1])
  <2>1. t[1] \in Name /\ b \in Builds /\ added[b] \in Seq(Target \cup {None})
    BY <1>0 DEF BuildOf, Builds, Target, Shape
  <2>2. added[b] # <<>>
    BY <1>2, <2>1
  <2>3. PICK u \in Loads : BuildOf(u[1]) = b
    BY <1>0, <2>1, <2>2 DEF LoadersOK
  <2>4. u \in Target /\ u[1] \in Name /\ u # t /\ u \in Needed
    BY <1>0, <2>3 DEF Transforms, Loads, Target
  <2>5. t[1] = u[1] \/ {t[1], u[1]} \subseteq PathNames
    BY <1>0, <2>1, <2>3, <2>4, LoadingAssumption DEF BuildOf, LoadersOK
  <2> QED
    BY <2>4, <2>5 DEF AllWithinLimits
<1> QED
  BY <1>0, <1>m, <1>1, <1>2 DEF LoadThrows

LEMMA LinkHasCause ==
  ASSUME IInv, LoadInv, AskedOK, LinkDependencyFails \/ Prepare2Fails
  PROVE  ~AllWithinLimits(Needed)
<1> DEFINE u == Top.target
<1>1. stack # <<>> /\ project \in Projects
  BY DEF LinkDependencyFails, Prepare2Fails, In, IInv, Shape
<1>2. u \in Target /\ u \in Loads /\ u \in Needed /\ u \in asking
  BY <1>1, TopIs DEF AskedOK, LoadInv, NeededOK
<1>3. CASE Propagated(u) # {} \/ Reexports(u)
  BY <1>2, <1>3 DEF AllWithinLimits
<1>4. ASSUME NEW d \in Top.left, LinkFails(d) PROVE ~AllWithinLimits(Needed)
  <2> DEFINE t == DependencyOf(u, d)
  <2>1. d \in Dependencies(u)
    BY <1>1, <1>4, TopIs DEF FrameOK
  <2>2. t \in Target /\ t[1] = d /\ t \in Needed
    BY <1>1, <1>2, <2>1, DependenciesAreTargets, FirstAreTargets, LeastIsClosed
       DEF DependencyOf, Needed
  <2>3. CASE LoadThrows(t)
    BY <2>2, <2>3, LoadHasCause
  <2>4. CASE loaders[d] = "none" /\ found[u][d] = "binary"
    <3>1. t \in installed
      BY <1>2, <2>1, <2>4 DEF FoundOK, LoadInv
    <3>2. t \notin Loads
      BY <2>2, <2>4 DEF LoadersOK, LoadInv
    <3>3. t \in before
      BY <3>1, <3>2 DEF RecordedOK, LoadInv
    <3> QED
      BY <2>2, <3>3 DEF AllWithinLimits
  <2> QED
    BY <1>4, <2>3, <2>4 DEF LinkFails
<1> QED
  BY <1>3, <1>4 DEF LinkDependencyFails, Prepare2Fails

LEMMA SameLimits ==
  ASSUME UNCHANGED <<project, before>>
  PROVE  AllWithinLimits(Needed)' <=> AllWithinLimits(Needed)
<1>1. Needed' = Needed /\ project' = project /\ before' = before
  BY SameNeeded
<1> QED
  BY <1>1, SameProject DEF AllWithinLimits

LEMMA RefusedStep ==
  ASSUME IInv, LoadInv, AskedOK, Refused, [Next]_vars
  PROVE  Refused'
<1>1. CASE LoadRequestedFails
  <2>1. todo # <<>> /\ LoadThrows(Head(todo)) /\ UNCHANGED <<project, before>>
    BY <1>1 DEF LoadRequestedFails, Throw
  <2>2. Head(todo) \in Target /\ Head(todo) \in First
    <3>1. /\ todo \in Seq(Target) /\ Head(todo) = todo[1] /\ 1 \in 1..Len(todo)
      BY <2>1 DEF IInv, Shape
    <3> QED
      BY <3>1 DEF LoadInv, NeededOK
  <2>3. Head(todo) \in Needed
    BY <2>2, FirstAreTargets, LeastIsClosed DEF Needed, IInv, Shape
  <2> QED
    BY <2>1, <2>2, <2>3, LoadHasCause, SameLimits DEF Refused
<1>2. CASE LinkDependencyFails \/ Prepare2Fails
  <2>1. UNCHANGED <<project, before>>
    BY <1>2 DEF LinkDependencyFails, Prepare2Fails, Throw
  <2> QED
    BY <1>2, <2>1, LinkHasCause, SameLimits DEF Refused
<1>3. CASE UNCHANGED vars
  BY <1>3, SameLimits DEF vars, Refused
<1>4. CASE phase' # "failed"
  BY <1>4 DEF Refused
<1>5. \/ LoadRequestedFails \/ LinkDependencyFails \/ Prepare2Fails \/ UNCHANGED vars
      \/ phase' # "failed"
  BY DEF Next, LoadPackages, LoadRequested, Execute, TakeRequested, LinkDependency, Prepare2,
         TakeDependency, Return, Finish, Again, In
<1> QED
  BY <1>1, <1>2, <1>3, <1>4, <1>5
-----------------------------------------------------------------------------
(* The invariant that relates a run to the project.                           *)
JInv == LoadInv /\ PhaseOK /\ AskedOK /\ AskedInv /\ Refused

THEOREM BuildInvariant == Spec => [](IInv /\ JInv)
<1>1. Init => JInv
  <2> SUFFICES ASSUME Init PROVE JInv
    OBVIOUS
  <2>1. Loads = {} /\ todo = <<>> /\ stack = <<>> /\ asking = {} /\ commands = {}
    BY DEF Init, Loads
  <2>2. LoadInv
    BY <2>1 DEF Init, LoadInv, RecordedOK, LoadersOK, FoundOK, NeededOK, Builds
  <2>3. PhaseOK /\ AskedOK /\ Refused
    BY <2>1 DEF Init, PhaseOK, AskedOK, Refused
  <2>4. AskedInv
    BY <2>1 DEF AskedInv, AskedAll, Stacked
  <2> QED
    BY <2>2, <2>3, <2>4 DEF JInv
<1>2. IInv /\ JInv /\ [Next]_vars => JInv'
  BY LoadInvStep, AskedInvStep, AskedOKStep, PhaseStep, RefusedStep DEF JInv
<1> QED
  BY InductiveInvariant, <1>1, <1>2, PTL DEF Spec

(* At the end what has been asked, and the programs, are a set that contains  *)
(* the requests and is closed: all that is needed.                            *)
LEMMA AllIsGiven ==
  ASSUME IInv, JInv, phase = "done"
  PROVE  /\ Needed \subseteq Loads
         /\ \A t \in Needed :
              /\ Given(t, asking)
              /\ t \in asking => Prepared(t, {}, asking, commands, Loads)
         /\ commands \subseteq taken
<1>1. /\ stack = <<>> /\ todo = <<>> /\ project \in Projects /\ Loads \subseteq Target
      /\ \A t \in First : t \in Loads /\ Given(t, asking)
  BY DEF IInv, Shape, JInv, PhaseOK, Loads, Transforms
<1>2. Calls(stack) = {}
  BY <1>1 DEF Calls
<1>3. /\ \A t \in asking : Prepared(t, {}, asking, commands, Loads)
      /\ commands \subseteq taken
  BY <1>2 DEF JInv, AskedInv, AskedAll, Preparing, Held
<1> DEFINE given == {t \in Loads : Given(t, asking)}
<1>4. ASSUME NEW t \in given, NEW d \in Dependencies(t)
      PROVE  DependencyOf(t, d) \in given
  <2>1. CASE t \in asking
    BY <1>3, <2>1 DEF Prepared, Left
  <2>2. CASE Kind(t) = "program"
    <3>1. t[1] \in Name
      BY <1>1 DEF Target
    <3> QED
      BY <1>1, <2>2, <3>1, LoadingAssumption DEF Kind, Dependencies
  <2> QED
    BY <2>1, <2>2 DEF Given
<1>5. First \in SUBSET Target /\ given \in SUBSET Target /\ First \subseteq given
  BY <1>1, FirstAreTargets
<1>6. Needed \subseteq given
  BY <1>4, <1>5, LeastIsLeast DEF Needed
<1> QED
  BY <1>3, <1>6

(* A build takes the commands of exactly what its requests need, whatever the  *)
(* order of the dependencies and the cycles among them.                       *)
THEOREM AllIsTaken == Spec => []ClosureTaken
<1>1. IInv /\ JInv => ClosureTaken
  <2> SUFFICES ASSUME IInv, JInv, phase = "done"
               PROVE  taken = {t \in NeededFor(Asked) : Kind(t) \in {"executable", "static"}}
    BY DEF ClosureTaken
  <2>1. NeededFor(Asked) = Needed
    BY NeededIs DEF IInv, Shape
  <2>2. ASSUME NEW t \in taken PROVE t \in Needed /\ Kind(t) \in {"executable", "static"}
    BY <2>2 DEF IInv, Shape, JInv, AskedOK, LoadInv, NeededOK
  <2>3. ASSUME NEW t \in Needed, Kind(t) \in {"executable", "static"} PROVE t \in taken
    <3>1. t \in asking
      BY <2>3, AllIsGiven DEF Given
    <3>2. t \in commands
      BY <2>3, <3>1, AllIsGiven DEF Prepared
    <3> QED
      BY <3>2, AllIsGiven
  <2> QED
    BY <2>1, <2>2, <2>3
<1> QED
  BY BuildInvariant, <1>1, PTL

(* A process builds exactly what lies within the limits of the code, and its  *)
(* verdict never depends on the order its dependencies are visited in.        *)
THEOREM LimitsAreExact == Spec => []BuiltWithinLimits
<1>1. IInv /\ JInv => BuiltWithinLimits
  <2> SUFFICES ASSUME IInv, JInv PROVE BuiltWithinLimits
    OBVIOUS
  <2>1. NeededFor(Asked) = Needed /\ project \in Projects
    BY NeededIs DEF IInv, Shape
  <2>2. ASSUME phase = "done" PROVE AllWithinLimits(Needed)
    <3>1. Needed \subseteq Loads /\ Loads \subseteq Target /\ PathNames \subseteq Name
      BY <2>1, <2>2, AllIsGiven, FirstAreTargets DEF IInv, Transforms, Loads
    <3>2. LoadersOK /\ FoundOK /\ RecordedOK
      BY DEF JInv, LoadInv
    <3>3. ASSUME NEW t \in Needed
          PROVE  /\ \A d \in Dependencies(t) :
                      project.kind[d] = "program" \/ d \in project.stored
                 /\ Propagated(t) = {} /\ ~Reexports(t) /\ t \notin before
      <4>1. t \notin before /\ t \in Target /\ t \in Loads
        BY <3>1, <3>2, <3>3 DEF LoadersOK
      <4>2. CASE t \in asking
        <5>1. /\ Propagated(t) = {} /\ ~Reexports(t)
              /\ \A d \in Dependencies(t) : DependencyOf(t, d) \in Loads
          BY <2>2, <3>3, <4>2, AllIsGiven DEF Prepared
        <5>2. ASSUME NEW d \in Dependencies(t)
              PROVE  project.kind[d] = "program" \/ d \in project.stored
          <6>1. d \in Name /\ DependencyOf(t, d)[1] = d /\ DependencyOf(t, d) \in Loads
            BY <4>1, <5>1, DependenciesAreTargets DEF DependencyOf
          <6>2. loaders[d] \in {"path", "driver"}
            BY <3>2, <6>1 DEF LoadersOK, IInv, Shape
          <6>3. CASE loaders[d] = "driver"
            BY <3>2, <6>1, <6>3 DEF LoadersOK
          <6>4. CASE loaders[d] = "path"
            <7>1. DependencyOf(t, d) \notin installed
              BY <3>2, <6>1, <6>4 DEF LoadersOK, RecordedOK
            <7> QED
              BY <3>2, <4>1, <7>1 DEF FoundOK
          <6> QED
            BY <6>2, <6>3, <6>4
        <5> QED
          BY <4>1, <5>1, <5>2
      <4>3. CASE Kind(t) = "program"
        <5>1. t[1] \in Name /\ \A d \in Name : project.use[t[1]][d] = "no"
          BY <2>1, <4>1, <4>3, LoadingAssumption DEF Target, Kind
        <5> QED
          BY <4>1, <4>3, <5>1 DEF Dependencies, Propagated, Reexports, Active
      <4> QED
        BY <2>2, <3>3, <4>2, <4>3, AllIsGiven DEF Given
    <3>4. ASSUME NEW t \in Needed, NEW u \in Needed,
                 t[1] = u[1] \/ {t[1], u[1]} \subseteq PathNames
          PROVE  t = u
      <4>1. t \in Loads /\ u \in Loads
        BY <3>1, <3>4
      <4>2. \A n \in PathNames : loaders[n] = "path"
        BY <2>2, <3>1 DEF IInv, Transforms
      <4>3. BuildOf(t[1]) = BuildOf(u[1])
        BY <3>4, <4>2 DEF BuildOf
      <4> QED
        BY <3>2, <4>1, <4>3 DEF LoadersOK
    <3> QED
      BY <3>3, <3>4 DEF AllWithinLimits
  <2>3. phase = "failed" => ~AllWithinLimits(Needed)
    BY DEF JInv, Refused
  <2> QED
    BY <2>1, <2>2, <2>3 DEF BuiltWithinLimits, WithinLimits
<1> QED
  BY BuildInvariant, <1>1, PTL
=============================================================================
