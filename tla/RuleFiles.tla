------------------------------ MODULE RuleFiles ------------------------------
(***************************************************************************)
(* How the files of a native target become commands: RuleSystem::runRules  *)
(* applies the target's rules to its files in passes until a pass adds     *)
(* none (src/sw/driver/rule_storage.cpp, rule.cpp), and                    *)
(* RuleFiles::getCommands collects the commands with their dependencies    *)
(* (rule_file.cpp).                                                        *)
(*                                                                         *)
(* A file has an extension and a name, the sequence of what it was made    *)
(* of. A command is its inputs. Not modelled: precompiled headers,         *)
(* circular import libraries, the options of the programs.                 *)
(***************************************************************************)
EXTENDS Integers, Sequences, FiniteSets

CONSTANTS
  Word,      \* what extensions and names of files are made of
  Targets,   \* the targets: records with the fields of Target
  RuleNames  \* orders of the names of rules in std::map, with a rule of the user's

VARIABLES
  target,         \* the target, and the order of the names of its rules
  order,
  rfs,            \* RuleFiles: by file if a command makes it, from what; its dependencies
  stage,
  at, size,       \* runRules(): the rule that is next, number of files when the pass began
  missed,         \* ghost: the sources that iterations over rfs missed
  commands        \* the result: by file that is made, its inputs and the commands before it

rulesVars == <<target, order, rfs, stage, at, size, missed, commands>>

CompilerRules == {"asm", "c", "cpp"}
LinkerRules == {"lib", "link"}
NativeRules == CompilerRules \cup LinkerRules \cup {"rc"}
Kinds == {"static", "shared", "executable"}
Files == [ext : Word, name : Seq(Word)]
Target ==
  [sources : SUBSET Files, kind : Kinds, windows : BOOLEAN,
   vs : SUBSET {"cl", "link"},  \* Visual Studio's compilers (or clang-cl), its linkers
   exports : BOOLEAN,  \* ExportAllSymbols
   unity : BOOLEAN]    \* UnityBuild

File(e, n) == [ext |-> e, name |-> n]
From(e, f) == File(e, Append(f.name, f.ext))
No(f) == [made |-> FALSE, inputs |-> {}, deps |-> {}]
Of(e) == {f \in DOMAIN rfs : f.ext = e}

(* prepare1: a static library has the rule lib, other targets link and, on  *)
(* Windows, rc; the user may add rules of his own.                          *)
HasRule(t, r) ==
  CASE r = "lib"  -> t.kind = "static"
    [] r = "link" -> t.kind # "static"
    [] r = "rc"   -> t.kind # "static" /\ t.windows
    [] OTHER      -> TRUE

Named(o) == {o[i] : i \in DOMAIN o}
OrdersOf(t) == {o \in RuleNames : \A r \in {"lib", "link", "rc"} : r \in Named(o) <=> HasRule(t, r)}

ASSUME WordAssumption ==
  {"asm", "c", "cpp", "proto", "rc", "o", "obj", "res", "exp", "def", "pdb", "lib", "a",
   "dll", "so", "exe", "Module", "out", "sw", "symbols"} \subseteq Word

(* No target is given files that lie where its build writes: its output,    *)
(* files of unity builds and their objects, files its rules make.           *)
ASSUME TargetsAssumption ==
  \A t \in Targets :
    /\ t \in Target /\ IsFiniteSet(t.sources)
    /\ \A f \in t.sources :
         /\ f.name # <<"out">> /\ (f.name = <<>> \/ f.name[1] # "Module")
         /\ f.ext = "proto" => From("cpp", f) \notin t.sources

(* A map has a name once and keeps names in order: asm, c, cpp, lib, link,  *)
(* rc. The rule for assembler is there but for the Visual Studio compilers  *)
(* of processors other than x86.                                            *)
ASSUME RulesAssumption ==
  \A o \in RuleNames :
    /\ o \in Seq(STRING) /\ CompilerRules \subseteq Named(o) /\ ~(Named(o) \subseteq NativeRules)
    /\ \A i, j \in DOMAIN o :
         /\ o[i] = o[j] => i = j
         /\ o[i] \in CompilerRules /\ o[j] \in NativeRules \ CompilerRules => i < j
         /\ o[i] \in LinkerRules /\ o[j] = "rc" => i < j

(* prepare_pass8 gathers the active files. *)
RulesInit ==
  /\ target \in Targets /\ order \in OrdersOf(target)
  /\ rfs = [f \in target.sources |-> No(f)]
  /\ stage = "pass" /\ at = 1 /\ size = Cardinality(target.sources)
  /\ missed = {} /\ commands = <<>>

Fails == stage' = "failed" /\ UNCHANGED <<target, order, rfs, at, size, missed, commands>>
NextRule == at' = at + 1 /\ UNCHANGED <<target, order, stage, size, commands>>
Turn(r) == stage = "pass" /\ at <= Len(order) /\ order[at] = r

(* The files with those that were made, added unless they are there, and    *)
(* with their new commands.                                                 *)
Adding(made) ==
  [f \in DOMAIN made \cup DOMAIN rfs |-> IF f \in DOMAIN made THEN made[f] ELSE rfs[f]]
-----------------------------------------------------------------------------
(* NativeCompilerRule::addInputs *)

ObjectExt == IF target.windows THEN "obj" ELSE "o"
Object(f) == From(ObjectExt, f)
Pdb == File("pdb", <<"sw">>)

(* The files that unity builds write: the sources of a language in one.     *)
UnityFiles ==
  {File(e, <<"Module">>) : e \in {f.ext : f \in Of("c") \cup Of("cpp")}}

Inputs(r) ==
  LET unity == IF target.unity THEN UnityFiles ELSE {}
  IN  {f \in IF unity = {} THEN DOMAIN rfs ELSE unity : f.ext = r /\ Object(f) \notin DOMAIN rfs}

SetsPdb_Always(r) == "cl" \in target.vs /\ r \in {"c", "cpp"} /\ Of(r) # {}

(* The program database of the target, unless one is provided.              *)
SetsPdb(r) == "cl" \in target.vs /\ r \in {"c", "cpp"} /\ Of(r) # {} /\ Of("pdb") = {}

(* The loop inserts into the unordered map it iterates over. When that      *)
(* rehashes, the iteration goes on somewhere else and misses files.         *)
Compile(r) ==
  /\ Turn(r) /\ r \in CompilerRules /\ Cardinality(Of("pdb")) <= 1
  /\ \E files \in SUBSET Inputs(r) :
       /\ files = {} => Inputs(r) = {}
       /\ target.unity /\ UnityFiles # {} => files = Inputs(r)
       /\ rfs' = LET source(o) == {f \in files : o = Object(f)}
                     pdb == IF SetsPdb(r) THEN {Pdb} ELSE {}
                 IN  Adding([o \in {Object(f) : f \in files} \cup pdb |->
                               IF o = Pdb THEN No(Pdb)
                               ELSE [made |-> TRUE, inputs |-> source(o), deps |-> source(o)]])
       /\ missed' = missed \cup (Inputs(r) \ files)
  /\ NextRule
-----------------------------------------------------------------------------
(* NativeLinkerRule::addInputs *)

IsLinker == target.kind # "static"
LibraryExt == IF target.windows THEN "lib" ELSE "a"
Output ==
  File(CASE target.kind = "static"     -> LibraryExt
         [] target.kind = "shared"     -> IF target.windows THEN "dll" ELSE "so"
         [] target.kind = "executable" -> "exe", <<"out">>)
ImportLibrary == File(LibraryExt, <<"out">>)
DefFile == File("def", <<"sw", "symbols">>)

Linked ==
  {f \in DOMAIN rfs \ {ImportLibrary} :
    f.ext \in {"obj", "lib"} \cup (IF IsLinker THEN {"res", "exp"} ELSE {})}

(* All symbols are exported by a file that a command makes from the objects *)
(* of this pass, unless there is one.                                       *)
DefInputs == Of("obj")

Command(inputs) == [made |-> TRUE, inputs |-> inputs, deps |-> {}]
ExportsSymbols == target.exports /\ target.windows /\ IsLinker /\ "link" \in target.vs
MakesDef == ExportsSymbols /\ Of("def") = {}
Defs == IF "link" \in target.vs THEN Of("def") ELSE {}

Linking ==
  LET def == IF MakesDef THEN {DefFile} ELSE {}
  IN  Adding([f \in {Output} \cup def |->
                Command(IF f = Output THEN Linked \cup Defs \cup def ELSE DefInputs)])

Link_Once(r) ==
  /\ Turn(r) /\ r \in LinkerRules
  /\ Cardinality(Of("pdb")) <= 1 /\ Cardinality(Of("def")) <= 1
  /\ rfs' = IF (Linked = {} /\ Of("def") = {}) \/ Output \in DOMAIN rfs THEN rfs ELSE Linking
  /\ NextRule /\ UNCHANGED missed

(* The command is made anew in every pass. *)
Link(r) ==
  /\ Turn(r) /\ r \in LinkerRules
  /\ Cardinality(Of("pdb")) <= 1 /\ Cardinality(Of("def")) <= 1
  /\ rfs' = IF Linked = {} /\ Of("def") = {} THEN rfs ELSE Linking
  /\ NextRule /\ UNCHANGED missed

TooMany(r) ==
  /\ Turn(r)
  /\ \/ Cardinality(Of("pdb")) > 1 /\ r \in CompilerRules \cup LinkerRules
     \/ Cardinality(Of("def")) > 1 /\ r \in LinkerRules
  /\ Fails
-----------------------------------------------------------------------------
(* RcRule, and a rule that makes sources: NativeRule::addInputs adds the    *)
(* outputs that are not there after it has seen all files.                  *)
AddOutputs(from, to) ==
  LET outputs == {From(to, f) : f \in Of(from)} \ DOMAIN rfs
  IN  rfs' = Adding([o \in outputs |-> Command({f \in Of(from) : o = From(to, f)})])

Resources ==
  /\ Turn("rc") /\ AddOutputs("rc", "res")
  /\ NextRule /\ UNCHANGED missed

UserRule(r) ==
  /\ Turn(r) /\ r \notin NativeRules
  /\ AddOutputs("proto", "cpp")
  /\ NextRule /\ UNCHANGED missed
-----------------------------------------------------------------------------
EndPass_AtOnce ==
  /\ stage = "pass" /\ at > Len(order)
  /\ stage' = "collect"
  /\ UNCHANGED <<target, order, rfs, at, size, missed, commands>>

EndPass_FirstSize ==
  /\ stage = "pass" /\ at > Len(order)
  /\ IF size = Cardinality(DOMAIN rfs)
     THEN stage' = "collect" /\ UNCHANGED at
     ELSE at' = 1 /\ UNCHANGED stage
  /\ UNCHANGED <<target, order, rfs, size, missed, commands>>

EndPass ==
  /\ stage = "pass" /\ at > Len(order)
  /\ IF size = Cardinality(DOMAIN rfs)
     THEN stage' = "collect" /\ UNCHANGED <<at, size>>
     ELSE size' = Cardinality(DOMAIN rfs) /\ at' = 1 /\ UNCHANGED stage
  /\ UNCHANGED <<target, order, rfs, missed, commands>>

(* RuleFile::getDependencies1: the commands that make the dependencies; for *)
(* a dependency no command makes, its own dependencies' (sources have none).*)
Before(f) == {d \in rfs[f].deps : rfs[d].made}

GetCommands ==
  /\ stage = "collect" /\ \A f \in DOMAIN rfs : rfs[f].deps \subseteq DOMAIN rfs
  /\ stage' = "done"
  /\ commands' = [f \in {g \in DOMAIN rfs : rfs[g].made} |->
                   [inputs |-> rfs[f].inputs, before |-> Before(f)]]
  /\ UNCHANGED <<target, order, rfs, at, size, missed>>

(* "Dependency was set on file, but not added to rule files" *)
GetCommandsFails ==
  /\ stage = "collect" /\ \E f \in DOMAIN rfs : ~(rfs[f].deps \subseteq DOMAIN rfs)
  /\ Fails

Apply(r) == Compile(r) \/ Link(r) \/ TooMany(r) \/ UserRule(r)

Finished == stage \in {"done", "failed"} /\ UNCHANGED rulesVars

RulesNext ==
  \/ \E r \in Named(order) : Apply(r)
  \/ Resources \/ EndPass \/ GetCommands \/ GetCommandsFails \/ Finished

RulesSpec == RulesInit /\ [][RulesNext]_rulesVars /\ WF_rulesVars(RulesNext)
-----------------------------------------------------------------------------
Provided(t, es) == {f \in t.sources : f.ext \in es}
Generated(t) == {From("cpp", f) : f \in Provided(t, {"proto"})}
Sources(t) == Provided(t, CompilerRules) \cup Generated(t)
Objects == {Object(f) : f \in Sources(target)}
ResourceFiles ==
  IF HasRule(target, "rc") THEN {From("res", f) : f \in Provided(target, {"rc"})} ELSE {}

(* The commands are those of the target, whatever the order of the rules,   *)
(* the order of the files in the map and the files a pass missed: each      *)
(* source, provided or made by a rule, is compiled to its object after it   *)
(* is made, each resource is compiled, and no file is made by a command     *)
(* that should not be there.                                                *)
CommandsOfTarget ==
  stage = "done" =>
    /\ DOMAIN commands \ {Output, DefFile} =
         (Generated(target) \cup Objects \cup ResourceFiles) \ target.sources
    /\ \A f \in Sources(target) : Object(f) \in target.sources \/
         commands[Object(f)] = [inputs |-> {f}, before |-> Generated(target) \cap {f}]

(* "objs must go into object files": a target with objects or libraries has *)
(* a command that makes its output from all of them, whatever pass they     *)
(* came in. That is so on Windows; elsewhere the linker takes no objects.   *)
AllLinked ==
  LET all == Objects \cup ResourceFiles \cup
             Provided(target, {ObjectExt, "lib"} \cup (IF IsLinker THEN {"exp", "res"} ELSE {}))
  IN  stage = "done" /\ all # {} =>
        /\ Output \in DOMAIN commands
        /\ commands[Output].inputs = all \cup Defs

(* The sources that the user's rules make when the compilers have had their *)
(* turn, while the linker has something to link in that first pass.         *)
MadeLate == \A i, j \in DOMAIN order : order[i] = "cpp" /\ order[j] \notin NativeRules => i < j
LinksFirst == Provided(target, CompilerRules \cup {"obj", "lib", "res", "exp"}) # {}
LateSources == IF MadeLate /\ LinksFirst THEN Generated(target) ELSE {}

(* rule.cpp says "export all symbols", but the command that makes the       *)
(* definition file is never made anew: the objects it does not see are      *)
(* exactly those of sources that an iteration missed or that a rule made    *)
(* too late. They are linked, and their symbols are not exported.           *)
NotExported ==
  stage = "done" /\ DefFile \in DOMAIN commands =>
    /\ commands[DefFile].inputs \subseteq Of("obj")
    /\ Of("obj") \ commands[DefFile].inputs =
         {Object(f) : f \in missed \cup LateSources} \ target.sources

(* A file that comes late is linked all the same, and what late objects     *)
(* have is not exported: those of missed and late sources, and no others.   *)
LateFiles == (target.windows => AllLinked) /\ NotExported

TwoOf(e) == Cardinality(Provided(target, {e})) > 1
UnityOf(es) == target.unity /\ \E f \in Sources(target) : f.ext \in es

(* Which targets get no commands: those with two program databases or two   *)
(* definition files, and every unity build of C or C++ sources, since its   *)
(* objects depend on files that RuleFiles does not have. All others get     *)
(* theirs: no file is ever given two commands.                              *)
FailsExactly ==
  /\ stage = "failed" => TwoOf("pdb") \/ TwoOf("def") \/ UnityOf({"c", "cpp"})
  /\ stage = "done" => ~TwoOf("pdb") /\ ~TwoOf("def") /\ ~UnityOf({"c", "cpp"})

(* test/build/cpp/unity sets UnityBuild = true in a target with sources and *)
(* nothing else: with the setting as without it, only two program databases *)
(* or definition files would be a reason to refuse a target.                *)
UnityBuilds == stage = "failed" => TwoOf("pdb") \/ TwoOf("def")

(* The passes come to an end.                                               *)
PassesEnd == <>(stage \in {"done", "failed"})
==============================================================================
