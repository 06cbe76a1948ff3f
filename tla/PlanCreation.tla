---------------------------- MODULE PlanCreation ----------------------------
(***************************************************************************)
(* ExecutionPlan::create of src/sw/builder/execution_plan.{h,cpp}:         *)
(* prepare() refuses bad sets of commands and turns files into             *)
(* dependencies, init() orders the commands or finds those that cannot be  *)
(* ordered, and leaves the counters that execute() works with.             *)
(*                                                                         *)
(* Commands are kept in hash tables, so every loop takes them in any order.*)
(***************************************************************************)
EXTENDS Integers, FiniteSets, Sequences

CONSTANTS
  Command,   \* all commands of the build
  Plan,      \* those passed to create()
  File,      \* the files they read and write
  Hash,      \* hashes of commands
  Inputs     \* the builds considered: see InputRecord

(* What a build says of each command: its hash, the dependencies added by  *)
(* hand, inputs (with or without timestamps), outputs, simultaneous        *)
(* outputs, and strict_order.                                              *)
InputRecord ==
  [hash : [Command -> Hash],
   explicit : {e \in [Command -> SUBSET Command] : \A c \in Command : c \notin e[c]},
   ins : [Command -> SUBSET File],
   outs : [Command -> SUBSET File],
   simultaneous : [Command -> SUBSET File],
   strict : [Command -> Nat]]

ASSUME PlanAssumption == IsFiniteSet(Command) /\ Plan \subseteq Command
ASSUME InputsAssumption == Inputs \subseteq InputRecord

VARIABLES
  in,          \* the build
  phase,       \* the loop that is running
  todo,        \* what the loop has yet to visit
  hashes,      \* the set hashes of prepare()
  generators,  \* the command that writes a file, if any
  deps,        \* dependencies of every command
  cmds,        \* commands that init() has yet to order
  added,       \* this pass of init() ordered something
  commands,    \* the order
  unprocessed, \* commands that cannot be ordered
  left,        \* dependencies_left
  dependents,  \* dependent_commands
  verdict      \* how create() ended

vars == <<in, phase, todo, hashes, generators, deps, cmds, added, commands,
          unprocessed, left, dependents, verdict>>
initVars == <<cmds, added, commands, unprocessed, left, dependents>>

Verdict == {"none", "valid", "cyclic", "duplicate", "foreign", "two_producers",
            "self_dependency"}

Elements(s) == {s[i] : i \in 1..Len(s)}

TypeOK ==
  /\ in \in InputRecord
  /\ phase \in {"check", "generators", "edges", "order", "link", "sort", "end"}
  /\ todo \in SUBSET Plan
  /\ hashes \in SUBSET Hash
  /\ generators \in [File -> SUBSET Plan]
  /\ deps \in [Command -> SUBSET Command]
  /\ phase \notin {"check", "end"} => \A c \in Plan : deps[c] \subseteq Plan
  /\ cmds \in SUBSET Plan
  /\ added \in BOOLEAN
  /\ commands \in Seq(Plan)
  /\ unprocessed \in SUBSET Plan
  /\ left \in [Command -> Nat]
  /\ dependents \in [Command -> SUBSET Command]
  /\ verdict \in Verdict

Init ==
  /\ in \in Inputs
  /\ phase = "check"
  /\ todo = Plan
  /\ hashes = {}
  /\ generators = [f \in File |-> {}]
  /\ deps = in.explicit
  /\ cmds = Plan
  /\ added = FALSE
  /\ commands = <<>>
  /\ unprocessed = {}
  /\ left = [c \in Command |-> 0]
  /\ dependents = [c \in Command |-> {}]
  /\ verdict = "none"
-----------------------------------------------------------------------------
(* prepare() *)

Throw(v) ==
  /\ phase' = "end"
  /\ verdict' = v
  /\ UNCHANGED <<in, todo, hashes, generators, deps, initVars>>

RejectDuplicate(c) ==
  /\ phase = "check" /\ c \in todo
  /\ in.hash[c] \in hashes
  /\ Throw("duplicate")

IsForeign(c) == ~(deps[c] \subseteq Plan)

RejectForeign(c) ==
  /\ phase = "check" /\ c \in todo
  /\ in.hash[c] \notin hashes
  /\ IsForeign(c)
  /\ Throw("foreign")

CheckCommand(c) ==
  /\ phase = "check" /\ c \in todo
  /\ in.hash[c] \notin hashes
  /\ ~IsForeign(c)
  /\ hashes' = hashes \cup {in.hash[c]}
  /\ todo' = todo \ {c}
  /\ UNCHANGED <<in, phase, generators, deps, initVars, verdict>>

IsTaken(c) == \E o \in in.outs[c] : generators[o] # {}

RejectProducer(c) ==
  /\ phase = "generators" /\ c \in todo
  /\ IsTaken(c)
  /\ Throw("two_producers")

AddGenerators(c) ==
  /\ phase = "generators" /\ c \in todo
  /\ ~IsTaken(c)
  /\ generators' = [f \in File |-> IF f \in in.outs[c] THEN {c} ELSE generators[f]]
  /\ todo' = todo \ {c}
  /\ UNCHANGED <<in, phase, hashes, deps, initVars, verdict>>

(* Commands of the plan that write a file c reads. *)
Producers_First(c) ==          \* mutant: simultaneous outputs are overlooked
  UNION {generators[i] : i \in in.ins[c]}
Producers(c) ==
  (UNION {generators[i] : i \in in.ins[c]})
    \cup {p \in Plan : in.ins[c] \cap in.simultaneous[p] # {}}

RejectSelf(c) ==
  /\ phase = "edges" /\ c \in todo
  /\ c \in Producers(c)
  /\ Throw("self_dependency")

AddEdges(c) ==
  /\ phase = "edges" /\ c \in todo
  /\ c \notin Producers(c)
  /\ deps' = [deps EXCEPT ![c] = @ \cup Producers(c)]
  /\ todo' = todo \ {c}
  /\ UNCHANGED <<in, phase, hashes, generators, initVars, verdict>>

After == [check |-> "generators", generators |-> "edges", edges |-> "order"]

NextLoop ==
  /\ phase \in DOMAIN After /\ todo = {}
  /\ phase' = After[phase]
  /\ todo' = Plan
  /\ UNCHANGED <<in, hashes, generators, deps, initVars, verdict>>
-----------------------------------------------------------------------------
(* init() *)

IsBlocked_Later(c) == deps[c] \cap todo # {}    \* mutant: visited ones are forgotten
IsBlocked(c) == deps[c] \cap cmds # {}

PassBy(c) ==
  /\ phase = "order" /\ c \in todo
  /\ IsBlocked(c)
  /\ todo' = todo \ {c}
  /\ UNCHANGED <<in, phase, hashes, generators, deps, initVars, verdict>>

Take(c) ==
  /\ phase = "order" /\ c \in todo
  /\ ~IsBlocked(c)
  /\ commands' = Append(commands, c)
  /\ cmds' = cmds \ {c}
  /\ todo' = todo \ {c}
  /\ added' = TRUE
  /\ UNCHANGED <<in, phase, hashes, generators, deps, unprocessed, left, dependents,
                 verdict>>

GivesUp_Early == TRUE          \* mutant: only one pass is made
GivesUp == ~added

NextPass ==
  /\ phase = "order" /\ todo = {} /\ cmds # {}
  /\ ~GivesUp
  /\ todo' = cmds
  /\ added' = FALSE
  /\ UNCHANGED <<in, phase, hashes, generators, deps, cmds, commands, unprocessed,
                 left, dependents, verdict>>

GiveUp ==
  /\ phase = "order" /\ todo = {} /\ cmds # {}
  /\ GivesUp
  /\ unprocessed' = cmds
  /\ phase' = "end"
  /\ verdict' = "cyclic"
  /\ UNCHANGED <<in, todo, hashes, generators, deps, cmds, added, commands, left,
                 dependents>>

AllOrdered ==
  /\ phase = "order" /\ todo = {} /\ cmds = {}
  /\ phase' = "link"
  /\ UNCHANGED <<in, todo, hashes, generators, deps, initVars, verdict>>

LinkedTo(c) == {d \in Elements(commands) : c \in deps[d]}

(* dependencies_left is set, dependent_commands is added to. *)
Link ==
  /\ phase = "link"
  /\ left' = [c \in Command |->
                IF c \in Elements(commands) THEN Cardinality(deps[c]) ELSE left[c]]
  /\ dependents' = [c \in Command |-> dependents[c] \cup LinkedTo(c)]
  /\ phase' = "sort"
  /\ UNCHANGED <<in, todo, hashes, generators, deps, cmds, added, commands,
                 unprocessed, verdict>>

StrictLess(a, b) ==
  in.strict[a] # 0 /\ (in.strict[b] = 0 \/ in.strict[a] < in.strict[b])

(* lessDuringExecution: the last criterion compares the number of          *)
(* dependents of a command with itself, hence decides nothing.             *)
Less(a, b) ==
  \/ Cardinality(deps[a]) < Cardinality(deps[b])
  \/ Cardinality(deps[a]) = Cardinality(deps[b]) /\ StrictLess(a, b)

Sort ==
  /\ phase = "sort"
  /\ \E s \in [1..Len(commands) -> Elements(commands)] :
       /\ Elements(s) = Elements(commands)
       /\ \A i, j \in 1..Len(commands) : i < j => ~Less(s[j], s[i])
       /\ commands' = s
  /\ phase' = "end"
  /\ verdict' = "valid"
  /\ UNCHANGED <<in, todo, hashes, generators, deps, cmds, added, unprocessed, left,
                 dependents>>

Ended == phase = "end" /\ UNCHANGED vars

Next ==
  \/ \E c \in Plan :
       \/ RejectDuplicate(c) \/ RejectForeign(c) \/ CheckCommand(c)
       \/ RejectProducer(c) \/ AddGenerators(c)
       \/ RejectSelf(c) \/ AddEdges(c)
       \/ PassBy(c) \/ Take(c)
  \/ NextLoop \/ NextPass \/ GiveUp \/ AllOrdered \/ Link \/ Sort
  \/ Ended

Spec == Init /\ [][Next]_vars
-----------------------------------------------------------------------------
(* Properties. *)

(* What create() should say, from the build alone. *)
HasDuplicate == \E a, b \in Plan : a # b /\ in.hash[a] = in.hash[b]
HasForeign == \E c \in Plan : ~(in.explicit[c] \subseteq Plan)
HasTwoProducers == \E a, b \in Plan : a # b /\ in.outs[a] \cap in.outs[b] # {}
Reads(c, p) == in.ins[c] \cap (in.outs[p] \cup in.simultaneous[p]) # {}
HasSelf == \E c \in Plan : Reads(c, c)
FullDeps == [c \in Plan |-> in.explicit[c] \cup {p \in Plan : Reads(c, p)}]
(* Commands that wait for themselves, and those that wait for them. *)
Stuck == UNION {S \in SUBSET Plan : \A c \in S : FullDeps[c] \cap S # {}}

(* The verdict of create() depends on the build only, not on the order in  *)
(* which hash tables hand out commands.                                    *)
VerdictRight ==
  /\ verdict = "duplicate" => HasDuplicate
  /\ verdict = "foreign" => HasForeign
  /\ verdict \notin {"none", "duplicate", "foreign"} =>
       verdict = IF HasDuplicate \/ HasForeign THEN "none"
                 ELSE IF HasTwoProducers THEN "two_producers"
                 ELSE IF HasSelf THEN "self_dependency"
                 ELSE IF Stuck # {} THEN "cyclic" ELSE "valid"

(* Until it is sorted, commands is a topological order: no command comes   *)
(* before one it depends on.                                               *)
OrderTopological ==
  phase \in {"order", "link", "sort"} =>
    \A i \in 1..Len(commands) :
      deps[commands[i]] \subseteq {commands[j] : j \in 1..(i - 1)}

(* What cannot be ordered is exactly what is on a cycle or depends on one. *)
UnprocessedExact == verdict = "cyclic" => unprocessed = Stuck

(* create() accepts exactly the builds that can be executed, says what is  *)
(* wrong with the others, and of a cyclic one names the commands that      *)
(* cannot be ordered.                                                      *)
VerdictExact == TypeOK /\ VerdictRight /\ UnprocessedExact

(* A valid plan has no cycle: the condition under which execute() can      *)
(* perform all of it.                                                      *)
AcyclicHandedOver ==
  verdict = "valid" =>
    \A S \in SUBSET Plan : S # {} => \E c \in S : deps[c] \cap S = {}

CountersAgree ==
  \A c \in Plan : left[c] = Cardinality({d \in Plan : c \in dependents[d]})
RootsFirst ==
  \A i, j \in 1..Len(commands) :
    i < j /\ deps[commands[j]] = {} => deps[commands[i]] = {}

(* execute() can work with a valid plan: each counter equals the number of *)
(* dependencies that will count it down, each dependency knows whom to     *)
(* count down, and since execute() stops looking for commands without      *)
(* dependencies at the first one that has some, none is left behind it.    *)
ReadyToExecute == verdict = "valid" => CountersAgree /\ RootsFirst

(* Every reader of a file waits for its writers. *)
ReadersWait ==
  verdict = "valid" =>
    /\ Elements(commands) = Plan /\ Len(commands) = Cardinality(Plan)
    /\ \A c, p \in Plan : Reads(c, p) => c \in dependents[p]

(* What execute() is handed can be executed as it stands: no command is    *)
(* missing, counters and dependents agree, and readers wait for writers.   *)
HandedOverReady == ReadyToExecute /\ ReadersWait
=============================================================================
