-------------------------- MODULE MCPackageLoading ---------------------------
(* Two packages with every use of each other, input, storage and             *)
(* configurations, and three whose uses form every graph; "t" is a program.  *)
EXTENDS PackageLoading

Several == {"a", "b", "c"}
MCName == Several \cup {"t"}
Pair(m) == {e \in m \X m : e[1] # e[2]}
Project(kinds, uses, stored, path, asked) ==
  [kind |-> [n \in MCName |-> IF n \in DOMAIN kinds THEN kinds[n] ELSE "program"],
   use |-> [n \in MCName |-> [d \in MCName |->
              IF <<n, d>> \in DOMAIN uses THEN uses[<<n, d>>]
              ELSE IF n = "a" /\ d = "t" THEN "tool" ELSE "no"]],
   stored |-> stored, path |-> path, asked |-> asked]

OfTwo ==
  {Project(k, u, s, p, c) :
     k \in [{"a", "b"} -> Kinds \ {"program"}], u \in [Pair({"a", "b"}) -> Uses],
     s \in {{"a", "b"}, {"b"}, {}}, p \in {<<"a">>, <<"a", "b">>},
     c \in {<<"host">>, <<"debug">>, <<"debug", "host">>}}
OfThree ==
  {Project(k, u, Several, <<"a">>, <<c>>) :
     k \in {k \in [Several -> {"executable", "header"}] : k["a"] = "executable"},
     u \in {u \in [Pair(Several) -> {"no", "private", "public", "tool"}] :
              \A e \in Pair(Several) : u[e] = "public" => e = <<"b", "c">>},
     c \in {"host", "debug"}}
MCProjects == OfTwo \cup OfThree

(* test/build/cpp/static/sw.cpp, built with -static: three libraries and an  *)
(* executable of one input, each using the one before it.                    *)
TestStatic ==
  LET name == <<"lib1", "lib2", "lib3", "exe1">> IN
  [kind |-> [n \in {name[i] : i \in 1..4} |-> IF n = "exe1" THEN "executable" ELSE "static"],
   use |-> [n \in {name[i] : i \in 1..4} |-> [d \in {name[i] : i \in 1..4} |->
              IF \E i \in 1..3 : d = name[i] /\ n = name[i + 1] THEN "private" ELSE "no"]],
   stored |-> {}, path |-> name, asked |-> <<"debug", "release">>]
TestName == DOMAIN TestStatic.kind
TestProjects == {TestStatic}
==============================================================================
