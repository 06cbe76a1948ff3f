-------------------------- MODULE MCCommandRecords --------------------------
(***************************************************************************)
(* An instance of CommandRecords for TLC: a generator that reads a header, *)
(* and a compiler that may include that header and what is generated.      *)
(***************************************************************************)
EXTENDS CommandRecords, TLC

CONSTANTS gen, comp, s, g, h, o

Outs == (gen :> g) @@ (comp :> o)
Ins == (gen :> {}) @@ (comp :> {s})

(* comp may include the generated file g, and both may include h. *)
Includers == (gen :> {h}) @@ (comp :> {g, h})
Order == (gen :> {}) @@ (comp :> {gen})
(* The command line of comp changes. *)
CommandLines == (gen :> {1}) @@ (comp :> {1, 2})
=============================================================================
