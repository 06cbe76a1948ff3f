----------------------------- MODULE MCRuleFiles -----------------------------
(* Every target of some of these files; the user's rule comes before the     *)
(* compilers, between them, or before or after the linker.                  *)
EXTENDS RuleFiles

MCWord ==
  {"asm", "c", "cpp", "proto", "rc", "o", "obj", "res", "exp", "def", "pdb", "lib", "a",
   "dll", "so", "exe", "Module", "out", "sw", "symbols", "h", "b", "p", "r", "d", "x", "y"}
MCFiles == {File("c", <<"a">>), File("cpp", <<"b">>), File("cpp", <<"c">>),
            File("proto", <<"p">>), File("rc", <<"r">>), File("obj", <<"o">>),
            File("def", <<"d">>), File("h", <<"h">>)}
Two(e) == {File("c", <<"a">>)} \cup {File(e, <<x>>) : x \in {"x", "y"}}
Sets == SUBSET MCFiles \cup {Two("def"), Two("pdb"), Two("pdb") \ {File("pdb", <<"x">>)}}
Tools == {{}, {"link"}, {"cl", "link"}}
MCTargets ==
  {t \in [sources : Sets, kind : Kinds, windows : BOOLEAN, vs : Tools, exports : BOOLEAN,
          unity : BOOLEAN] :
    /\ t.exports => t.windows /\ t.kind = "shared"
    /\ t.vs # {} => t.windows}
MCRuleNames ==
  LET compilers == <<"asm", "c", "cpp">>
  IN  {compilers \o n : n \in {<<"lib", "proto">>, <<"link", "proto">>, <<"link", "proto", "rc">>,
                               <<"gen", "link">>, <<"gen", "link", "rc">>}}
        \cup {<<"a">> \o compilers \o n : n \in {<<"lib">>, <<"link">>, <<"link", "rc">>}}
        \cup {<<"asm", "c", "code", "cpp", "link">>}
==============================================================================
