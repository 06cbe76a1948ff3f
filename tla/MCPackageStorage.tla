-------------------------- MODULE MCPackageStorage --------------------------
(* Two versions, one of which may be published with another content. *)
EXTENDS PackageStorage

MCVersion == {1, 2}
MCMay == [v \in MCVersion |-> IF v = 1 THEN {"a"} ELSE {"a", "b"}]
MCWorlds == {<< <<"release", "release">>, {1} >>, << <<"release", "prerelease">>, {} >>,
              << <<"release", "branch">>, {} >>}
MCByCache == {{2}}
==============================================================================
