---------------------------- MODULE MCBuildCache ----------------------------
(* Instances of BuildCache for TLC: api imports code of lib. *)
EXTENDS BuildCache, TLC

OneApp == {"lib"}
DependsOne == [a \in OneApp |-> {}]
OrderOne == <<"lib">>
SourceOne == [a \in OneApp |-> a]

TwoApps == {"lib", "api"}
DependsTwo == [a \in TwoApps |-> IF a = "api" THEN {"lib"} ELSE {}]
OrderTwo == <<"lib", "api">>
SourceTwo == [a \in TwoApps |-> a]

VersionSymmetry == Permutations(Versions)
=============================================================================
