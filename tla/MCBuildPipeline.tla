--------------------------- MODULE MCBuildPipeline ---------------------------
(* Two makes of one contract, three contents of its source. *)
EXTENDS BuildPipeline, TLC

CONSTANTS c1, c2, c3, m1, m2

MCContents == {c1, c2, c3}
MCMakes == {m1, m2}
Failures == {"compiler_fails"}
Symmetry == Permutations(MCContents) \union Permutations(MCMakes)
=============================================================================
