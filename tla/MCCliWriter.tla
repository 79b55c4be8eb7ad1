----------------------------- MODULE MCCliWriter -----------------------------
(* Two runs of the tool on one output directory. *)
EXTENDS CliWriter, TLC

CONSTANTS r1, r2, n1, n2, i1, i2

MCRuns == {r1, r2}
MCNames == {n1, n2}
MCInfos == {i1, i2}
Symmetry == Permutations(MCRuns) \union Permutations(MCNames) \union Permutations(MCInfos)
=============================================================================
