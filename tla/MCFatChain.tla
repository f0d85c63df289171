----------------------------- MODULE MCFatChain -----------------------------
(* A volume of a few clusters, for TLC *)
EXTENDS FatChain, TLC

Symmetry == Permutations(File)

=============================================================================
