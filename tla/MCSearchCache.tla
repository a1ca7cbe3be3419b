---------------------------- MODULE MCSearchCache ----------------------------
(* Instances of SearchCache for TLC.                                          *)
EXTENDS SearchCache, TLC

Symmetry == Permutations(Writers) \union Permutations(Searchers)
=============================================================================
