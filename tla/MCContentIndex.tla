--------------------------- MODULE MCContentIndex ---------------------------
(* Instances of ContentIndex for TLC. *)
EXTENDS ContentIndex, TLC

Symmetry == Permutations(Entries) \union Permutations(Passes)
=============================================================================
