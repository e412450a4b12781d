------------------------- MODULE MC_SharedSegments -------------------------
(* Instances of SharedSegments for TLC: processes and masters are alike. *)
EXTENDS SharedSegments, TLC

Symmetry == Permutations(Procs) \union Permutations(Masters)
=============================================================================
