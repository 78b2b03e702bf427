----------------------------- MODULE MCWikiForget -----------------------------
(* WikiForget for TLC. *)
EXTENDS WikiForget, TLC

Symmetry == Permutations(Jobs) \cup Permutations(Pages)
=============================================================================
