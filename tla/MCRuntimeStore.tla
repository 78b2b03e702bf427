--------------------------- MODULE MCRuntimeStore ---------------------------
(* RuntimeStore for TLC: the sessions are interchangeable, and so are the     *)
(* turns; no operator of the model tells two of them apart.                   *)
EXTENDS RuntimeStore, TLC

Symmetry == Permutations(SessionIds) \cup Permutations(TurnIds)
=============================================================================
