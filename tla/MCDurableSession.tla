-------------------------- MODULE MCDurableSession --------------------------
(* DurableSession for TLC. *)
EXTENDS DurableSession, TLC

Symmetry == Permutations(SessionIds) \cup Permutations(TurnIds) \cup Permutations(CallIds)
=============================================================================
