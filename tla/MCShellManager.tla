--------------------------- MODULE MCShellManager ---------------------------
(* ShellManager for TLC.  A behaviour has MaxRunning slots, so that the start *)
(* calls do not hinder one another, or a single one, so that they do.         *)
EXTENDS ShellManager, TLC

VARIABLE limit

Single == INSTANCE ShellManager WITH MaxRunning <- 1

MCInit == Init /\ limit \in {1, MaxRunning}
MCNext == /\ \/ limit = 1 /\ Single!Next
             \/ limit # 1 /\ Next
          /\ UNCHANGED limit
MCSpec == MCInit /\ [][MCNext]_<<vars, limit>>


Symmetry == Permutations(Sessions)
=============================================================================
