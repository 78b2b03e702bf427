-------------------------------- MODULE Faults --------------------------------
(* What may come between two steps of a program that works on files: the end  *)
(* of its process, a file operation that fails, a person who changes a file.  *)
(* The modules that keep files share one budget of it.                        *)
EXTENDS Integers, Sequences, FiniteSets

CONSTANTS MaxTrouble,  \* bound: crashes, failed operations and changes by hand
          MaxTime      \* bound: ticks of the clock
ASSUME FaultsAssumption == MaxTrouble \in Nat /\ MaxTime \in Nat

VARIABLES trouble,     \* what may still go wrong
          now          \* the wall clock

faultVars == <<trouble, now>>

FaultsTypeOK == trouble \in 0..MaxTrouble /\ now \in 0..MaxTime
FaultsInit == trouble = MaxTrouble /\ now = 0

Trouble == trouble > 0 /\ trouble' = trouble - 1 /\ UNCHANGED now
Tick == now < MaxTime /\ now' = now + 1 /\ UNCHANGED trouble
=============================================================================
