------------------------------- MODULE MCUpkeep -------------------------------
(* The commands that keep the files of a vault, for TLC: garbage collection,  *)
(* the intake of evidence and the migration of older data share nothing but   *)
(* the clock and the budget of faults, and each behaviour takes one of them.  *)
EXTENDS VaultGc, EvidenceIntake, Migration

CONSTANT Budget \* bound: what may go wrong in each of them

VARIABLE part   \* the one this behaviour takes

allVars == <<part, gcVars, intakeVars, migVars, faultVars>>

SomeTurn == [user |-> "plain", item |-> "plain", deltas |-> "none", draft |-> "none",
             status |-> "running", arguments |-> "plain", output |-> "secret",
             outcome |-> "completed", reasoning |-> FALSE]
OtherTurn == [SomeTurn EXCEPT !.item = "none", !.deltas = "secret", !.draft = "secret",
                              !.status = "completed", !.output = "plain"]
Turns == {NoThread, SomeTurn, OtherTurn}

Budgets == [gc |-> 1, intake |-> 2, migration |-> 3]

UpkeepInit ==
  /\ part \in DOMAIN Budget
  /\ FaultsInit /\ GcInit /\ IntakeInit /\ MigrationInit
  /\ part # "gc" => original = [p \in Paths |-> NoFile]
  /\ part # "migration" => source.turn = NoThread

UpkeepNext ==
  /\ UNCHANGED part
  /\ \/ part = "gc" /\ GcNext /\ UNCHANGED <<intakeVars, migVars>>
     \/ part = "intake" /\ IntakeNext /\ UNCHANGED <<gcVars, migVars>>
     \/ part = "migration" /\ MigrationNext /\ UNCHANGED <<gcVars, intakeVars>>
  /\ MaxTrouble - trouble' <= Budget[part]

UpkeepSpec == UpkeepInit /\ [][UpkeepNext]_allVars

UpkeepTypeOK == FaultsTypeOK /\ GcTypeOK /\ IntakeTypeOK /\ MigrationTypeOK
=============================================================================
