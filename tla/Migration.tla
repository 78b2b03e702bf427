------------------------------- MODULE Migration -------------------------------
(* The import of data of an older program: cli/src/migration.rs.              *)
(*                                                                            *)
(* A dry run makes a plan: what the source normalises to, and whether each    *)
(* target file is absent, there with the same bytes, or in the way.  A plan   *)
(* applied is made durable first, then its absent targets are created one by  *)
(* one, verified, and a receipt is written; a failure, or the next apply      *)
(* after a crash, removes what was created.  A receipt can be rolled back.    *)
(* The lock of the migration holds off other migrations only: the runtime     *)
(* and people write the same files meanwhile.                                 *)
(*                                                                            *)
(* Abstractions.  A source is a configuration and one turn of one thread; the *)
(* migration is named by the fingerprint of its source, so the source is its  *)
(* name.  An artifact is what it is made from.  capability-metadata.json, a   *)
(* third target with a path of its own for each migration, is left out.       *)
(* Files are written in place: what stops a write leaves a torn file, or a    *)
(* whole one.  The look at one file and its removal are one step.             *)
EXTENDS Faults

CONSTANTS Configs,     \* the configurations a source may have
          LegacyTurns, \* the turns a source may have, or no thread at all
          MaxPlans     \* bound: dry runs

Strings == {"none", "plain", "secret"}
NoThread == [user |-> "none", item |-> "none", deltas |-> "none", draft |-> "none",
             status |-> "running", arguments |-> "none", output |-> "none",
             outcome |-> "other", reasoning |-> FALSE]
IsLegacyTurn(turn) ==
  turn \in [user : Strings, item : Strings, deltas : Strings, draft : Strings,
            status : {"completed", "failed", "running", "interrupted"},
            arguments : Strings, output : Strings,
            outcome : {"completed", "failed", "other"}, reasoning : BOOLEAN]

ASSUME MigrationAssumption ==
  /\ Configs # {} /\ LegacyTurns # {} /\ MaxPlans \in Nat
  /\ \A turn \in LegacyTurns : IsLegacyTurn(turn)

VARIABLES source,   \* the data of the older program
          target,   \* the files of the new one
          dryRuns,  \* the plans made, in files of the user
          ledgers,  \* what each migration keeps of itself
          mig,      \* the apply or rollback under way
          touched,  \* history: targets others changed since a migration verified them
          undone    \* history: migrations with a receipt that began to remove their files

migVars == <<source, target, dryRuns, ledgers, mig, touched, undone>>

Sources == [config : Configs, turn : LegacyTurns]

TargetFiles == {"config", "sessions"}

Absent == <<"absent">>
Torn == <<"torn">>
Foreign == <<"foreign">>

(* secret_string: what looks like a secret is left out. *)
Without(text) == IF text = "secret" THEN "none" ELSE text

(* normalize_tools: a call without a usable result is indeterminate. *)
NormalTool(turn) ==
  LET called == Without(turn.arguments) # "none"
      answered == Without(turn.output) # "none"
  IN [arguments |-> Without(turn.arguments),
      output |-> IF called THEN Without(turn.output) ELSE "none",
      result |-> CASE ~called -> "none"
                   [] called /\ (~answered \/ turn.outcome = "other") -> "indeterminate"
                   [] OTHER -> IF turn.outcome = "completed" THEN "succeeded" ELSE "failed"]

(* normalize_turn: a secret answer is dropped and not replaced by the draft. *)
NormalTurn(turn) ==
  [status |-> IF turn.status = "running" THEN "interrupted" ELSE turn.status,
   user |-> turn.user,
   answer |-> LET deltas == Without(turn.deltas) IN
              Without(IF turn.item # "none" THEN turn.item
                      ELSE IF deltas # "none" THEN deltas ELSE turn.draft),
   tool |-> NormalTool(turn)]

(* normalize_sessions: a secret message of the user drops the turn. *)
NormalSessions(turn) == {NormalTurn(t) : t \in {u \in {turn} : u.user # "secret"}}

(* Traces of private reasoning stop the whole migration. *)
Buildable(s) == ~s.turn.reasoning
TargetsOf(s) == IF s.turn = NoThread THEN {"config"} ELSE TargetFiles
Artifact(s, t) == IF t = "config" THEN <<"config", s.config>>
                  ELSE <<"sessions", s, NormalSessions(s.turn)>>

(* classify_target_dispositions *)
Disposition(s, t) ==
  CASE t \notin TargetsOf(s) -> "none"
    [] target[t] = Absent -> "absent"
    [] target[t] = Artifact(s, t) -> "same"
    [] OTHER -> "collision"
PlanNow == [source |-> source, disposition |-> [t \in TargetFiles |-> Disposition(source, t)]]
Collides(plan) == \E t \in TargetFiles : plan.disposition[t] = "collision"

(* operation_for_plan: the order in which targets are created; they are       *)
(* removed in reverse.                                                        *)
IfAbsent(plan, t) == IF plan.disposition[t] = "absent" THEN <<t>> ELSE <<>>
ToCreate(plan) == IfAbsent(plan, "config") \o IfAbsent(plan, "sessions")

Plans == [source : Sources, disposition : [TargetFiles -> {"none", "absent", "same", "collision"}]]
NoDryRun == [source |-> [config |-> "none", turn |-> NoThread],
             disposition |-> [t \in TargetFiles |-> "none"]]
NoLedger == [plan |-> NoDryRun, planFile |-> "none", operation |-> "none",
             staging |-> FALSE, receipt |-> "none", rollback |-> "none"]
NoMigration == [kind |-> "none", at |-> "none", plan |-> NoDryRun, left |-> <<>>, created |-> <<>>]

FileStates == {"none", "torn", "whole"}
Ledgers == [plan : Plans \cup {NoDryRun}, planFile : FileStates, operation : FileStates,
            staging : BOOLEAN, receipt : FileStates, rollback : FileStates]
Steps == {"none", "recover", "compare", "plan", "operation", "stage", "publish", "undo",
          "receipt", "done", "remove"}
Migrations == [kind : {"none", "apply", "rollback"}, at : Steps, plan : Plans \cup {NoDryRun},
               left : Seq(TargetFiles), created : Seq(TargetFiles)]
FilesAt(t) == {Absent, Torn, Foreign} \cup {Artifact(s, t) : s \in Sources}

MigrationTypeOK ==
  /\ source \in Sources
  /\ target \in [TargetFiles -> UNION {FilesAt(t) : t \in TargetFiles}]
  /\ \A t \in TargetFiles : target[t] \in FilesAt(t)
  /\ dryRuns \subseteq Plans /\ ledgers \in [Sources -> Ledgers] /\ mig \in Migrations
  /\ \A s \in Sources :
       /\ ledgers[s].planFile = "whole" => ledgers[s].plan.source = s
       /\ ledgers[s].receipt = "whole" => ledgers[s].operation = "whole"
       /\ ledgers[s].operation # "none" => ledgers[s].planFile = "whole"
  /\ mig.kind # "none" => mig.plan \in dryRuns
  /\ touched \subseteq Sources \X TargetFiles /\ undone \subseteq Sources

MigrationInit ==
  /\ source \in {s \in Sources : Buildable(s)}
  /\ target = [t \in TargetFiles |-> Absent]
  /\ dryRuns = {} /\ ledgers = [s \in Sources |-> NoLedger] /\ mig = NoMigration
  /\ touched = {} /\ undone = {}
-----------------------------------------------------------------------------
Owner == mig.plan.source
Own == ledgers[Owner]
Record(own) == ledgers' = [ledgers EXCEPT ![Owner] = own]
Goes(at) == mig' = [mig EXCEPT !.at = at]

(* build_migration_plan *)
DryRun ==
  /\ mig = NoMigration /\ Cardinality(dryRuns) < MaxPlans /\ Buildable(source)
  /\ PlanNow \notin dryRuns /\ dryRuns' = dryRuns \cup {PlanNow}
  /\ UNCHANGED <<source, target, ledgers, mig, touched, undone, faultVars>>

(* apply_migration and recover_interrupted, up to the first file that is      *)
(* removed.  With a receipt apply only reads.                                 *)
ApplyMigration(plan) ==
  LET own == ledgers[plan.source] IN
  /\ mig = NoMigration /\ plan \in dryRuns /\ ~Collides(plan) /\ own.receipt = "none"
  /\ own.planFile # "torn" /\ (own.planFile = "whole" => own.plan = plan) /\ own.operation # "torn"
  /\ mig' = [kind |-> "apply", at |-> "recover", plan |-> plan, created |-> <<>>,
             left |-> IF own.operation = "whole" THEN ToCreate(plan) ELSE <<>>]
  /\ UNCHANGED <<source, target, dryRuns, ledgers, touched, undone, faultVars>>

(* A fault: a file is removed whatever has become of it. *)
FaultyRemovable(t) == target[t] # Absent

Removable(t) == target[t] = Artifact(Owner, t)

(* rollback_created, one file: gone already, removed, or it stops there. *)
RemoveCreated ==
  LET t == mig.left[Len(mig.left)]
      rest == SubSeq(mig.left, 1, Len(mig.left) - 1)
  IN
  /\ mig.at \in {"recover", "undo", "remove"} /\ mig.left # <<>>
  /\ IF target[t] = Absent \/ Removable(t)
     THEN target' = [target EXCEPT ![t] = Absent] /\ mig' = [mig EXCEPT !.left = rest]
     ELSE mig' = NoMigration /\ UNCHANGED target
  /\ UNCHANGED <<source, dryRuns, ledgers, touched, undone, faultVars>>

(* The staging tree goes; the plan has to be what a dry run makes now. *)
Recovered ==
  /\ mig.at = "recover" /\ mig.left = <<>>
  /\ Record([Own EXCEPT !.staging = FALSE]) /\ Goes("compare")
  /\ UNCHANGED <<source, target, dryRuns, touched, undone, faultVars>>

CompareSource ==
  /\ mig.at = "compare"
  /\ IF Buildable(source) /\ PlanNow = mig.plan THEN Goes("plan") ELSE mig' = NoMigration
  /\ UNCHANGED <<source, target, dryRuns, ledgers, touched, undone, faultVars>>

(* ensure_durable_ownership *)
WriteMigrationPlan ==
  /\ mig.at = "plan" /\ Goes("operation")
  /\ Record([Own EXCEPT !.plan = mig.plan, !.planFile = "whole"])
  /\ UNCHANGED <<source, target, dryRuns, touched, undone, faultVars>>

(* A fault: the operation is not made durable. *)
FaultyWriteOperation ==
  /\ mig.at = "operation" /\ Goes("stage")
  /\ UNCHANGED <<source, target, dryRuns, ledgers, touched, undone, faultVars>>

WriteOperation ==
  /\ mig.at = "operation" /\ Record([Own EXCEPT !.operation = "whole"]) /\ Goes("stage")
  /\ UNCHANGED <<source, target, dryRuns, touched, undone, faultVars>>

Stage ==
  /\ mig.at = "stage" /\ Record([Own EXCEPT !.staging = TRUE])
  /\ mig' = [mig EXCEPT !.at = "publish", !.left = ToCreate(mig.plan)]
  /\ UNCHANGED <<source, target, dryRuns, touched, undone, faultVars>>

(* The failure of a publication removes what this call has created. *)
Undo == mig' = [mig EXCEPT !.at = "undo", !.left = mig.created]

Publish ==
  LET t == Head(mig.left) IN
  /\ mig.at = "publish" /\ mig.left # <<>>
  /\ IF target[t] = Absent
     THEN /\ target' = [target EXCEPT ![t] = Artifact(Owner, t)]
          /\ mig' = [mig EXCEPT !.left = Tail(@), !.created = Append(@, t)]
     ELSE Undo /\ UNCHANGED target
  /\ UNCHANGED <<source, dryRuns, ledgers, touched, undone, faultVars>>

(* verify_targets *)
Verified(plan) == \A t \in TargetsOf(plan.source) : target[t] = Artifact(plan.source, t)

VerifyTargets ==
  /\ mig.at = "publish" /\ mig.left = <<>>
  /\ IF Verified(mig.plan) THEN Goes("receipt") /\ touched' = touched \ ({Owner} \X TargetFiles)
     ELSE Undo /\ UNCHANGED touched
  /\ UNCHANGED <<source, target, dryRuns, ledgers, undone, faultVars>>

WriteMigrationReceipt ==
  /\ mig.at = "receipt" /\ Record([Own EXCEPT !.receipt = "whole"]) /\ Goes("done")
  /\ UNCHANGED <<source, target, dryRuns, touched, undone, faultVars>>

(* Done, or undone: the staging tree is removed. *)
ApplyDone ==
  /\ mig.at = "done" \/ (mig.at = "undo" /\ mig.left = <<>>)
  /\ Record([Own EXCEPT !.staging = FALSE]) /\ mig' = NoMigration
  /\ UNCHANGED <<source, target, dryRuns, touched, undone, faultVars>>

(* validate_receipt_chain *)
Receipted(s) == ledgers[s].receipt = "whole" /\ ledgers[s].operation = "whole"

(* rollback_migration: the receipt, its chain, and every target as it was. *)
RollbackMigration(s) ==
  LET own == ledgers[s] IN
  /\ mig = NoMigration /\ Receipted(s) /\ own.rollback = "none" /\ Verified(own.plan)
  /\ mig' = [kind |-> "rollback", at |-> "remove", plan |-> own.plan, created |-> <<>>,
             left |-> ToCreate(own.plan)]
  /\ undone' = undone \cup {s}
  /\ UNCHANGED <<source, target, dryRuns, ledgers, touched, faultVars>>

WriteRollback ==
  /\ mig.at = "remove" /\ mig.left = <<>>
  /\ Record([Own EXCEPT !.rollback = "whole"]) /\ mig' = NoMigration
  /\ UNCHANGED <<source, target, dryRuns, touched, undone, faultVars>>
-----------------------------------------------------------------------------
(* The process dies, or a file operation fails before it did anything; a      *)
(* failure while targets are created, or after, undoes them.                  *)
MigrationStops ==
  /\ mig # NoMigration /\ Trouble
  /\ \/ mig' = NoMigration /\ UNCHANGED ledgers
     \/ mig.at \in {"publish", "receipt"} /\ Undo /\ UNCHANGED ledgers
     \/ mig.at = "stage" /\ Record([Own EXCEPT !.staging = TRUE]) /\ mig' = NoMigration
  /\ UNCHANGED <<source, target, dryRuns, touched, undone>>

(* write_target_file_new stops with part of the file written, or all of it    *)
(* when the sync fails; a whole file is as if written, except where it is not *)
(* among those that are undone and where it is the receipt of what is undone. *)
WriteStops ==
  /\ Trouble
  /\ \/ /\ mig.at = "publish" /\ mig.left # <<>> /\ target[Head(mig.left)] = Absent
        /\ \E file \in {Torn, Artifact(Owner, Head(mig.left))} :
             target' = [target EXCEPT ![Head(mig.left)] = file]
        /\ mig' = NoMigration \/ Undo
        /\ UNCHANGED <<ledgers, undone>>
     \/ /\ mig.at = "receipt" /\ Record([Own EXCEPT !.receipt = "torn"])
        /\ mig' = NoMigration \/ Undo
        /\ UNCHANGED <<target, undone>>
     \/ /\ mig.at = "receipt" /\ Record([Own EXCEPT !.receipt = "whole"])
        /\ Undo /\ undone' = undone \cup {Owner}
        /\ UNCHANGED target
     \/ /\ mig.at = "plan" /\ Own.planFile = "none" /\ Record([Own EXCEPT !.planFile = "torn"])
        /\ mig' = NoMigration /\ UNCHANGED <<target, undone>>
     \/ /\ mig.at = "operation" /\ Own.operation = "none"
        /\ Record([Own EXCEPT !.operation = "torn"])
        /\ mig' = NoMigration /\ UNCHANGED <<target, undone>>
     \/ /\ mig.at = "remove" /\ mig.left = <<>> /\ Record([Own EXCEPT !.rollback = "torn"])
        /\ mig' = NoMigration /\ UNCHANGED <<target, undone>>
  /\ UNCHANGED <<source, dryRuns, touched>>

(* The runtime or a person writes or removes a target; the older program goes *)
(* on with its data.                                                          *)
Others(t) ==
  /\ Trouble /\ touched' = touched \cup (Sources \X {t})
  /\ \E content \in {Absent, Foreign, Artifact(source, t)} \ {target[t]} :
       target' = [target EXCEPT ![t] = content]
  /\ UNCHANGED <<source, dryRuns, ledgers, mig, undone>>

SourceChanges(s) ==
  /\ Trouble /\ s # source /\ source' = s
  /\ UNCHANGED <<target, dryRuns, ledgers, mig, touched, undone>>

MigrationNext ==
  \/ DryRun \/ RemoveCreated \/ Recovered \/ CompareSource \/ WriteMigrationPlan \/ WriteOperation
  \/ Stage \/ Publish \/ VerifyTargets \/ WriteMigrationReceipt \/ ApplyDone \/ WriteRollback
  \/ \E plan \in dryRuns : ApplyMigration(plan)
  \/ \E s \in Sources : RollbackMigration(s) \/ SourceChanges(s)
  \/ \E t \in TargetFiles : Others(t)
  \/ MigrationStops \/ WriteStops
-----------------------------------------------------------------------------
(* A migration creates a file only where none is, and removes only a file     *)
(* that holds its own bytes and that its plan, made durable, found absent.    *)
TouchesOnlyItsOwn ==
  \A t \in TargetFiles : target'[t] # target[t] /\ trouble' = trouble =>
    /\ Own.planFile = "whole" /\ Own.operation = "whole"
    /\ Own.plan.disposition[t] = "absent"
    /\ {target[t], target'[t]} = {Absent, Artifact(Owner, t)}

(* Two migrations may want to create the same file with the same bytes. *)
Shared(s, t) ==
  \E r \in Sources \ {s} :
    /\ ledgers[r].operation = "whole" /\ ledgers[r].plan.disposition[t] = "absent"
    /\ Artifact(r, t) = Artifact(s, t)

(* A receipt says where the files are until its migration begins to remove    *)
(* them, by a rollback or because the receipt could not be synced: each holds *)
(* what was planned, unless others have changed it or another migration has   *)
(* removed or created the same bytes as its own.  A rollback leaves nothing   *)
(* behind that the migration created.                                         *)
ReceiptsTell ==
  \A s \in Sources, t \in TargetFiles :
    LET kept == target[t] = Artifact(s, t)
        own == ledgers[s].plan.disposition[t] = "absent"
    IN t \in TargetsOf(s) /\ <<s, t>> \notin touched /\ ~Shared(s, t) =>
         /\ Receipted(s) /\ s \notin undone => kept
         /\ ledgers[s].rollback = "whole" => (kept <=> ~own)

(* No secret, and no outcome the source does not state, is ever published. *)
NothingInvented ==
  \A s \in Sources : target["sessions"] = Artifact(s, "sessions") =>
    \A turn \in target["sessions"][3] :
      /\ "secret" \notin {turn.user, turn.answer, turn.tool.arguments, turn.tool.output}
      /\ turn.tool.result = "succeeded" => s.turn.outcome = "completed"
      /\ turn.status # "running"

(* Over crashes, retries, rollbacks and files others have changed, what a     *)
(* migration does to the files and what it says of them is true.              *)
MigrationHonest == [][TouchesOnlyItsOwn]_migVars /\ [](ReceiptsTell /\ NothingInvented)
=============================================================================
