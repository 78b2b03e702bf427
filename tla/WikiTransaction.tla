--------------------------- MODULE WikiTransaction ---------------------------
(* Wiki transactions of a vault: vault/src/transaction.rs with the atomic     *)
(* file operations of path.rs, and the recovery of vault/src/lint.rs.         *)
(*                                                                            *)
(* A transaction stages the new bytes of every target, writes a manifest, and *)
(* replaces the targets one by one, each replacement atomic.  Whoever runs it *)
(* holds the vault's writer lease; a human with an editor does not, and edits *)
(* at any time.  The process dies or a file operation fails between any two   *)
(* steps, and a later operation rolls the same transaction forward.           *)
(*                                                                            *)
(* Abstractions.  Bytes are who wrote them: a page is the transaction that    *)
(* rendered it followed by the edits a human made since, the log its lines in *)
(* order, the index the pages it lists.  Equal hashes are equal bytes.  Human *)
(* edits leave a page that still parses.  Reading all targets is one step.    *)
EXTENDS Integers, Sequences, FiniteSets

CONSTANTS Pages,       \* the paths of pages
          Jobs,        \* knowledge jobs, one per finalized session
          Bindings,    \* model bindings a job may be generated with
          MaxPlans,    \* bound: plans made to forget evidence
          MaxTrouble   \* bound: edits, crashes, failed file operations and plans

ASSUME TransactionAssumption ==
  /\ Pages # {} /\ IsFiniteSet(Pages) /\ Jobs # {} /\ Bindings # {}
  /\ MaxPlans \in Nat /\ MaxTrouble \in Nat

VARIABLES files,    \* the contents of pages, index and log
          txns,     \* the directory of each transaction, and its receipt
          lease,    \* who holds writer.lock
          roll,     \* the transaction the holder is running
          trouble   \* what may still come in between, for the bound

txnVars == <<files, txns, lease, roll, trouble>>

Human == <<"human", "edit">>
Forgetting == {"forget"} \X (1..MaxPlans)
Txns == (Jobs \X Bindings) \cup Forgetting
Index == "wiki/index.md"
Log == "log.md"
Files == Pages \cup {Index, Log}
Holders == {"free", "driver", "maintenance"}

(* The index and the log are not pages, and the identifiers of jobs, of plans *)
(* and of people are told apart.                                              *)
ASSUME NamesAssumption ==
  /\ Index \notin Pages /\ Log \notin Pages
  /\ "forget" \notin Jobs /\ "human" \notin Jobs
-----------------------------------------------------------------------------
IsContent(f, c) == IF f = Index THEN c \subseteq Pages \cup {Human} ELSE c \in Seq(Txns \cup {Human})
IsTarget(x) == x.file \in Files /\ IsContent(x.file, x.old) /\ IsContent(x.file, x.new)

IsTransaction(x) ==
  /\ x.state \in {"none", "staged", "prepared", "applying", "committed"}
  /\ \A i \in DOMAIN x.targets : IsTarget(x.targets[i])
  /\ x.receipt \in BOOLEAN

Roll == [txn : Txns \cup {Human}, at : {"none", "manifest", "validate", "apply", "receipt", "done", "failed"},
         next : Nat, dirty : SUBSET Files, code : {"ok", "conflict", "invalid", "unavailable"}]
NoRoll == [txn |-> Human, at |-> "none", next |-> 1, dirty |-> {}, code |-> "ok"]
NoTransaction == [state |-> "none", targets |-> <<>>, receipt |-> FALSE]

(* The variables have their types, and only the holder of the lease is in the *)
(* middle of a transaction.                                                   *)
TransactionTypeOK ==
  /\ DOMAIN files = Files /\ \A f \in Files : IsContent(f, files[f])
  /\ DOMAIN txns = Txns /\ \A t \in Txns : IsTransaction(txns[t])
  /\ lease \in Holders /\ roll \in Roll /\ (lease = "free" => roll = NoRoll)
  /\ trouble \in 0..MaxTrouble

TransactionInit ==
  /\ files = [f \in Files |-> IF f = Index THEN {} ELSE <<>>]
  /\ txns = [t \in Txns |-> NoTransaction]
  /\ lease = "free" /\ roll = NoRoll
  /\ trouble = MaxTrouble
-----------------------------------------------------------------------------
Trouble == trouble > 0 /\ trouble' = trouble - 1

(* Steps of the holder of the lease. *)

Rolling(t, at, code) == [NoRoll EXCEPT !.txn = t, !.at = at, !.code = code]
Target(f, old, new) == [file |-> f, old |-> old, new |-> new]
Targets == txns[roll.txn].targets

Existing(f) == files[f] # <<>>

Stale(targets) == \E i \in DOMAIN targets : files[targets[i].file] # targets[i].old

(* The changes that change something, in their order. *)
Effective(changes) ==
  LET kept[i \in 0..Len(changes)] ==
        IF i = 0 THEN <<>>
        ELSE IF changes[i].old # changes[i].new THEN Append(kept[i - 1], changes[i])
        ELSE kept[i - 1]
  IN kept[Len(changes)]

(* recover_wiki_transaction and the first half of prepare: a transaction that *)
(* exists is loaded, one that does not is checked against the files and       *)
(* staged.  A directory without a manifest cannot be loaded.                  *)
Begin(who, t, wanted) ==
  LET effective == Effective(wanted) IN
  /\ lease = "free" /\ lease' = who
  /\ \/ /\ txns[t].state = "staged" \/ (txns[t].state = "none" /\ ~Stale(wanted) /\ effective = <<>>)
        /\ roll' = Rolling(t, "failed", "invalid") /\ UNCHANGED txns
     \/ /\ txns[t].state = "none" /\ Stale(wanted)
        /\ roll' = Rolling(t, "failed", "conflict") /\ UNCHANGED txns
     \/ /\ txns[t].state \notin {"none", "staged"}
        /\ roll' = Rolling(t, "validate", "ok") /\ UNCHANGED txns
     \/ /\ txns[t].state = "none" /\ ~Stale(wanted) /\ effective # <<>>
        /\ roll' = Rolling(t, "manifest", "ok")
        /\ txns' = [txns EXCEPT ![t] = [state |-> "staged", targets |-> effective, receipt |-> FALSE]]
  /\ UNCHANGED <<files, trouble>>

(* prepare ends: the manifest makes the transaction one that can be resumed. *)
WriteManifest ==
  /\ roll.at = "manifest"
  /\ txns' = [txns EXCEPT ![roll.txn].state = "prepared"]
  /\ roll' = [roll EXCEPT !.at = "validate"]
  /\ UNCHANGED <<files, lease, trouble>>

(* A fault: the files are not looked at before a transaction is resumed. *)
FaultyUnexpected(x) == FALSE

Unexpected(x) == files[x.file] # x.old /\ files[x.file] # x.new

(* validate_prepared: every target has its old or its new bytes.  Edits made  *)
(* after this step are not seen.                                              *)
Validate ==
  /\ roll.at = "validate"
  /\ IF \E i \in DOMAIN Targets : Unexpected(Targets[i])
     THEN /\ roll' = [roll EXCEPT !.at = "failed", !.code = "conflict"]
          /\ UNCHANGED txns
     ELSE /\ roll' = [roll EXCEPT !.at = "apply"]
          /\ txns' = IF txns[roll.txn].state = "committed" THEN txns
                     ELSE [txns EXCEPT ![roll.txn].state = "applying"]
  /\ UNCHANGED <<files, lease, trouble>>

(* One target after the other, in the order of the manifest. *)
Replace ==
  /\ roll.at = "apply" /\ roll.next <= Len(Targets)
  /\ files' = [files EXCEPT ![Targets[roll.next].file] = Targets[roll.next].new]
  /\ roll' = [roll EXCEPT !.next = @ + 1]
  /\ UNCHANGED <<txns, lease, trouble>>

Commit ==
  /\ roll.at = "apply" /\ roll.next > Len(Targets)
  /\ txns' = [txns EXCEPT ![roll.txn].state = "committed"]
  /\ roll' = [roll EXCEPT !.at = "receipt"]
  /\ UNCHANGED <<files, lease, trouble>>

WriteReceipt ==
  /\ roll.at = "receipt"
  /\ txns' = [txns EXCEPT ![roll.txn].receipt = TRUE]
  /\ roll' = [roll EXCEPT !.at = "done"]
  /\ UNCHANGED <<files, lease, trouble>>

(* A file operation fails; the caller learns it and the process lives on. *)
RollFails ==
  /\ roll.at \in {"manifest", "validate", "apply", "receipt"}
  /\ Trouble
  /\ roll' = [roll EXCEPT !.at = "failed", !.code = "unavailable"]
  /\ UNCHANGED <<files, txns, lease>>

RollForward == WriteManifest \/ Validate \/ Replace \/ Commit \/ WriteReceipt \/ RollFails

(* A fault: the lease is dropped and the transaction held in memory goes on. *)
FaultyRelease == lease' = "free" /\ UNCHANGED roll

(* The holder drops its lease, with or without an answer. *)
Release == lease' = "free" /\ roll' = NoRoll
-----------------------------------------------------------------------------
(* Somebody edits a file of the vault, under nobody's lock. *)
HumanEdit(f) ==
  /\ Trouble
  /\ files' = [files EXCEPT ![f] = IF f = Index THEN @ \cup {Human} ELSE Append(@, Human)]
  /\ roll' = IF roll.at \in {"apply", "receipt"} THEN [roll EXCEPT !.dirty = @ \cup {f}] ELSE roll
  /\ UNCHANGED <<txns, lease>>

(* repair_vault: a transaction with a manifest and without an end is rolled   *)
(* forward.  The code takes them in the order of their names and stops at the *)
(* first error; here each is a repair of its own.                             *)
Unfinished(t) ==
  /\ txns[t].state \in {"prepared", "applying", "committed"}
  /\ txns[t].state # "committed" \/ ~txns[t].receipt
RepairTransaction(t) == Unfinished(t) /\ Begin("maintenance", t, <<>>)
-----------------------------------------------------------------------------
(* Over crashes, failures and recoveries a transaction is whole when it is    *)
(* called committed: every target has its new bytes, or a human has changed   *)
(* it during this very pass; and no line of the log is written twice.         *)
(* Whatever a transaction replaces is what it was prepared against, or an     *)
(* edit made after it had checked: no edit made before a crash, or between    *)
(* the preparation and a much later recovery, is lost.                        *)
Occurrences(t) == Cardinality({i \in DOMAIN files[Log] : files[Log][i] = t})
Whole ==
  /\ roll.at = "receipt" =>
       \A i \in DOMAIN Targets :
         files[Targets[i].file] = Targets[i].new \/ Targets[i].file \in roll.dirty
  /\ \A t \in Txns : Occurrences(t) <= 1
KeepsEdits ==
  [][\A f \in Files :
       files'[f] # files[f] /\ trouble' = trouble =>
         \/ f \in roll.dirty
         \/ \E i \in DOMAIN Targets : Targets[i].file = f /\ Targets[i].old = files[f]]_txnVars
CommitsWhole == []Whole /\ KeepsEdits
=============================================================================
