---------------------------- MODULE EvidenceIntake ----------------------------
(* How evidence comes into a vault: sessions are finalized by vault/src/raw.rs *)
(* and files of the inbox are imported by vault/src/inbox.rs.                 *)
(*                                                                            *)
(* Both write files that are never changed again, one after the other: create *)
(* the file, or find it with the very same bytes.  A finalization copies the  *)
(* records of the session, writes metadata with the time of this call, and    *)
(* leaves a marker behind which the runtime appends nothing more.  An import  *)
(* copies a file under the name of its hash; once its pages are committed the *)
(* file in the inbox is removed, unless somebody has changed it.              *)
(*                                                                            *)
(* Abstractions.  One session and one file of the inbox.  The journal is the  *)
(* number of its records, and the session is terminal after every second one: *)
(* a turn begins, a turn ends.  Refusals that change nothing are left out.    *)
EXTENDS Faults

CONSTANTS Texts,       \* contents an import keeps as text
          Binaries,    \* contents an import keeps as an asset
          MaxRecords   \* bound: records of the session
ASSUME IntakeAssumption ==
  /\ Texts \cap Binaries = {} /\ "none" \notin Texts \cup Binaries
  /\ MaxRecords \in Nat

VARIABLES records,   \* complete records of the session in the journal
          fragment,  \* the journal ends in a fragment
          events,    \* events.jsonl: how many records, or none
          metadata,  \* session.json
          marker,    \* the finalization marker of the runtime
          sealing,   \* the finalization under way
          inbox,     \* the file a person has put into the inbox
          imports,   \* imported contents
          importReceipts, \* the receipt of each import
          committed, \* the pages compiled from the import are committed
          intake     \* the import, or its completion, under way

sealVars == <<records, fragment, events, metadata, marker, sealing>>
inboxVars == <<inbox, imports, importReceipts, committed, intake>>
intakeVars == <<sealVars, inboxVars>>

Bodies == Texts \cup Binaries
NoBody == "none"
NoEvents == 0
NoMetadata == [records |-> 0, at |-> 0]
NotSealing == [step |-> "none", records |-> 0, at |-> 0]
NotImported == [status |-> "none", at |-> 0]
NotTaking == [step |-> "none", body |-> NoBody, dirty |-> FALSE]

IntakeTypeOK ==
  /\ records \in 0..MaxRecords /\ fragment \in BOOLEAN /\ events \in 0..MaxRecords
  /\ {metadata, marker} \subseteq [records : 0..MaxRecords, at : 0..MaxTime]
  /\ sealing \in [step : {"none", "events", "metadata", "marker"}, records : 0..MaxRecords, at : 0..MaxTime]
  /\ inbox \in Bodies \cup {NoBody} /\ imports \subseteq Bodies /\ committed \in BOOLEAN
  /\ importReceipts \in [Bodies -> [status : {"none", "retained", "evidence_only", "removed"}, at : 0..MaxTime]]
  /\ intake \in [step : {"none", "copy", "check", "receipt", "remove", "record"},
                 body : Bodies \cup {NoBody}, dirty : BOOLEAN]

IntakeInit ==
  /\ records = 0 /\ fragment = FALSE /\ events = NoEvents
  /\ metadata = NoMetadata /\ marker = NoMetadata /\ sealing = NotSealing
  /\ inbox = NoBody /\ imports = {} /\ committed = FALSE /\ intake = NotTaking
  /\ importReceipts = [b \in Bodies |-> NotImported]
-----------------------------------------------------------------------------
(* A fault: files are replaced where they should only be created. *)
FaultyCreatable(file, none, bytes) == TRUE

(* atomic_create_or_same: a file that is there has to hold the same bytes. *)
Creatable(file, none, bytes) == file \in {none, bytes}

(* The session goes on as long as no marker stops it. *)
AppendRecord ==
  /\ marker = NoMetadata /\ sealing = NotSealing /\ ~fragment /\ records < MaxRecords
  /\ records' = records + 1
  /\ UNCHANGED <<fragment, events, metadata, marker, sealing, inboxVars, faultVars>>

TornAppend ==
  /\ marker = NoMetadata /\ sealing = NotSealing /\ ~fragment /\ Trouble
  /\ fragment' = TRUE
  /\ UNCHANGED <<records, events, metadata, marker, sealing, inboxVars>>

(* The fragment is quarantined when the journal is opened, or finalized by a  *)
(* command of its own.                                                        *)
RepairFinalFragment ==
  /\ fragment /\ fragment' = FALSE
  /\ UNCHANGED <<records, events, metadata, marker, sealing, inboxVars, faultVars>>

Terminal == records > 0 /\ records % 2 = 0

(* finalize_runtime_bytes: what is written is chosen from the journal first. *)
SealStart ==
  /\ sealing = NotSealing /\ ~fragment /\ Terminal
  /\ sealing' = [step |-> "events", records |-> records, at |-> now]
  /\ UNCHANGED <<records, fragment, events, metadata, marker, inboxVars, faultVars>>

SealEvents ==
  /\ sealing.step = "events"
  /\ IF Creatable(events, NoEvents, sealing.records)
     THEN events' = sealing.records /\ sealing' = [sealing EXCEPT !.step = "metadata"]
     ELSE sealing' = NotSealing /\ UNCHANGED events
  /\ UNCHANGED <<records, fragment, metadata, marker, inboxVars, faultVars>>

Metadata == [records |-> sealing.records, at |-> sealing.at]

SealMetadata ==
  /\ sealing.step = "metadata"
  /\ IF Creatable(metadata, NoMetadata, Metadata)
     THEN metadata' = Metadata /\ sealing' = [sealing EXCEPT !.step = "marker"]
     ELSE sealing' = NotSealing /\ UNCHANGED metadata
  /\ UNCHANGED <<records, fragment, events, marker, inboxVars, faultVars>>

SealMarker ==
  /\ sealing.step = "marker" /\ sealing' = NotSealing
  /\ marker' = IF Creatable(marker, NoMetadata, Metadata) THEN Metadata ELSE marker
  /\ UNCHANGED <<records, fragment, events, metadata, inboxVars, faultVars>>

(* The process dies, or a file operation fails. *)
SealStops ==
  /\ sealing # NotSealing /\ Trouble /\ sealing' = NotSealing
  /\ UNCHANGED <<records, fragment, events, metadata, marker, inboxVars>>
-----------------------------------------------------------------------------
Taking(step) == intake' = [intake EXCEPT !.step = step]

(* import_inbox_file: read, copy, look at the source again, write a receipt. *)
ImportStart ==
  /\ intake = NotTaking /\ inbox # NoBody
  /\ intake' = [step |-> "copy", body |-> inbox, dirty |-> FALSE]
  /\ UNCHANGED <<sealVars, inbox, imports, importReceipts, committed, faultVars>>

ImportCopy ==
  /\ intake.step = "copy" /\ imports' = imports \cup {intake.body} /\ Taking("check")
  /\ UNCHANGED <<sealVars, inbox, importReceipts, committed, faultVars>>

ImportCheck ==
  /\ intake.step = "check"
  /\ IF inbox = intake.body THEN Taking("receipt") ELSE intake' = NotTaking
  /\ UNCHANGED <<sealVars, inbox, imports, importReceipts, committed, faultVars>>

ImportReceipt ==
  LET b == intake.body
      receipt == [status |-> IF b \in Texts THEN "retained" ELSE "evidence_only", at |-> now]
  IN
  /\ intake.step = "receipt" /\ intake' = NotTaking
  /\ importReceipts' = IF Creatable(importReceipts[b], NotImported, receipt)
                       THEN [importReceipts EXCEPT ![b] = receipt] ELSE importReceipts
  /\ UNCHANGED <<sealVars, inbox, imports, committed, faultVars>>

(* A wiki transaction with pages made of the import. *)
PagesCommitted ==
  /\ ~committed /\ committed' = TRUE
  /\ UNCHANGED <<sealVars, inbox, imports, importReceipts, intake, faultVars>>

(* complete_inbox_import: the source goes when it still is what was imported. *)
(* If it cannot be removed the import stays retained: that is IntakeStops.    *)
CompleteStart(b) ==
  /\ intake = NotTaking /\ committed /\ importReceipts[b].status = "retained"
  /\ inbox \in {b, NoBody}
  /\ intake' = [step |-> IF inbox = b THEN "remove" ELSE "record", body |-> b, dirty |-> FALSE]
  /\ UNCHANGED <<sealVars, inbox, imports, importReceipts, committed, faultVars>>

CompleteRemove ==
  /\ intake.step = "remove" /\ inbox' = NoBody /\ Taking("record")
  /\ UNCHANGED <<sealVars, imports, importReceipts, committed, faultVars>>

CompleteRecord ==
  /\ intake.step = "record" /\ intake' = NotTaking
  /\ importReceipts' = [importReceipts EXCEPT ![intake.body].status = "removed"]
  /\ UNCHANGED <<sealVars, inbox, imports, committed, faultVars>>

IntakeStops ==
  /\ intake # NotTaking /\ Trouble /\ intake' = NotTaking
  /\ UNCHANGED <<sealVars, inbox, imports, importReceipts, committed>>

(* A person puts a file into the inbox, changes it or takes it out. *)
PersonWrites(b) ==
  /\ b # inbox /\ Trouble /\ inbox' = b
  /\ intake' = IF intake.step = "remove" THEN [intake EXCEPT !.dirty = TRUE] ELSE intake
  /\ UNCHANGED <<sealVars, imports, importReceipts, committed>>

IntakeNext ==
  \/ AppendRecord \/ TornAppend \/ RepairFinalFragment
  \/ SealStart \/ SealEvents \/ SealMetadata \/ SealMarker \/ SealStops
  \/ ImportStart \/ ImportCopy \/ ImportCheck \/ ImportReceipt
  \/ PagesCommitted \/ CompleteRemove \/ CompleteRecord \/ IntakeStops
  \/ \E b \in Bodies : CompleteStart(b)
  \/ \E b \in Bodies \cup {NoBody} : PersonWrites(b)
  \/ Tick /\ UNCHANGED intakeVars
-----------------------------------------------------------------------------
(* Sealed evidence never changes; a marker stands for metadata and events of  *)
(* the whole session, and nothing is appended behind it.                      *)
SealsHold ==
  /\ events # NoEvents => events' = events
  /\ metadata # NoMetadata => metadata' = metadata /\ events = metadata.records
  /\ marker # NoMetadata => marker' = marker /\ records' = records
  /\ marker' # NoMetadata => metadata = marker' /\ events = records

(* The source of an import is removed only when its bytes are kept and their  *)
(* pages committed, or was changed after it had been checked.                 *)
SourcesKept ==
  /\ imports \subseteq imports'
  /\ inbox' # inbox /\ trouble' = trouble =>
       /\ intake.body \in imports \cap Texts /\ committed
       /\ inbox = intake.body \/ intake.dirty
  /\ \A b \in Bodies : importReceipts[b].status # "none" => b \in imports

(* Over crashes, retries with another time and sessions that go on after an   *)
(* interrupted finalization, evidence is sealed and its sources are kept.     *)
EvidenceSealed == [][SealsHold /\ SourcesKept]_intakeVars
=============================================================================
