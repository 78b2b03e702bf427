-------------------------------- MODULE VaultGc --------------------------------
(* Garbage collection of a vault: vault/src/gc.rs.                            *)
(*                                                                            *)
(* A report lists the files of a few namespaces with their classes.  Applied, *)
(* it moves the rebuildable and the old ones to a trash of its own, behind a  *)
(* manifest; within a grace period the move can be undone, after it the trash *)
(* is purged.  Files are moved one at a time, so that every command may end   *)
(* half way; it is given again later.  The writer lease of the vault lets one *)
(* command run at a time, and what is written under the same lease, an index  *)
(* by a rebuild, a transient file by some other command, is written between   *)
(* two of them.                                                               *)
(*                                                                            *)
(* Abstractions.  A hash is the content.  Entries are moved in any order, a   *)
(* superset of the order of the plan.  Raw evidence is only ever reported,    *)
(* never moved, and is left out.                                              *)
EXTENDS Faults

CONSTANTS Paths,        \* files under .minimax that a report lists
          Rebuildable,  \* those under .minimax/indexes
          Contents,     \* what a file may hold
          Retention,    \* age at which another file may be collected
          Grace,        \* time after which a trash may be purged
          MaxGcs        \* bound: plans made

ASSUME GcAssumption ==
  /\ Rebuildable \subseteq Paths /\ Contents # {}
  /\ Retention \in Nat /\ Grace \in Nat /\ MaxGcs \in Nat

VARIABLES original,  \* the files where the programs look for them
          bins,      \* the trash of each plan
          manifests, \* its manifest
          gcPlans,   \* the plans, in files of the user
          pins,      \* pins.json
          gcReceipts,\* when each receipt was recorded
          gc         \* the command under way

gcVars == <<original, bins, manifests, gcPlans, pins, gcReceipts, gc>>

GcIds == 1..MaxGcs
NoFile == [content |-> "none", modified |-> 0]
GcFiles == {NoFile} \cup [content : Contents, modified : 0..MaxTime]
Classes == {"referenced", "rebuildable", "collectable"}
GcCandidates == [content : Contents \cup {"none"}, class : Classes,
                 eligible : 0..(MaxTime + Retention)]
NoCandidate == [content |-> "none", class |-> "referenced", eligible |-> 0]
NoGcPlan == [made |-> FALSE, at |-> 0, candidates |-> [p \in Paths |-> NoCandidate]]
NoTrash == [state |-> "none", entries |-> {}, applied |-> 0]
NoCommand == [kind |-> "none", id |-> 0, at |-> "none", left |-> {}]
Never == MaxTime + 1

GcTypeOK ==
  /\ original \in [Paths -> GcFiles] /\ bins \in [GcIds -> [Paths -> GcFiles]]
  /\ manifests \in [GcIds -> [state : {"none", "prepared", "applied", "undone", "gone"},
                              entries : SUBSET Paths, applied : 0..MaxTime]]
  /\ gcPlans \in [GcIds -> [made : BOOLEAN, at : 0..MaxTime, candidates : [Paths -> GcCandidates]]]
  /\ gcReceipts \in [GcIds -> [{"applied", "undone", "purged"} -> 0..Never]]
  /\ pins \subseteq Paths
  /\ gc \in [kind : {"none", "apply", "undo", "purge"}, id : 0..MaxGcs,
             at : {"none", "move", "receipt"}, left : SUBSET Paths]
  /\ gc.kind = "none" => gc = NoCommand

GcInit ==
  /\ original \in [Paths -> {NoFile} \cup [content : Contents, modified : {0}]]
  /\ bins = [g \in GcIds |-> [p \in Paths |-> NoFile]]
  /\ manifests = [g \in GcIds |-> NoTrash] /\ gcPlans = [g \in GcIds |-> NoGcPlan]
  /\ pins = {} /\ gc = NoCommand
  /\ gcReceipts = [g \in GcIds |-> [a \in {"applied", "undone", "purged"} |-> Never]]
-----------------------------------------------------------------------------
Exists(file) == file # NoFile
Same(file, other) == file.content = other.content

Class(p) == IF p \in pins THEN "referenced"
            ELSE IF p \in Rebuildable THEN "rebuildable" ELSE "collectable"

(* gc_report: the time of the report is part of the plan and of its name. *)
Candidates ==
  [p \in Paths |->
     IF Exists(original[p])
     THEN [content |-> original[p].content, class |-> Class(p),
           eligible |-> IF p \in Rebuildable THEN 0 ELSE original[p].modified + Retention]
     ELSE NoCandidate]

Report(g) ==
  LET plan == [made |-> TRUE, at |-> now, candidates |-> Candidates] IN
  /\ gc.kind = "none" /\ ~gcPlans[g].made /\ (g > 1 => gcPlans[g - 1].made)
  /\ \A h \in GcIds : gcPlans[h] # plan
  /\ gcPlans' = [gcPlans EXCEPT ![g] = plan]
  /\ UNCHANGED <<original, bins, manifests, pins, gcReceipts, gc, faultVars>>

Runs(kind, g, at, left) == gc' = [kind |-> kind, id |-> g, at |-> at, left |-> left]

(* apply_gc_plan: entries are what the plan lists as rebuildable, or as       *)
(* collectable and old enough now; a manifest that is there is resumed.       *)
Collected(g) ==
  {p \in Paths : LET c == gcPlans[g].candidates[p] IN
     /\ c # NoCandidate
     /\ c.class = "rebuildable" \/ (c.class = "collectable" /\ c.eligible <= now)}

ApplyStart(g) ==
  /\ gc.kind = "none" /\ gcPlans[g].made
  /\ \/ /\ manifests[g].state = "prepared" /\ Runs("apply", g, "move", manifests[g].entries)
        /\ UNCHANGED manifests
     \/ /\ manifests[g].state \in {"none", "gone"}
        /\ gcPlans[g].candidates = Candidates
        /\ manifests' = [manifests EXCEPT ![g] = [state |-> "prepared", entries |-> Collected(g), applied |-> now]]
        /\ Runs("apply", g, "move", Collected(g))
  /\ UNCHANGED <<original, bins, gcPlans, pins, gcReceipts, faultVars>>

(* finish_apply, one entry: it is moved, or has been, or the command ends. *)
ApplyMove(p) ==
  LET g == gc.id
      planned == gcPlans[g].candidates[p]
      there == Exists(original[p]) /\ ~Exists(bins[g][p]) /\ Same(original[p], planned)
      moved == ~Exists(original[p]) /\ Exists(bins[g][p]) /\ Same(bins[g][p], planned)
  IN
  /\ gc.kind = "apply" /\ gc.at = "move" /\ p \in gc.left
  /\ IF there THEN /\ bins' = [bins EXCEPT ![g][p] = original[p]]
                   /\ original' = [original EXCEPT ![p] = NoFile]
     ELSE UNCHANGED <<bins, original>>
  /\ gc' = IF there \/ moved THEN [gc EXCEPT !.left = @ \ {p}] ELSE NoCommand
  /\ UNCHANGED <<manifests, gcPlans, pins, gcReceipts, faultVars>>

(* The state of the manifest, then the receipt, at the end of a move. *)
MoveEnds(kind, state) ==
  /\ gc.kind = kind /\ gc.at = "move" /\ gc.left = {}
  /\ manifests' = [manifests EXCEPT ![gc.id].state = state]
  /\ gc' = [gc EXCEPT !.at = "receipt"]
  /\ UNCHANGED <<original, bins, gcPlans, pins, gcReceipts, faultVars>>

WriteGcReceipt(kind, action, time) ==
  /\ gc.kind = kind /\ gc.at = "receipt" /\ gc' = NoCommand
  /\ gcReceipts' = [gcReceipts EXCEPT ![gc.id][action] = IF @ = Never THEN time ELSE @]
  /\ UNCHANGED <<original, bins, manifests, gcPlans, pins, faultVars>>

ApplyEnds == MoveEnds("apply", "applied")
ApplyReceipt == WriteGcReceipt("apply", "applied", manifests[gc.id].applied)

(* A fault: an undo does not look at what is in the place of a file. *)
FaultyRestorable(g, p) == Exists(bins[g][p])

Restorable(g, p) ==
  ~Exists(original[p]) /\ Exists(bins[g][p]) /\ Same(bins[g][p], gcPlans[g].candidates[p])

(* undo_gc_plan: only a whole trash is undone. *)
UndoStart(g) ==
  /\ gc.kind = "none" /\ manifests[g].state = "applied" /\ now <= manifests[g].applied + Grace
  /\ \A p \in manifests[g].entries : Restorable(g, p)
  /\ Runs("undo", g, "move", manifests[g].entries)
  /\ UNCHANGED <<original, bins, manifests, gcPlans, pins, gcReceipts, faultVars>>

UndoMove(p) ==
  /\ gc.kind = "undo" /\ gc.at = "move" /\ p \in gc.left
  /\ original' = [original EXCEPT ![p] = bins[gc.id][p]]
  /\ bins' = [bins EXCEPT ![gc.id][p] = NoFile]
  /\ gc' = [gc EXCEPT !.left = @ \ {p}]
  /\ UNCHANGED <<manifests, gcPlans, pins, gcReceipts, faultVars>>

UndoEnds == MoveEnds("undo", "undone")
UndoReceipt == WriteGcReceipt("undo", "undone", now)

(* purge_gc_plan: the receipt is first, and holds the time of this command; a *)
(* receipt of another time is in its way for ever.                            *)
PurgeStart(g) ==
  /\ gc.kind = "none" /\ manifests[g].state = "applied" /\ now > manifests[g].applied + Grace
  /\ \A p \in manifests[g].entries : Exists(bins[g][p]) /\ Same(bins[g][p], gcPlans[g].candidates[p])
  /\ gcReceipts[g]["purged"] \in {Never, now}
  /\ gcReceipts' = [gcReceipts EXCEPT ![g]["purged"] = now]
  /\ Runs("purge", g, "move", manifests[g].entries)
  /\ UNCHANGED <<original, bins, manifests, gcPlans, pins, faultVars>>

(* remove_dir_all takes the files and the manifest in the order it finds them. *)
PurgeFile(p) ==
  /\ gc.kind = "purge" /\ p \in gc.left
  /\ bins' = [bins EXCEPT ![gc.id][p] = NoFile]
  /\ gc' = [gc EXCEPT !.left = @ \ {p}]
  /\ UNCHANGED <<original, manifests, gcPlans, pins, gcReceipts, faultVars>>

PurgeManifest ==
  /\ gc.kind = "purge" /\ manifests[gc.id].state # "gone"
  /\ manifests' = [manifests EXCEPT ![gc.id].state = "gone"]
  /\ UNCHANGED <<original, bins, gcPlans, pins, gcReceipts, gc, faultVars>>

PurgeEnds ==
  /\ gc.kind = "purge" /\ gc.left = {} /\ manifests[gc.id].state = "gone" /\ gc' = NoCommand
  /\ UNCHANGED <<original, bins, manifests, gcPlans, pins, gcReceipts, faultVars>>
-----------------------------------------------------------------------------
(* The process dies, or a file operation fails. *)
GcStops ==
  /\ gc.kind # "none" /\ Trouble /\ gc' = NoCommand
  /\ UNCHANGED <<original, bins, manifests, gcPlans, pins, gcReceipts>>

(* Another command writes a file, or a person pins one. *)
Written(p, content) ==
  /\ gc.kind = "none" /\ Trouble
  /\ original' = [original EXCEPT ![p] = [content |-> content, modified |-> now]]
  /\ UNCHANGED <<bins, manifests, gcPlans, pins, gcReceipts, gc>>

Pin(p) ==
  /\ p \notin pins /\ Trouble /\ pins' = pins \cup {p}
  /\ UNCHANGED <<original, bins, manifests, gcPlans, gcReceipts, gc>>

GcNext ==
  \/ \E g \in GcIds : Report(g) \/ ApplyStart(g) \/ UndoStart(g) \/ PurgeStart(g)
  \/ \E p \in Paths : ApplyMove(p) \/ UndoMove(p) \/ PurgeFile(p) \/ Pin(p)
  \/ ApplyEnds \/ ApplyReceipt \/ UndoEnds \/ UndoReceipt \/ PurgeManifest \/ PurgeEnds
  \/ \E p \in Paths, c \in Contents : Written(p, c)
  \/ GcStops
  \/ Tick /\ UNCHANGED gcVars
-----------------------------------------------------------------------------
(* A file leaves its place only for a trash and comes back only into an empty *)
(* place, unless others write it.                                             *)
FilesOnlyMove ==
  \A p \in Paths : original'[p] # original[p] /\ trouble' = trouble =>
    \E g \in GcIds : \/ original'[p] = NoFile /\ bins'[g][p] = original[p]
                     \/ original[p] = NoFile /\ bins[g][p] = original'[p]

(* A trash is emptied only into those places or by a purge that is due. *)
TrashIsKept ==
  \A g \in GcIds, p \in Paths : bins'[g][p] # bins[g][p] /\ bins[g][p] # NoFile =>
    \/ original'[p] = bins[g][p]
    \/ gcReceipts[g]["purged"] > manifests[g].applied + Grace /\ gcReceipts[g]["purged"] # Never

(* Applied and undone say where all of the entries are. *)
ManifestsTell ==
  \A g \in GcIds : manifests'[g].state # manifests[g].state =>
    \A p \in manifests[g].entries :
      /\ manifests'[g].state = "applied" => bins[g][p].content = gcPlans[g].candidates[p].content
      /\ manifests'[g].state = "undone" => original[p].content = gcPlans[g].candidates[p].content

(* Over crashes, repeated commands and files written again in the meantime, a *)
(* collection loses nothing.                                                  *)
GcLosesNothing == [][FilesOnlyMove /\ TrashIsKept /\ ManifestsTell]_gcVars
=============================================================================
