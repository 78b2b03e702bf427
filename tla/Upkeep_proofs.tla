---------------------------- MODULE Upkeep_proofs ----------------------------
(***************************************************************************)
(* Proofs about the commands that keep the files of a vault, for all sets  *)
(* of files, contents and turns, and for all bounds.                       *)
(***************************************************************************)
EXTENDS MCUpkeep, SequenceTheorems, TLAPS

(* Garbage collection: what the command under way has moved is where it moves *)
(* it to, and what it has yet to bring back can be brought back.              *)
Moved ==
    /\ gc.kind # "none" => gc.id \in GcIds
    /\ gc.kind = "apply" /\ gc.at = "move" =>
         \A p \in manifests[gc.id].entries \ gc.left :
             bins[gc.id][p].content = gcPlans[gc.id].candidates[p].content
    /\ gc.kind = "undo" /\ gc.at = "move" =>
         /\ \A p \in gc.left : Restorable(gc.id, p)
         /\ \A p \in manifests[gc.id].entries \ gc.left :
              original[p].content = gcPlans[gc.id].candidates[p].content
    /\ gc.kind = "purge" =>
         /\ gcReceipts[gc.id]["purged"] > manifests[gc.id].applied + Grace
         /\ gcReceipts[gc.id]["purged"] # Never
GcInv == FaultsTypeOK /\ GcTypeOK /\ Moved

-----------------------------------------------------------------------------
(* Time passes and things go wrong within their bounds. *)
LEMMA FaultsTyped ==
    ASSUME FaultsTypeOK, Trouble \/ Tick \/ UNCHANGED faultVars
    PROVE  FaultsTypeOK'
BY FaultsAssumption DEF FaultsTypeOK, Trouble, Tick, faultVars

(* The types a collection works with. *)
LEMMA GcTypes ==
    ASSUME FaultsTypeOK, GcTypeOK
    PROVE  /\ original \in [Paths -> GcFiles] /\ bins \in [GcIds -> [Paths -> GcFiles]]
           /\ NoFile \in GcFiles /\ now \in 0..MaxTime /\ now \in 0..Never
           /\ \A g \in GcIds : bins[g] \in [Paths -> GcFiles]
           /\ \A g \in GcIds : gcReceipts[g] \in [{"applied", "undone", "purged"} -> 0..Never]
BY FaultsAssumption DEF FaultsTypeOK, GcTypeOK, GcFiles, Never

(* A plan is made of files that are there. *)
LEMMA CandidatesTyped ==
    ASSUME FaultsTypeOK, GcTypeOK
    PROVE  Candidates \in [Paths -> GcCandidates]
<1>1. ASSUME NEW p \in Paths
      PROVE  (IF Exists(original[p])
              THEN [content |-> original[p].content, class |-> Class(p),
                    eligible |-> IF p \in Rebuildable THEN 0 ELSE original[p].modified + Retention]
              ELSE NoCandidate) \in GcCandidates
  <2>1. NoCandidate \in GcCandidates
    BY GcAssumption, FaultsAssumption DEF NoCandidate, GcCandidates, Classes
  <2>2. CASE Exists(original[p])
    <3>1. original[p] \in [content : Contents, modified : 0..MaxTime]
      BY <2>2 DEF GcTypeOK, GcFiles, Exists
    <3>2. Class(p) \in Classes
      BY DEF Class, Classes
    <3>3. /\ original[p].modified + Retention \in 0..(MaxTime + Retention)
          /\ 0 \in 0..(MaxTime + Retention)
      BY <3>1, GcAssumption, FaultsAssumption
    <3> QED BY <2>2, <3>1, <3>2, <3>3 DEF GcCandidates
  <2> QED BY <2>1, <2>2
<1> QED BY <1>1 DEF Candidates

LEMMA GcFilesTyped ==
    ASSUME GcInv, GcNext
    PROVE  original' \in [Paths -> GcFiles] /\ bins' \in [GcIds -> [Paths -> GcFiles]]
<1>1. /\ original \in [Paths -> GcFiles] /\ bins \in [GcIds -> [Paths -> GcFiles]]
      /\ NoFile \in GcFiles /\ now \in 0..MaxTime
      /\ \A g \in GcIds : bins[g] \in [Paths -> GcFiles]
  BY GcTypes DEF GcInv
<1>2. CASE UNCHANGED <<original, bins>>
  BY <1>1, <1>2
<1>3. ASSUME NEW p \in Paths, ApplyMove(p) \/ UndoMove(p) \/ PurgeFile(p)
      PROVE  original' \in [Paths -> GcFiles] /\ bins' \in [GcIds -> [Paths -> GcFiles]]
  <2>1. gc.id \in GcIds
    BY <1>3 DEF ApplyMove, UndoMove, PurgeFile, GcInv, Moved
  <2>2. \A e \in GcFiles : [bins EXCEPT ![gc.id][p] = e] \in [GcIds -> [Paths -> GcFiles]]
    BY <1>1, <2>1
  <2>3. \A e \in GcFiles : [original EXCEPT ![p] = e] \in [Paths -> GcFiles]
    BY <1>1
  <2>4. original[p] \in GcFiles /\ bins[gc.id][p] \in GcFiles
    BY <1>1, <2>1
  <2> QED BY <1>1, <1>3, <2>2, <2>3, <2>4 DEF ApplyMove, UndoMove, PurgeFile
<1>4. ASSUME NEW p \in Paths, NEW c \in Contents, Written(p, c)
      PROVE  original' \in [Paths -> GcFiles] /\ bins' \in [GcIds -> [Paths -> GcFiles]]
  <2>1. [content |-> c, modified |-> now] \in GcFiles
    BY <1>1 DEF GcFiles
  <2> QED BY <1>1, <1>4, <2>1 DEF Written
<1>5. ASSUME NEW g \in GcIds, Report(g) \/ ApplyStart(g) \/ UndoStart(g) \/ PurgeStart(g)
      PROVE  UNCHANGED <<original, bins>>
  BY <1>5 DEF Report, ApplyStart, UndoStart, PurgeStart
<1>6. CASE ApplyEnds \/ ApplyReceipt \/ UndoEnds \/ UndoReceipt \/ PurgeManifest \/ PurgeEnds
  BY <1>1, <1>6 DEF ApplyEnds, ApplyReceipt, UndoEnds, UndoReceipt, PurgeManifest, PurgeEnds,
              MoveEnds, WriteGcReceipt
<1>7. CASE GcStops \/ (Tick /\ UNCHANGED gcVars) \/ \E p \in Paths : Pin(p)
  BY <1>1, <1>7 DEF GcStops, gcVars, Pin
<1> QED BY <1>2, <1>3, <1>4, <1>5, <1>6, <1>7 DEF GcNext

(* The records a collection keeps have their types. *)
Manifest == [state : {"none", "prepared", "applied", "undone", "gone"},
             entries : SUBSET Paths, applied : 0..MaxTime]
GcPlan == [made : BOOLEAN, at : 0..MaxTime, candidates : [Paths -> GcCandidates]]
Command == [kind : {"none", "apply", "undo", "purge"}, id : 0..MaxGcs,
            at : {"none", "move", "receipt"}, left : SUBSET Paths]

LEMMA GcRecordsTyped ==
    ASSUME GcInv, GcNext
    PROVE  /\ manifests' \in [GcIds -> Manifest] /\ gcPlans' \in [GcIds -> GcPlan]
           /\ gcReceipts' \in [GcIds -> [{"applied", "undone", "purged"} -> 0..Never]]
           /\ pins' \subseteq Paths
<1>1. /\ manifests \in [GcIds -> Manifest] /\ gcPlans \in [GcIds -> GcPlan]
      /\ gcReceipts \in [GcIds -> [{"applied", "undone", "purged"} -> 0..Never]]
      /\ pins \subseteq Paths /\ now \in 0..MaxTime /\ now \in 0..Never
      /\ \A g \in GcIds : gcReceipts[g] \in [{"applied", "undone", "purged"} -> 0..Never]
  BY GcTypes DEF GcInv, GcTypeOK, Manifest, GcPlan
<1>2. ASSUME NEW g \in GcIds
      PROVE  /\ \A v \in {"applied", "undone", "gone"} : [manifests[g] EXCEPT !.state = v] \in Manifest
             /\ manifests[g].applied \in 0..Never
  <2>1. manifests[g] \in Manifest
    BY <1>1
  <2> QED BY <2>1, FaultsAssumption DEF Manifest, Never
<1>3. ASSUME NEW g \in GcIds, Report(g)
      PROVE  gcPlans' \in [GcIds -> GcPlan] /\ UNCHANGED <<manifests, gcReceipts, pins>>
  <2>1. [made |-> TRUE, at |-> now, candidates |-> Candidates] \in GcPlan
    BY <1>1, CandidatesTyped DEF GcInv, GcPlan
  <2> QED BY <1>1, <1>3, <2>1 DEF Report
<1>4. ASSUME NEW g \in GcIds, ApplyStart(g)
      PROVE  manifests' \in [GcIds -> Manifest] /\ UNCHANGED <<gcPlans, gcReceipts, pins>>
  <2>1. [state |-> "prepared", entries |-> Collected(g), applied |-> now] \in Manifest
    BY <1>1 DEF Manifest, Collected
  <2> QED BY <1>1, <1>4, <2>1 DEF ApplyStart
<1>5. ASSUME NEW g \in GcIds, PurgeStart(g)
      PROVE  /\ gcReceipts' \in [GcIds -> [{"applied", "undone", "purged"} -> 0..Never]]
             /\ UNCHANGED <<manifests, gcPlans, pins>>
  <2>1. [gcReceipts[g] EXCEPT !["purged"] = now] \in [{"applied", "undone", "purged"} -> 0..Never]
    BY <1>1
  <2> QED BY <1>1, <1>5, <2>1 DEF PurgeStart
<1>6. CASE ApplyEnds \/ UndoEnds \/ PurgeManifest
  <2>1. gc.id \in GcIds
    BY <1>6 DEF ApplyEnds, UndoEnds, PurgeManifest, MoveEnds, GcInv, Moved
  <2>2. PICK v \in {"applied", "undone", "gone"} : manifests' = [manifests EXCEPT ![gc.id].state = v]
    BY <1>6 DEF ApplyEnds, UndoEnds, PurgeManifest, MoveEnds
  <2>3. UNCHANGED <<gcPlans, gcReceipts, pins>>
    BY <1>6 DEF ApplyEnds, UndoEnds, PurgeManifest, MoveEnds
  <2> DEFINE new == [manifests[gc.id] EXCEPT !.state = v]
  <2>4. new \in Manifest /\ manifests' = [manifests EXCEPT ![gc.id] = new]
    BY <1>2, <2>1, <2>2
  <2> HIDE DEF new
  <2> QED BY <1>1, <2>1, <2>3, <2>4
<1>7. CASE ApplyReceipt \/ UndoReceipt
  <2>1. gc.id \in GcIds
    BY <1>7 DEF ApplyReceipt, UndoReceipt, WriteGcReceipt, GcInv, Moved
  <2>2. PICK a \in {"applied", "undone"}, time \in 0..Never :
          gcReceipts' = [gcReceipts EXCEPT ![gc.id][a] = IF @ = Never THEN time ELSE @]
    BY <1>1, <1>2, <1>7, <2>1 DEF ApplyReceipt, UndoReceipt, WriteGcReceipt
  <2> DEFINE value == IF gcReceipts[gc.id][a] = Never THEN time ELSE gcReceipts[gc.id][a]
  <2>3. value \in 0..Never /\ gcReceipts' = [gcReceipts EXCEPT ![gc.id][a] = value]
    BY <1>1, <2>1, <2>2
  <2> HIDE DEF value
  <2>4. UNCHANGED <<manifests, gcPlans, pins>>
    BY <1>7 DEF ApplyReceipt, UndoReceipt, WriteGcReceipt
  <2> QED BY <1>1, <2>1, <2>3, <2>4
<1>8. ASSUME NEW p \in Paths, ApplyMove(p) \/ UndoMove(p) \/ PurgeFile(p) \/ Pin(p)
      PROVE  UNCHANGED <<manifests, gcPlans, gcReceipts>> /\ pins' \subseteq Paths
  BY <1>1, <1>8 DEF ApplyMove, UndoMove, PurgeFile, Pin
<1>9. ASSUME NEW g \in GcIds, UndoStart(g)
      PROVE  UNCHANGED <<manifests, gcPlans, gcReceipts, pins>>
  BY <1>9 DEF UndoStart
<1>10. CASE PurgeEnds \/ GcStops \/ (Tick /\ UNCHANGED gcVars) \/ \E p \in Paths, c \in Contents : Written(p, c)
  BY <1>1, <1>10 DEF PurgeEnds, GcStops, gcVars, Written
<1> QED BY <1>1, <1>3, <1>4, <1>5, <1>6, <1>7, <1>8, <1>9, <1>10 DEF GcNext

LEMMA GcCommandTyped ==
    ASSUME GcInv, GcNext
    PROVE  /\ gc' \in Command /\ (gc'.kind = "none" => gc' = NoCommand)
           /\ gc'.kind # "none" => gc'.id \in GcIds
<1> DEFINE Good == /\ gc' \in Command /\ (gc'.kind = "none" => gc' = NoCommand)
                   /\ gc'.kind # "none" => gc'.id \in GcIds
<1> SUFFICES Good
  OBVIOUS
<1>1. /\ gc \in Command /\ (gc.kind = "none" => gc = NoCommand)
      /\ gc.kind # "none" => gc.id \in GcIds
  BY DEF GcInv, GcTypeOK, Command, Moved
<1>2. NoCommand \in Command /\ NoCommand.kind = "none"
  BY GcAssumption DEF NoCommand, Command
<1>3. /\ \A l \in SUBSET Paths : /\ [gc EXCEPT !.left = l] \in Command
                               /\ [gc EXCEPT !.left = l].kind = gc.kind
                               /\ [gc EXCEPT !.left = l].id = gc.id
      /\ [gc EXCEPT !.at = "receipt"] \in Command
      /\ [gc EXCEPT !.at = "receipt"].kind = gc.kind /\ [gc EXCEPT !.at = "receipt"].id = gc.id
  BY <1>1 DEF Command
<1>4. ASSUME NEW g \in GcIds, NEW k \in {"apply", "undo", "purge"}, NEW l \in SUBSET Paths,
             Runs(k, g, "move", l)
      PROVE  gc' \in Command /\ gc'.kind # "none" /\ gc'.id \in GcIds
  <2>1. g \in 0..MaxGcs
    BY GcAssumption DEF GcIds
  <2> QED BY <1>4, <2>1 DEF Runs, Command
<1>5. \A g \in GcIds : manifests[g].entries \in SUBSET Paths /\ Collected(g) \in SUBSET Paths
  BY DEF GcInv, GcTypeOK, Collected
<1>6. ASSUME NEW g \in GcIds, ApplyStart(g) \/ UndoStart(g) \/ PurgeStart(g)
      PROVE  gc' \in Command /\ gc'.kind # "none" /\ gc'.id \in GcIds
  BY <1>4, <1>5, <1>6 DEF ApplyStart, UndoStart, PurgeStart
<1>7. ASSUME NEW p \in Paths, ApplyMove(p) \/ UndoMove(p) \/ PurgeFile(p)
      PROVE  Good
  <2>1. gc.left \ {p} \in SUBSET Paths
    BY <1>1 DEF Command
  <2>2. gc' = NoCommand \/ gc' = [gc EXCEPT !.left = gc.left \ {p}]
    BY <1>7 DEF ApplyMove, UndoMove, PurgeFile
  <2>3. gc.kind # "none"
    BY <1>7 DEF ApplyMove, UndoMove, PurgeFile
  <2> QED BY <1>1, <1>2, <1>3, <2>1, <2>2, <2>3
<1>8. CASE ApplyEnds \/ UndoEnds
  BY <1>1, <1>3, <1>8 DEF ApplyEnds, UndoEnds, MoveEnds
<1>9. CASE ApplyReceipt \/ UndoReceipt \/ PurgeEnds \/ GcStops
  BY <1>2, <1>9 DEF ApplyReceipt, UndoReceipt, WriteGcReceipt, PurgeEnds, GcStops
<1>10. CASE PurgeManifest \/ (Tick /\ UNCHANGED gcVars)
  BY <1>1, <1>10 DEF PurgeManifest, gcVars
<1>11. ASSUME NEW p \in Paths, Pin(p) \/ \E c \in Contents : Written(p, c)
       PROVE  Good
  BY <1>1, <1>11 DEF Pin, Written
<1>12. ASSUME NEW g \in GcIds, Report(g) PROVE Good
  BY <1>1, <1>12 DEF Report
<1> HIDE DEF Good
<1>13. ASSUME NEW g \in GcIds, ApplyStart(g) \/ UndoStart(g) \/ PurgeStart(g)
       PROVE  Good
  BY <1>6, <1>13 DEF Good
<1> QED BY <1>7, <1>8, <1>9, <1>10, <1>11, <1>12, <1>13 DEF GcNext

LEMMA GcTyped ==
    ASSUME GcInv, GcNext
    PROVE  FaultsTypeOK' /\ GcTypeOK'
<1>1. Trouble \/ Tick \/ UNCHANGED faultVars
  BY DEF GcNext, Report, ApplyStart, UndoStart, PurgeStart, ApplyMove, UndoMove, PurgeFile, Pin,
         ApplyEnds, ApplyReceipt, UndoEnds, UndoReceipt, PurgeManifest, PurgeEnds, MoveEnds,
         WriteGcReceipt, Written, GcStops
<1>2. FaultsTypeOK'
  BY <1>1, FaultsTyped DEF GcInv
<1> QED BY <1>2, GcFilesTyped, GcRecordsTyped, GcCommandTyped DEF GcTypeOK, Manifest, GcPlan, Command

(* Nothing is under way after a step, or something that Moved holds of.       *)
LEMMA MovedKept ==
    ASSUME GcInv, GcNext
    PROVE  Moved'
<1>1. /\ original \in [Paths -> GcFiles] /\ bins \in [GcIds -> [Paths -> GcFiles]]
      /\ manifests \in [GcIds -> Manifest] /\ gc \in Command /\ Moved
      /\ now \in 0..MaxTime /\ MaxTime \in Nat
  BY GcTypes, FaultsAssumption DEF GcInv, GcTypeOK, Manifest, Command
<1>2. gc'.kind # "none" => gc'.id \in GcIds
  BY GcCommandTyped
<1>3. CASE gc'.kind = "none"
  BY <1>3 DEF Moved
<1>4. CASE UNCHANGED <<original, bins, manifests, gcPlans, gcReceipts, gc>>
  BY <1>1, <1>4 DEF Moved, Restorable
<1>5. ASSUME NEW g \in GcIds, ApplyStart(g) PROVE Moved'
  <2>1. \E l : Runs("apply", g, "move", l) /\ manifests'[g].entries = l
    <3>1. CASE Runs("apply", g, "move", manifests[g].entries) /\ UNCHANGED manifests
      BY <3>1
    <3>2. CASE /\ manifests' = [manifests EXCEPT ![g] = [state |-> "prepared", entries |-> Collected(g),
                                                        applied |-> now]]
               /\ Runs("apply", g, "move", Collected(g))
      <4>1. manifests'[g].entries = Collected(g)
        BY <1>1, <3>2
      <4> QED BY <3>2, <4>1
    <3> QED BY <1>5, <3>1, <3>2 DEF ApplyStart
  <2>2. gc'.kind = "apply" /\ gc'.id = g /\ manifests'[g].entries = gc'.left
    BY <2>1 DEF Runs
  <2> QED BY <1>2, <2>2 DEF Moved
<1>6. ASSUME NEW g \in GcIds, UndoStart(g) PROVE Moved'
  <2>1. /\ gc'.kind = "undo" /\ gc'.id = g /\ gc'.left = manifests[g].entries
        /\ UNCHANGED <<original, bins, manifests, gcPlans>>
        /\ \A p \in manifests[g].entries : Restorable(g, p)
    BY <1>6 DEF UndoStart, Runs
  <2> QED BY <1>2, <2>1 DEF Moved, Restorable
<1>7. ASSUME NEW g \in GcIds, PurgeStart(g) PROVE Moved'
  <2>1. /\ gc'.kind = "purge" /\ gc'.id = g /\ manifests' = manifests
        /\ gcReceipts' = [gcReceipts EXCEPT ![g]["purged"] = now]
        /\ now > manifests[g].applied + Grace
    BY <1>7 DEF PurgeStart, Runs
  <2>2. gcReceipts'[g]["purged"] = now
    BY <2>1, GcTypes DEF GcInv, GcTypeOK
  <2>3. now # Never
    BY <1>1 DEF Never
  <2> QED BY <1>2, <2>1, <2>2, <2>3 DEF Moved
<1>8. ASSUME NEW p \in Paths, ApplyMove(p), gc'.kind # "none" PROVE Moved'
  <2> DEFINE g == gc.id
  <2>1. /\ gc.kind = "apply" /\ gc.at = "move" /\ g \in GcIds
        /\ UNCHANGED <<manifests, gcPlans>>
    BY <1>8 DEF ApplyMove, GcInv, Moved
  <2>2. /\ gc' = [gc EXCEPT !.left = @ \ {p}]
        /\ \/ /\ Same(original[p], gcPlans[g].candidates[p])
              /\ bins' = [bins EXCEPT ![g][p] = original[p]]
           \/ Same(bins[g][p], gcPlans[g].candidates[p]) /\ bins' = bins
    BY <1>8 DEF ApplyMove, NoCommand
  <2>3. /\ gc'.kind = "apply" /\ gc'.at = "move" /\ gc'.id = g /\ gc'.left = gc.left \ {p}
    BY <1>1, <2>1, <2>2 DEF Command
  <2>4. bins'[g][p].content = gcPlans[g].candidates[p].content
    BY <1>1, <2>1, <2>2 DEF Same
  <2>5. \A q \in Paths \ {p} : bins'[g][q] = bins[g][q]
    BY <1>1, <2>1, <2>2
  <2>6. manifests[g].entries \subseteq Paths
    BY <1>1, <2>1 DEF Manifest
  <2>7. \A q \in manifests[g].entries \ gc.left : bins[g][q].content = gcPlans[g].candidates[q].content
    BY <1>1, <2>1 DEF Moved
  <2> HIDE DEF g
  <2>8. \A q \in manifests[g].entries \ gc'.left : bins'[g][q].content = gcPlans[g].candidates[q].content
    BY <2>3, <2>4, <2>5, <2>6, <2>7
  <2> QED BY <1>2, <2>1, <2>3, <2>8 DEF Moved
<1>9. ASSUME NEW p \in Paths, UndoMove(p) PROVE Moved'
  <2> DEFINE g == gc.id
  <2>1. /\ gc.kind = "undo" /\ gc.at = "move" /\ g \in GcIds /\ p \in gc.left
        /\ UNCHANGED <<manifests, gcPlans>> /\ gc' = [gc EXCEPT !.left = @ \ {p}]
        /\ original' = [original EXCEPT ![p] = bins[g][p]]
        /\ bins' = [bins EXCEPT ![g][p] = NoFile]
    BY <1>9 DEF UndoMove, GcInv, Moved
  <2>2. /\ gc'.kind = "undo" /\ gc'.at = "move" /\ gc'.id = g /\ gc'.left = gc.left \ {p}
    BY <1>1, <2>1 DEF Command
  <2>3. \A q \in Paths \ {p} : bins'[g][q] = bins[g][q] /\ original'[q] = original[q]
    BY <1>1, <2>1
  <2>4. /\ \A q \in gc.left : Restorable(g, q)
        /\ \A q \in manifests[g].entries \ gc.left : original[q].content = gcPlans[g].candidates[q].content
    BY <1>1, <2>1 DEF Moved
  <2>5. original'[p].content = gcPlans[g].candidates[p].content
    BY <1>1, <2>1, <2>4 DEF Restorable, Same
  <2>6. manifests[g].entries \subseteq Paths /\ gc.left \subseteq Paths
    BY <1>1, <2>1 DEF Manifest, Command
  <2>7. \A q \in gc'.left : Restorable(g, q)'
    BY <2>1, <2>2, <2>3, <2>4, <2>6 DEF Restorable
  <2>8. \A q \in manifests[g].entries \ gc'.left : original'[q].content = gcPlans[g].candidates[q].content
    BY <2>2, <2>3, <2>4, <2>5, <2>6
  <2> QED BY <1>2, <2>1, <2>2, <2>7, <2>8 DEF Moved
<1>10. ASSUME NEW p \in Paths, PurgeFile(p) PROVE Moved'
  <2>1. /\ gc.kind = "purge" /\ gc' = [gc EXCEPT !.left = @ \ {p}] /\ UNCHANGED <<manifests, gcReceipts>>
    BY <1>10 DEF PurgeFile
  <2>2. gc'.kind = "purge" /\ gc'.id = gc.id
    BY <1>1, <2>1 DEF Command
  <2> QED BY <1>1, <1>2, <2>1, <2>2 DEF Moved
<1>11. CASE PurgeManifest
  <2>1. /\ gc.kind = "purge" /\ gc.id \in GcIds /\ UNCHANGED <<gc, gcReceipts>>
        /\ manifests' = [manifests EXCEPT ![gc.id].state = "gone"]
    BY <1>1, <1>11 DEF PurgeManifest, Moved
  <2>2. manifests'[gc.id].applied = manifests[gc.id].applied
    BY <1>1, <2>1 DEF Manifest
  <2> QED BY <1>1, <2>1, <2>2 DEF Moved
<1>12. CASE ApplyEnds \/ UndoEnds
  <2>1. gc'.at = "receipt" /\ gc'.kind \in {"apply", "undo"}
    BY <1>1, <1>12 DEF ApplyEnds, UndoEnds, MoveEnds, Command
  <2> QED BY <1>2, <2>1 DEF Moved
<1>13. CASE ApplyReceipt \/ UndoReceipt \/ PurgeEnds \/ GcStops
  BY <1>3, <1>13 DEF ApplyReceipt, UndoReceipt, WriteGcReceipt, PurgeEnds, GcStops, NoCommand
<1>14. ASSUME NEW p \in Paths, Pin(p) \/ \E c \in Contents : Written(p, c) PROVE Moved'
  BY <1>3, <1>4, <1>14 DEF Pin, Written
<1>15. ASSUME NEW g \in GcIds, Report(g) PROVE Moved'
  BY <1>3, <1>15 DEF Report
<1>16. CASE Tick /\ UNCHANGED gcVars
  BY <1>4, <1>16 DEF gcVars
<1> QED BY <1>3, <1>5, <1>6, <1>7, <1>8, <1>9, <1>10, <1>11, <1>12, <1>13, <1>14, <1>15, <1>16
           DEF GcNext

(* What the moves of files, and the other steps of a collection, do. *)
LEMMA MovesDo ==
    ASSUME GcInv, NEW p \in Paths, ApplyMove(p) \/ UndoMove(p) \/ PurgeFile(p)
    PROVE  FilesOnlyMove /\ TrashIsKept
<1> DEFINE g == gc.id
<1>1. /\ original \in [Paths -> GcFiles] /\ bins \in [GcIds -> [Paths -> GcFiles]] /\ g \in GcIds
  BY GcTypes DEF GcInv, GcTypeOK, Moved, ApplyMove, UndoMove, PurgeFile
<1>2. CASE UNCHANGED <<original, bins>>
  BY <1>2 DEF FilesOnlyMove, TrashIsKept
<1>3. CASE /\ original' = [original EXCEPT ![p] = NoFile] /\ bins[g][p] = NoFile
           /\ bins' = [bins EXCEPT ![g][p] = original[p]]
  <2>1. original'[p] = NoFile /\ bins'[g][p] = original[p]
    BY <1>1, <1>3
  <2>2. /\ \A q \in Paths : q # p => original'[q] = original[q]
        /\ \A h \in GcIds, q \in Paths : h # g \/ q # p => bins'[h][q] = bins[h][q]
    BY <1>1, <1>3
  <2> QED BY <1>1, <1>3, <2>1, <2>2 DEF FilesOnlyMove, TrashIsKept
<1>4. CASE /\ original' = [original EXCEPT ![p] = bins[g][p]] /\ original[p] = NoFile
           /\ bins' = [bins EXCEPT ![g][p] = NoFile]
  <2>1. original'[p] = bins[g][p]
    BY <1>1, <1>4
  <2>2. /\ \A q \in Paths : q # p => original'[q] = original[q]
        /\ \A h \in GcIds, q \in Paths : h # g \/ q # p => bins'[h][q] = bins[h][q]
    BY <1>1, <1>4
  <2> QED BY <1>1, <1>4, <2>1, <2>2 DEF FilesOnlyMove, TrashIsKept
<1>5. CASE /\ original' = original /\ bins' = [bins EXCEPT ![g][p] = NoFile]
           /\ gcReceipts[g]["purged"] > manifests[g].applied + Grace
           /\ gcReceipts[g]["purged"] # Never
  <2>1. \A h \in GcIds, q \in Paths : h # g \/ q # p => bins'[h][q] = bins[h][q]
    BY <1>1, <1>5
  <2> QED BY <1>1, <1>5, <2>1 DEF FilesOnlyMove, TrashIsKept
<1>6. CASE ApplyMove(p)
  BY <1>2, <1>3, <1>6 DEF ApplyMove, Exists
<1>7. CASE UndoMove(p)
  <2>1. Restorable(g, p)
    BY <1>7 DEF UndoMove, GcInv, Moved
  <2> QED BY <1>4, <1>7, <2>1 DEF UndoMove, Restorable, Exists
<1>8. CASE PurgeFile(p)
  BY <1>5, <1>8 DEF PurgeFile, GcInv, Moved
<1> QED BY <1>6, <1>7, <1>8

LEMMA GcStepDoes ==
    ASSUME GcInv, GcNext
    PROVE  FilesOnlyMove /\ TrashIsKept /\ ManifestsTell
<1>1. /\ original \in [Paths -> GcFiles] /\ manifests \in [GcIds -> Manifest]
      /\ trouble \in Nat
  BY FaultsAssumption DEF GcInv, GcTypeOK, Manifest, FaultsTypeOK
<1>2. CASE UNCHANGED <<original, bins, manifests>>
  BY <1>2 DEF FilesOnlyMove, TrashIsKept, ManifestsTell
<1>3. ASSUME NEW p \in Paths, ApplyMove(p) \/ UndoMove(p) \/ PurgeFile(p)
      PROVE  FilesOnlyMove /\ TrashIsKept /\ ManifestsTell
  <2>1. manifests' = manifests
    BY <1>3 DEF ApplyMove, UndoMove, PurgeFile
  <2> QED BY <1>3, <2>1, MovesDo DEF ManifestsTell
<1>4. ASSUME NEW p \in Paths, NEW c \in Contents, Written(p, c)
      PROVE  FilesOnlyMove /\ TrashIsKept /\ ManifestsTell
  <2>1. trouble' # trouble /\ UNCHANGED <<bins, manifests>>
    BY <1>1, <1>4 DEF Written, Trouble
  <2> QED BY <2>1 DEF FilesOnlyMove, TrashIsKept, ManifestsTell
<1>5. ASSUME NEW g \in GcIds, ApplyStart(g)
      PROVE  FilesOnlyMove /\ TrashIsKept /\ ManifestsTell
  <2>1. /\ UNCHANGED <<original, bins>>
        /\ \/ manifests' = manifests
           \/ \E e : manifests' = [manifests EXCEPT ![g] = [state |-> "prepared", entries |-> e, applied |-> now]]
    BY <1>5 DEF ApplyStart
  <2>2. \A h \in GcIds : manifests'[h] = manifests[h] \/ manifests'[h].state = "prepared"
    BY <1>1, <2>1
  <2> QED BY <2>1, <2>2 DEF FilesOnlyMove, TrashIsKept, ManifestsTell
<1>6. CASE ApplyEnds \/ UndoEnds \/ PurgeManifest
  <2> DEFINE g == gc.id
  <2>1. g \in GcIds /\ UNCHANGED <<original, bins>>
    BY <1>6 DEF ApplyEnds, UndoEnds, PurgeManifest, MoveEnds, GcInv, Moved
  <2> DEFINE Ended(v) == /\ manifests' = [manifests EXCEPT ![g].state = v]
                         /\ v = "applied" => gc.kind = "apply" /\ gc.at = "move" /\ gc.left = {}
                         /\ v = "undone" => gc.kind = "undo" /\ gc.at = "move" /\ gc.left = {}
  <2>2. PICK v : Ended(v)
    <3>1. ApplyEnds => Ended("applied")
      BY DEF ApplyEnds, MoveEnds
    <3>2. UndoEnds => Ended("undone")
      BY DEF UndoEnds, MoveEnds
    <3>3. PurgeManifest => Ended("gone")
      BY DEF PurgeManifest
    <3> HIDE DEF Ended
    <3> QED BY <1>6, <3>1, <3>2, <3>3
  <2>3. manifests'[g].state = v /\ \A h \in GcIds : h # g => manifests'[h] = manifests[h]
    BY <1>1, <2>1, <2>2 DEF Manifest
  <2>4. \A p \in manifests[g].entries :
          /\ v = "applied" => bins[g][p].content = gcPlans[g].candidates[p].content
          /\ v = "undone" => original[p].content = gcPlans[g].candidates[p].content
    BY <2>2 DEF GcInv, Moved
  <2> QED BY <2>1, <2>3, <2>4 DEF FilesOnlyMove, TrashIsKept, ManifestsTell
<1>7. ASSUME NEW g \in GcIds, Report(g) \/ UndoStart(g) \/ PurgeStart(g)
      PROVE  UNCHANGED <<original, bins, manifests>>
  BY <1>7 DEF Report, UndoStart, PurgeStart
<1>8. CASE \/ ApplyReceipt \/ UndoReceipt \/ PurgeEnds \/ GcStops
           \/ (Tick /\ UNCHANGED gcVars) \/ \E p \in Paths : Pin(p)
  <2>1. UNCHANGED <<original, bins, manifests>>
    BY <1>8 DEF ApplyReceipt, UndoReceipt, WriteGcReceipt, PurgeEnds, GcStops, gcVars, Pin
  <2> QED BY <1>2, <2>1
<1> QED BY <1>2, <1>3, <1>4, <1>5, <1>6, <1>7, <1>8 DEF GcNext

-----------------------------------------------------------------------------
(* The other parts are left alone, or change nothing but the faults. *)
LEMMA IntakeFaults ==
    ASSUME IntakeNext
    PROVE  Trouble \/ Tick \/ UNCHANGED faultVars
<1>1. CASE AppendRecord \/ RepairFinalFragment \/ SealStart \/ SealEvents \/ SealMetadata \/ SealMarker
  BY <1>1 DEF AppendRecord, RepairFinalFragment, SealStart, SealEvents, SealMetadata, SealMarker
<1>2. CASE \/ ImportStart \/ ImportCopy \/ ImportCheck \/ ImportReceipt \/ PagesCommitted
           \/ CompleteRemove \/ CompleteRecord \/ \E b \in Bodies : CompleteStart(b)
  BY <1>2 DEF ImportStart, ImportCopy, ImportCheck, ImportReceipt, PagesCommitted,
              CompleteRemove, CompleteRecord, CompleteStart
<1>3. CASE \/ TornAppend \/ SealStops \/ IntakeStops \/ (Tick /\ UNCHANGED intakeVars)
           \/ \E b \in Bodies \cup {NoBody} : PersonWrites(b)
  BY <1>3 DEF TornAppend, SealStops, IntakeStops, PersonWrites
<1> QED BY <1>1, <1>2, <1>3 DEF IntakeNext

LEMMA MigrationFaults ==
    ASSUME MigrationNext
    PROVE  Trouble \/ Tick \/ UNCHANGED faultVars
<1>1. CASE DryRun \/ RemoveCreated \/ Recovered \/ CompareSource \/ WriteMigrationPlan \/ WriteOperation
  BY <1>1 DEF DryRun, RemoveCreated, Recovered, CompareSource, WriteMigrationPlan, WriteOperation
<1>2. CASE Stage \/ Publish \/ VerifyTargets \/ WriteMigrationReceipt \/ ApplyDone \/ WriteRollback
  BY <1>2 DEF Stage, Publish, VerifyTargets, WriteMigrationReceipt, ApplyDone, WriteRollback
<1>3. CASE (\E plan \in dryRuns : ApplyMigration(plan)) \/ \E s \in Sources : RollbackMigration(s)
  BY <1>3 DEF ApplyMigration, RollbackMigration
<1>4. CASE \/ MigrationStops \/ WriteStops \/ (\E s \in Sources : SourceChanges(s))
           \/ \E t \in TargetFiles : Others(t)
  BY <1>4 DEF MigrationStops, WriteStops, SourceChanges, Others
<1> QED BY <1>1, <1>2, <1>3, <1>4 DEF MigrationNext

LEMMA FaultsKept ==
    ASSUME FaultsTypeOK, [UpkeepNext]_allVars
    PROVE  FaultsTypeOK'
<1>1. CASE GcNext
  <2>1. CASE \E g \in GcIds : Report(g) \/ ApplyStart(g) \/ UndoStart(g) \/ PurgeStart(g)
    BY <2>1, FaultsTyped DEF Report, ApplyStart, UndoStart, PurgeStart
  <2>2. CASE \E p \in Paths : ApplyMove(p) \/ UndoMove(p) \/ PurgeFile(p) \/ Pin(p)
    BY <2>2, FaultsTyped DEF ApplyMove, UndoMove, PurgeFile, Pin
  <2>3. CASE ApplyEnds \/ ApplyReceipt \/ UndoEnds \/ UndoReceipt \/ PurgeManifest \/ PurgeEnds
    BY <2>3, FaultsTyped DEF ApplyEnds, ApplyReceipt, UndoEnds, UndoReceipt, PurgeManifest, PurgeEnds,
                             MoveEnds, WriteGcReceipt
  <2>4. CASE GcStops \/ Tick \/ \E p \in Paths, c \in Contents : Written(p, c)
    BY <2>4, FaultsTyped DEF GcStops, Written
  <2> QED BY <1>1, <2>1, <2>2, <2>3, <2>4 DEF GcNext
<1>2. CASE IntakeNext \/ MigrationNext
  BY <1>2, IntakeFaults, MigrationFaults, FaultsTyped
<1>3. CASE UNCHANGED faultVars
  BY <1>3, FaultsTyped
<1> QED BY <1>1, <1>2, <1>3 DEF UpkeepNext, allVars

LEMMA GcHolds ==
    ASSUME GcInv, [UpkeepNext]_allVars
    PROVE  GcInv' /\ [FilesOnlyMove /\ TrashIsKept /\ ManifestsTell]_gcVars
<1>1. CASE GcNext
  BY <1>1, GcTyped, MovedKept, GcStepDoes DEF GcInv
<1>2. CASE UNCHANGED gcVars
  <2>1. UNCHANGED <<original, bins, manifests, gcPlans, pins, gcReceipts, gc>>
    BY <1>2 DEF gcVars
  <2>2. FaultsTypeOK'
    BY FaultsKept DEF GcInv
  <2>3. GcTypeOK'
    BY <2>1 DEF GcInv, GcTypeOK
  <2>4. Moved'
    BY <2>1 DEF GcInv, Moved, Restorable
  <2> QED BY <1>2, <2>2, <2>3, <2>4 DEF GcInv
<1> QED BY <1>1, <1>2 DEF UpkeepNext, allVars

LEMMA GcStarts == UpkeepInit => GcInv
<1> SUFFICES ASSUME UpkeepInit PROVE GcInv
  OBVIOUS
<1>1. FaultsTypeOK
  BY FaultsAssumption DEF UpkeepInit, FaultsInit, FaultsTypeOK
<1>2. original \in [Paths -> GcFiles] /\ bins \in [GcIds -> [Paths -> GcFiles]] /\ pins \subseteq Paths
  <2>1. {NoFile} \cup [content : Contents, modified : {0}] \subseteq GcFiles
    BY FaultsAssumption DEF GcFiles
  <2>2. original \in [Paths -> {NoFile} \cup [content : Contents, modified : {0}]]
    BY DEF UpkeepInit, GcInit
  <2>3. NoFile \in GcFiles
    BY DEF GcFiles
  <2> QED BY <2>1, <2>2, <2>3 DEF UpkeepInit, GcInit
<1>3. manifests \in [GcIds -> Manifest]
  <2>1. NoTrash \in Manifest
    BY FaultsAssumption DEF NoTrash, Manifest
  <2> QED BY <2>1 DEF UpkeepInit, GcInit
<1>4. gcPlans \in [GcIds -> GcPlan]
  <2>1. NoCandidate \in GcCandidates
    BY GcAssumption, FaultsAssumption DEF NoCandidate, GcCandidates, Classes
  <2>2. NoGcPlan \in GcPlan
    BY <2>1, FaultsAssumption DEF NoGcPlan, GcPlan
  <2> QED BY <2>2 DEF UpkeepInit, GcInit
<1>5. gcReceipts \in [GcIds -> [{"applied", "undone", "purged"} -> 0..Never]]
  <2>1. Never \in 0..Never
    BY FaultsAssumption DEF Never
  <2> QED BY <2>1 DEF UpkeepInit, GcInit
<1>6. gc = NoCommand /\ NoCommand \in Command /\ NoCommand.kind = "none"
  BY GcAssumption DEF UpkeepInit, GcInit, NoCommand, Command
<1> QED BY <1>1, <1>2, <1>3, <1>4, <1>5, <1>6 DEF GcInv, GcTypeOK, Moved, Manifest, GcPlan, Command

(* The collection of garbage loses nothing, over crashes between any two      *)
(* moves, commands given again and files written meanwhile: finish_apply,     *)
(* undo_gc_plan and purge_gc_plan of vault/src/gc.rs.                         *)
THEOREM CollectionLosesNothing == UpkeepSpec => GcLosesNothing
<1>1. GcInv /\ [UpkeepNext]_allVars => GcInv'
  BY GcHolds
<1>2. GcInv /\ [UpkeepNext]_allVars => [FilesOnlyMove /\ TrashIsKept /\ ManifestsTell]_gcVars
  BY GcHolds
<1>3. UpkeepSpec => [][FilesOnlyMove /\ TrashIsKept /\ ManifestsTell]_gcVars
  BY <1>1, <1>2, GcStarts, PTL DEF UpkeepSpec
<1> QED BY <1>3 DEF GcLosesNothing
-----------------------------------------------------------------------------
(* The intake of evidence: what a finalization under way has chosen still is  *)
(* the journal, and what it has written is what it chose.                     *)
Sealing ==
    /\ sealing.step # "none" => sealing.records = records /\ records > 0
    /\ sealing.step \in {"metadata", "marker"} => events = sealing.records
    /\ sealing.step = "marker" => metadata = Metadata
    /\ metadata # NoMetadata => events = metadata.records /\ events > 0
    /\ marker # NoMetadata => metadata = marker /\ events = records

(* What an import under way has checked is kept. *)
Importing ==
    /\ intake.step # "none" => intake.body \in Bodies
    /\ intake.step \in {"check", "receipt", "remove", "record"} => intake.body \in imports
    /\ intake.step = "remove" => /\ intake.body \in Texts /\ committed
                                 /\ inbox = intake.body \/ intake.dirty
    /\ \A b \in Bodies : /\ importReceipts[b].status # "none" => b \in imports
                         /\ importReceipts[b].status = "retained" => b \in Texts

IntakeInv == FaultsTypeOK /\ IntakeTypeOK /\ Sealing /\ Importing

Seal == [step : {"none", "events", "metadata", "marker"}, records : 0..MaxRecords, at : 0..MaxTime]
Meta == [records : 0..MaxRecords, at : 0..MaxTime]
Import == [step : {"none", "copy", "check", "receipt", "remove", "record"},
           body : Bodies \cup {NoBody}, dirty : BOOLEAN]
ImportReceipts == [status : {"none", "retained", "evidence_only", "removed"}, at : 0..MaxTime]
SealTypes ==
    /\ records \in 0..MaxRecords /\ fragment \in BOOLEAN /\ events \in 0..MaxRecords
    /\ metadata \in Meta /\ marker \in Meta /\ sealing \in Seal
ImportTypes ==
    /\ inbox \in Bodies \cup {NoBody} /\ imports \subseteq Bodies /\ committed \in BOOLEAN
    /\ importReceipts \in [Bodies -> ImportReceipts] /\ intake \in Import

LEMMA IntakeTypes == IntakeTypeOK <=> SealTypes /\ ImportTypes
BY DEF IntakeTypeOK, SealTypes, ImportTypes, Seal, Meta, Import, ImportReceipts

(* Steps that write the evidence of a session. *)
SealNext ==
    \/ AppendRecord \/ TornAppend \/ RepairFinalFragment
    \/ SealStart \/ SealEvents \/ SealMetadata \/ SealMarker \/ SealStops

LEMMA SealingKept ==
    ASSUME FaultsTypeOK, SealTypes, Sealing, SealNext
    PROVE  SealTypes' /\ Sealing' /\ SealsHold
<1>1. /\ records \in Nat /\ events \in 0..MaxRecords /\ MaxRecords \in Nat /\ now \in 0..MaxTime
      /\ MaxTime \in Nat
  BY IntakeAssumption, FaultsAssumption DEF SealTypes, FaultsTypeOK
<1>2. NotSealing \in Seal /\ NotSealing.step = "none" /\ NoMetadata \in Meta /\ NoMetadata.records = 0
  BY <1>1 DEF NotSealing, NoMetadata, Seal, Meta
<1>3. \A s \in {"none", "events", "metadata", "marker"} :
        LET next == [sealing EXCEPT !.step = s]
        IN next \in Seal /\ next.step = s /\ next.records = sealing.records /\ next.at = sealing.at
  BY DEF SealTypes, Seal
<1>4. Metadata \in Meta /\ Metadata.records = sealing.records
  BY DEF SealTypes, Seal, Meta, Metadata
<1>5. CASE AppendRecord
  <2>1. sealing.step = "none" /\ marker = NoMetadata
    BY <1>2, <1>5 DEF AppendRecord
  <2>2. records' = records + 1 /\ records < MaxRecords
        /\ UNCHANGED <<fragment, events, metadata, marker, sealing>>
    BY <1>5 DEF AppendRecord
  <2>3. SealTypes'
    BY <1>1, <2>2 DEF SealTypes
  <2> QED BY <2>1, <2>2, <2>3 DEF Sealing, SealsHold, NoEvents
<1>6. CASE TornAppend \/ RepairFinalFragment
  <2>1. fragment' \in BOOLEAN /\ UNCHANGED <<records, events, metadata, marker, sealing>>
    BY <1>6 DEF TornAppend, RepairFinalFragment
  <2> QED BY <2>1 DEF SealTypes, Sealing, SealsHold, Metadata
<1>7. CASE SealStart
  <2>1. /\ sealing' = [step |-> "events", records |-> records, at |-> now] /\ records > 0
        /\ UNCHANGED <<records, fragment, events, metadata, marker>>
    BY <1>1, <1>7 DEF SealStart, Terminal
  <2>2. sealing' \in Seal /\ sealing'.step = "events" /\ sealing'.records = records
    BY <1>1, <2>1 DEF Seal, SealTypes
  <2> QED BY <2>1, <2>2 DEF SealTypes, Sealing, SealsHold
<1>8. CASE sealing' = NotSealing /\ UNCHANGED <<records, fragment, events, metadata, marker>>
  BY <1>2, <1>8 DEF SealTypes, Sealing, SealsHold
<1>9. CASE SealEvents /\ Creatable(events, NoEvents, sealing.records)
  <2>1. /\ events' = sealing.records /\ sealing' = [sealing EXCEPT !.step = "metadata"]
        /\ UNCHANGED <<records, fragment, metadata, marker>>
        /\ sealing.step = "events" /\ events \in {NoEvents, sealing.records}
    BY <1>9 DEF SealEvents, Creatable
  <2>2. /\ sealing' \in Seal /\ sealing'.step = "metadata" /\ sealing'.records = sealing.records
    BY <1>3, <2>1
  <2>3. sealing.records = records /\ records > 0
    BY <2>1 DEF Sealing
  <2>4. events' = records /\ (events > 0 => events' = events)
    BY <1>1, <2>1, <2>3 DEF NoEvents
  <2> QED BY <1>1, <2>1, <2>2, <2>3, <2>4 DEF SealTypes, Sealing, SealsHold, NoEvents
<1>10. CASE SealMetadata /\ Creatable(metadata, NoMetadata, Metadata)
  <2>1. /\ metadata' = Metadata /\ sealing' = [sealing EXCEPT !.step = "marker"]
        /\ UNCHANGED <<records, fragment, events, marker>>
        /\ sealing.step = "metadata" /\ metadata \in {NoMetadata, Metadata}
    BY <1>10 DEF SealMetadata, Creatable
  <2>2. /\ sealing' \in Seal /\ sealing'.step = "marker" /\ sealing'.records = sealing.records
        /\ sealing'.at = sealing.at
    BY <1>3, <2>1
  <2>3. Metadata' = Metadata
    BY <2>2 DEF Metadata
  <2>4. sealing.records = records /\ records > 0 /\ events = sealing.records
    BY <2>1 DEF Sealing
  <2>5. metadata # NoMetadata => metadata' = metadata
    BY <2>1
  <2>6. marker # NoMetadata => metadata' = marker
    BY <2>1, <2>5 DEF Sealing
  <2> QED BY <1>1, <1>4, <2>1, <2>2, <2>3, <2>4, <2>5, <2>6 DEF SealTypes, Sealing, SealsHold, NoEvents
<1>11. CASE SealMarker
  <2>1. /\ marker' = marker \/ (marker' = Metadata /\ marker \in {NoMetadata, Metadata})
        /\ sealing' = NotSealing /\ UNCHANGED <<records, fragment, events, metadata>>
        /\ sealing.step = "marker"
    BY <1>11 DEF SealMarker, Creatable
  <2>2. metadata = Metadata /\ events = records
    BY <2>1 DEF Sealing
  <2> QED BY <1>1, <1>2, <1>4, <2>1, <2>2 DEF SealTypes, Sealing, SealsHold, NoEvents
<1>12. CASE SealEvents /\ ~Creatable(events, NoEvents, sealing.records)
  BY <1>8, <1>12 DEF SealEvents
<1>13. CASE SealMetadata /\ ~Creatable(metadata, NoMetadata, Metadata)
  BY <1>8, <1>13 DEF SealMetadata
<1>14. CASE SealStops
  BY <1>8, <1>14 DEF SealStops
<1> QED BY <1>5, <1>6, <1>7, <1>9, <1>10, <1>11, <1>12, <1>13, <1>14 DEF SealNext

(* Steps that take files from the inbox. *)
TakeNext ==
    \/ ImportStart \/ ImportCopy \/ ImportCheck \/ ImportReceipt
    \/ PagesCommitted \/ CompleteRemove \/ CompleteRecord \/ IntakeStops
    \/ \E b \in Bodies : CompleteStart(b)
    \/ \E b \in Bodies \cup {NoBody} : PersonWrites(b)

LEMMA ImportingKept ==
    ASSUME FaultsTypeOK, ImportTypes, Importing, TakeNext
    PROVE  ImportTypes' /\ Importing' /\ SourcesKept
<1>1. /\ now \in 0..MaxTime /\ trouble \in Nat
      /\ inbox \in Bodies \cup {NoBody} /\ imports \subseteq Bodies /\ committed \in BOOLEAN
      /\ importReceipts \in [Bodies -> ImportReceipts] /\ intake \in Import
  BY FaultsAssumption DEF ImportTypes, FaultsTypeOK
<1>2. NotTaking \in Import /\ NotTaking.step = "none"
  BY DEF NotTaking, Import
<1>3. \A s \in {"none", "copy", "check", "receipt", "remove", "record"} :
        Taking(s) => /\ intake' \in Import /\ intake'.step = s /\ intake'.body = intake.body
                     /\ intake'.dirty = intake.dirty
  BY <1>1 DEF Taking, Import
<1>4. NoBody \notin Bodies
  BY IntakeAssumption DEF NoBody, Bodies
<1>5. \A b \in Bodies : importReceipts[b].status # "none" => b \in imports
  BY DEF Importing
<1>6. CASE ImportStart
  <2>1. /\ intake' = [step |-> "copy", body |-> inbox, dirty |-> FALSE] /\ inbox \in Bodies
        /\ UNCHANGED <<inbox, imports, importReceipts, committed>>
    BY <1>1, <1>6 DEF ImportStart
  <2>2. intake' \in Import /\ intake'.step = "copy" /\ intake'.body \in Bodies
    BY <2>1 DEF Import
  <2> QED BY <2>1, <2>2, <1>1 DEF ImportTypes, Importing, SourcesKept
<1>7. CASE ImportCopy
  <2>1. /\ intake.step = "copy" /\ imports' = imports \cup {intake.body} /\ Taking("check")
        /\ UNCHANGED <<inbox, importReceipts, committed>>
    BY <1>7 DEF ImportCopy
  <2>2. intake.body \in Bodies
    BY <2>1 DEF Importing
  <2>3. intake' \in Import /\ intake'.step = "check" /\ intake'.body = intake.body
    BY <1>3, <2>1
  <2> QED BY <1>1, <2>1, <2>2, <2>3 DEF ImportTypes, Importing, SourcesKept
<1>8. CASE ImportCheck
  <2>1. /\ intake.step = "check"
        /\ Taking("receipt") \/ intake' = NotTaking
        /\ UNCHANGED <<inbox, imports, importReceipts, committed>>
    BY <1>8 DEF ImportCheck
  <2>2. intake.body \in imports
    BY <2>1 DEF Importing
  <2>3. /\ intake' \in Import
        /\ intake'.step = "none" \/ (intake'.step = "receipt" /\ intake'.body = intake.body)
    BY <1>2, <1>3, <2>1
  <2> QED BY <1>1, <2>1, <2>2, <2>3 DEF ImportTypes, Importing, SourcesKept
<1>9. CASE ImportReceipt
  <2> DEFINE receipt == [status |-> IF intake.body \in Texts THEN "retained" ELSE "evidence_only", at |-> now]
  <2>1. /\ intake.step = "receipt" /\ intake' = NotTaking /\ UNCHANGED <<inbox, imports, committed>>
        /\ \/ importReceipts' = importReceipts
           \/ importReceipts' = [importReceipts EXCEPT ![intake.body] = receipt]
    BY <1>9 DEF ImportReceipt
  <2>2. intake.body \in imports /\ intake.body \in Bodies
    BY <2>1 DEF Importing
  <2>3. receipt \in ImportReceipts /\ (receipt.status = "retained" => intake.body \in Texts)
    BY <1>1 DEF ImportReceipts
  <2> HIDE DEF receipt
  <2>4. /\ importReceipts' \in [Bodies -> ImportReceipts]
        /\ \A b \in Bodies : importReceipts'[b] = importReceipts[b]
                             \/ (b = intake.body /\ importReceipts'[b] = receipt)
    BY <1>1, <2>1, <2>2, <2>3
  <2>5. \A b \in Bodies : /\ importReceipts'[b].status # "none" => b \in imports'
                         /\ importReceipts'[b].status = "retained" => b \in Texts
    BY <2>1, <2>2, <2>3, <2>4 DEF Importing
  <2> QED BY <1>1, <1>2, <1>5, <2>1, <2>4, <2>5 DEF ImportTypes, Importing, SourcesKept
<1>10. CASE PagesCommitted
  <2>1. committed' = TRUE /\ UNCHANGED <<inbox, imports, importReceipts, intake>>
    BY <1>10 DEF PagesCommitted
  <2> QED BY <1>1, <2>1 DEF ImportTypes, Importing, SourcesKept
<1>11. ASSUME NEW b \in Bodies, CompleteStart(b)
       PROVE  ImportTypes' /\ Importing' /\ SourcesKept
  <2>1. /\ committed /\ importReceipts[b].status = "retained"
        /\ intake' = [step |-> IF inbox = b THEN "remove" ELSE "record", body |-> b, dirty |-> FALSE]
        /\ UNCHANGED <<inbox, imports, importReceipts, committed>>
    BY <1>11 DEF CompleteStart
  <2>2. b \in Texts /\ b \in imports
    BY <2>1 DEF Importing
  <2>3. /\ intake' \in Import /\ intake'.body = b /\ intake'.step \in {"remove", "record"}
        /\ intake'.step = "remove" => inbox = b
    BY <2>1 DEF Import
  <2> QED BY <1>1, <2>1, <2>2, <2>3 DEF ImportTypes, Importing, SourcesKept
<1>12. CASE CompleteRemove
  <2>1. /\ intake.step = "remove" /\ inbox' = NoBody /\ Taking("record")
        /\ UNCHANGED <<imports, importReceipts, committed>>
    BY <1>12 DEF CompleteRemove
  <2>2. /\ intake.body \in imports \cap Texts /\ committed /\ intake.body \in Bodies
        /\ inbox = intake.body \/ intake.dirty
    BY <2>1 DEF Importing
  <2>3. intake' \in Import /\ intake'.step = "record" /\ intake'.body = intake.body
    BY <1>3, <2>1
  <2> QED BY <1>1, <2>1, <2>2, <2>3 DEF ImportTypes, Importing, SourcesKept
<1>13. CASE CompleteRecord
  <2>1. /\ intake.step = "record" /\ intake' = NotTaking /\ UNCHANGED <<inbox, imports, committed>>
        /\ importReceipts' = [importReceipts EXCEPT ![intake.body].status = "removed"]
    BY <1>13 DEF CompleteRecord
  <2>2. intake.body \in imports /\ intake.body \in Bodies
    BY <2>1 DEF Importing
  <2>3. /\ [importReceipts[intake.body] EXCEPT !.status = "removed"] \in ImportReceipts
        /\ [importReceipts[intake.body] EXCEPT !.status = "removed"].status = "removed"
    BY <1>1, <2>2 DEF ImportReceipts
  <2>4. /\ importReceipts' \in [Bodies -> ImportReceipts]
        /\ \A b \in Bodies : \/ importReceipts'[b] = importReceipts[b]
                             \/ b = intake.body /\ importReceipts'[b].status = "removed"
    BY <1>1, <2>1, <2>2, <2>3
  <2>5. \A b \in Bodies : /\ importReceipts'[b].status # "none" => b \in imports'
                         /\ importReceipts'[b].status = "retained" => b \in Texts
    BY <2>1, <2>2, <2>4 DEF Importing
  <2> QED BY <1>1, <1>2, <1>5, <2>1, <2>4, <2>5 DEF ImportTypes, Importing, SourcesKept
<1>14. CASE IntakeStops
  <2>1. intake' = NotTaking /\ UNCHANGED <<inbox, imports, importReceipts, committed>>
    BY <1>14 DEF IntakeStops
  <2> QED BY <1>1, <1>2, <2>1 DEF ImportTypes, Importing, SourcesKept
<1>15. ASSUME NEW b \in Bodies \cup {NoBody}, PersonWrites(b)
       PROVE  ImportTypes' /\ Importing' /\ SourcesKept
  <2>1. /\ inbox' = b /\ trouble' # trouble /\ UNCHANGED <<imports, importReceipts, committed>>
        /\ intake' = IF intake.step = "remove" THEN [intake EXCEPT !.dirty = TRUE] ELSE intake
    BY <1>1, <1>15 DEF PersonWrites, Trouble
  <2>2. /\ intake' \in Import /\ intake'.step = intake.step /\ intake'.body = intake.body
        /\ intake'.step = "remove" => intake'.dirty
    BY <1>1, <2>1 DEF Import
  <2> QED BY <1>1, <2>1, <2>2 DEF ImportTypes, Importing, SourcesKept
<1> QED BY <1>6, <1>7, <1>8, <1>9, <1>10, <1>11, <1>12, <1>13, <1>14, <1>15 DEF TakeNext

LEMMA IntakeHolds ==
    ASSUME IntakeInv, [UpkeepNext]_allVars
    PROVE  IntakeInv' /\ [SealsHold /\ SourcesKept]_intakeVars
<1>1. FaultsTypeOK /\ FaultsTypeOK' /\ SealTypes /\ ImportTypes /\ Sealing /\ Importing
  BY FaultsKept, IntakeTypes DEF IntakeInv
<1>2. ASSUME UNCHANGED sealVars PROVE SealTypes' /\ Sealing' /\ SealsHold
  <2>1. UNCHANGED <<records, fragment, events, metadata, marker, sealing>>
    BY <1>2 DEF sealVars
  <2> QED BY <1>1, <2>1 DEF SealTypes, Sealing, SealsHold, Metadata, NoEvents
<1>3. ASSUME UNCHANGED inboxVars PROVE ImportTypes' /\ Importing' /\ SourcesKept
  <2>1. UNCHANGED <<inbox, imports, importReceipts, committed, intake>>
    BY <1>3 DEF inboxVars
  <2> QED BY <1>1, <2>1 DEF ImportTypes, Importing, SourcesKept
<1>4. (IntakeTypeOK <=> SealTypes /\ ImportTypes)'
  BY DEF IntakeTypeOK, SealTypes, ImportTypes, Seal, Meta, Import, ImportReceipts
<1>5. CASE SealNext
  <2>1. UNCHANGED inboxVars
    BY <1>5 DEF SealNext, AppendRecord, TornAppend, RepairFinalFragment, SealStart, SealEvents,
                SealMetadata, SealMarker, SealStops
  <2> QED BY <1>1, <1>3, <1>4, <1>5, <2>1, SealingKept DEF IntakeInv
<1>6. CASE TakeNext
  <2>1. UNCHANGED sealVars
    BY <1>6 DEF TakeNext, ImportStart, ImportCopy, ImportCheck, ImportReceipt, PagesCommitted,
                CompleteStart, CompleteRemove, CompleteRecord, IntakeStops, PersonWrites
  <2> QED BY <1>1, <1>2, <1>4, <1>6, <2>1, ImportingKept DEF IntakeInv
<1>7. CASE UNCHANGED intakeVars
  <2>1. UNCHANGED sealVars /\ UNCHANGED inboxVars
    BY <1>7 DEF intakeVars
  <2> QED BY <1>1, <1>2, <1>3, <1>4, <1>7, <2>1 DEF IntakeInv
<1> QED BY <1>5, <1>6, <1>7 DEF UpkeepNext, allVars, IntakeNext, SealNext, TakeNext

LEMMA IntakeStarts == UpkeepInit => IntakeInv
<1> SUFFICES ASSUME UpkeepInit PROVE IntakeInv
  OBVIOUS
<1>1. FaultsTypeOK
  BY GcStarts DEF GcInv
<1>2. MaxRecords \in Nat /\ MaxTime \in Nat
  BY IntakeAssumption, FaultsAssumption
<1>3. SealTypes /\ Sealing
  <2>1. NotSealing \in Seal /\ NotSealing.step = "none" /\ NoMetadata \in Meta
    BY <1>2 DEF NotSealing, NoMetadata, Seal, Meta
  <2>2. /\ records = 0 /\ fragment = FALSE /\ events = 0 /\ metadata = NoMetadata
        /\ marker = NoMetadata /\ sealing = NotSealing
    BY DEF UpkeepInit, IntakeInit, NoEvents
  <2>3. SealTypes
    <3>1. records \in 0..MaxRecords /\ events \in 0..MaxRecords
      BY <1>2, <2>2
    <3>2. fragment \in BOOLEAN
      BY <2>2
    <3>3. metadata \in Meta /\ marker \in Meta /\ sealing \in Seal
      BY <2>1, <2>2
    <3> QED BY <3>1, <3>2, <3>3 DEF SealTypes
  <2>4. sealing.step = "none"
    BY <2>1, <2>2
  <2> QED BY <2>2, <2>3, <2>4 DEF Sealing
<1>4. ImportTypes /\ Importing
  <2>1. NotTaking \in Import /\ NotTaking.step = "none"
    BY DEF NotTaking, Import
  <2>2. NotImported \in ImportReceipts /\ NotImported.status = "none"
    BY <1>2 DEF NotImported, ImportReceipts
  <2> QED BY <2>1, <2>2 DEF UpkeepInit, IntakeInit, ImportTypes, Importing
<1> QED BY <1>1, <1>3, <1>4, IntakeTypes DEF IntakeInv

(* Sealed evidence never changes, and the source of an import goes only when  *)
(* its bytes are kept, over crashes, retries and changes by hand:             *)
(* finalize_runtime_bytes of vault/src/raw.rs, import_inbox_file and          *)
(* complete_inbox_import of vault/src/inbox.rs.                               *)
THEOREM EvidenceStaysSealed == UpkeepSpec => EvidenceSealed
<1>1. IntakeInv /\ [UpkeepNext]_allVars => IntakeInv'
  BY IntakeHolds
<1>2. IntakeInv /\ [UpkeepNext]_allVars => [SealsHold /\ SourcesKept]_intakeVars
  BY IntakeHolds
<1>3. UpkeepSpec => [][SealsHold /\ SourcesKept]_intakeVars
  BY <1>1, <1>2, IntakeStarts, PTL DEF UpkeepSpec
<1> QED BY <1>3 DEF EvidenceSealed
-----------------------------------------------------------------------------
(* Migration. *)

(* The targets of a plan are created one after the other, each of them once.  *)
Items(list) == {list[i] : i \in 1..Len(list)}
Distinct(list) == \A i, k \in 1..Len(list) : list[i] = list[k] => i = k

LEMMA ToCreateLists ==
    ASSUME NEW plan \in Plans
    PROVE  /\ ToCreate(plan) \in Seq(TargetFiles) /\ Distinct(ToCreate(plan))
           /\ Items(ToCreate(plan)) = {t \in TargetFiles : plan.disposition[t] = "absent"}
<1> DEFINE config == plan.disposition["config"] = "absent"
           sessions == plan.disposition["sessions"] = "absent"
<1>1. CASE ~config /\ ~sessions
  <2>1. ToCreate(plan) = <<>>
    BY <1>1 DEF ToCreate, IfAbsent
  <2> QED BY <1>1, <2>1 DEF Distinct, Items, TargetFiles
<1>2. CASE config /\ ~sessions
  <2>1. ToCreate(plan) = <<"config">>
    BY <1>2 DEF ToCreate, IfAbsent
  <2> QED BY <1>2, <2>1 DEF Distinct, Items, TargetFiles
<1>3. CASE ~config /\ sessions
  <2>1. ToCreate(plan) = <<"sessions">>
    BY <1>3 DEF ToCreate, IfAbsent
  <2> QED BY <1>3, <2>1 DEF Distinct, Items, TargetFiles
<1>4. CASE config /\ sessions
  <2> DEFINE both == <<"config">> \o <<"sessions">>
  <2>1. /\ both \in Seq(TargetFiles) /\ Len(both) = 2
        /\ both[1] = "config" /\ both[2] = "sessions"
    BY DEF TargetFiles
  <2>2. ToCreate(plan) = both
    BY <1>4 DEF ToCreate, IfAbsent
  <2> HIDE DEF both
  <2>3. 1..2 = {1, 2}
    OBVIOUS
  <2>4. Items(both) = {"config", "sessions"}
    BY <2>1, <2>3 DEF Items
  <2>5. Distinct(both)
    BY <2>1, <2>3 DEF Distinct
  <2> QED BY <1>4, <2>1, <2>2, <2>4, <2>5 DEF TargetFiles
<1> QED BY <1>1, <1>2, <1>3, <1>4

(* What is left of a list without its last item, or without its first; and a  *)
(* list with one more.                                                        *)
LEMMA ItemsLeft ==
    ASSUME NEW list \in Seq(TargetFiles)
    PROVE  /\ list # <<>> =>
                /\ SubSeq(list, 1, Len(list) - 1) \in Seq(TargetFiles)
                /\ Items(SubSeq(list, 1, Len(list) - 1)) \subseteq Items(list)
                /\ list[Len(list)] \in TargetFiles /\ list[Len(list)] \in Items(list)
                /\ Tail(list) \in Seq(TargetFiles) /\ Items(Tail(list)) \subseteq Items(list)
                /\ Head(list) \in TargetFiles /\ Head(list) \in Items(list)
           /\ \A t \in TargetFiles : /\ Append(list, t) \in Seq(TargetFiles)
                                     /\ Items(Append(list, t)) \subseteq Items(list) \cup {t}
<1>1. ASSUME list # <<>>
      PROVE  /\ SubSeq(list, 1, Len(list) - 1) \in Seq(TargetFiles)
             /\ Items(SubSeq(list, 1, Len(list) - 1)) \subseteq Items(list)
  BY <1>1 DEF Items
<1>2. ASSUME list # <<>>
      PROVE  list[Len(list)] \in TargetFiles /\ list[Len(list)] \in Items(list)
  BY <1>2 DEF Items
<1>3. ASSUME list # <<>>
      PROVE  Tail(list) \in Seq(TargetFiles) /\ Items(Tail(list)) \subseteq Items(list)
  BY <1>3 DEF Items
<1>4. ASSUME list # <<>>
      PROVE  Head(list) \in TargetFiles /\ Head(list) \in Items(list)
  BY <1>4 DEF Items
<1>5. ASSUME NEW t \in TargetFiles
      PROVE  Append(list, t) \in Seq(TargetFiles) /\ Items(Append(list, t)) \subseteq Items(list) \cup {t}
  BY <1>5 DEF Items
<1> QED BY <1>1, <1>2, <1>3, <1>4, <1>5

LEMMA DistinctLeft ==
    ASSUME NEW list \in Seq(TargetFiles), list # <<>>, Distinct(list)
    PROVE  /\ Distinct(SubSeq(list, 1, Len(list) - 1))
           /\ Items(SubSeq(list, 1, Len(list) - 1)) = Items(list) \ {list[Len(list)]}
<1> DEFINE rest == SubSeq(list, 1, Len(list) - 1)
<1>1. /\ Len(list) \in Nat \ {0} /\ Len(rest) = Len(list) - 1
      /\ \A i \in 1..(Len(list) - 1) : rest[i] = list[i]
  <2>1. Len(list) \in Nat \ {0} /\ \A i \in 1..(Len(list) - 1) : list[i] \in TargetFiles
    BY EmptySeq
  <2> DEFINE n == Len(list) - 1
  <2>2. n \in Nat /\ 1 \in Int /\ n \in Int /\ n - 1 + 1 = n /\ \A i \in 1..n : 1 + i - 1 = i
    BY <2>1
  <2>3. /\ Len(rest) = IF 1 <= n THEN n - 1 + 1 ELSE 0
        /\ \A i \in 1..(n - 1 + 1) : rest[i] = list[1 + i - 1]
    BY <2>1, <2>2, SubSeqProperties
  <2>4. (IF 1 <= n THEN n - 1 + 1 ELSE 0) = n
    BY <2>2
  <2>5. \A i \in 1..n : rest[i] = list[i]
    BY <2>2, <2>3
  <2> QED BY <2>1, <2>3, <2>4, <2>5
<1> HIDE DEF rest
<1>2. Distinct(rest)
  BY <1>1 DEF Distinct
<1>3. Items(rest) = Items(list) \ {list[Len(list)]}
  <2>1. ASSUME NEW t \in Items(rest) PROVE t \in Items(list) /\ t # list[Len(list)]
    <3>1. PICK i \in 1..Len(rest) : t = rest[i]
      BY DEF Items
    <3>2. i \in 1..Len(list) /\ i # Len(list) /\ Len(list) \in 1..Len(list) /\ t = list[i]
      BY <1>1, <3>1
    <3> QED BY <3>2 DEF Items, Distinct
  <2>2. ASSUME NEW t \in Items(list), t # list[Len(list)] PROVE t \in Items(rest)
    <3>1. PICK i \in 1..Len(list) : t = list[i]
      BY DEF Items
    <3>2. i \in 1..Len(rest) /\ t = rest[i]
      BY <1>1, <2>2, <3>1
    <3> QED BY <3>2 DEF Items
  <2> QED BY <2>1, <2>2
<1> QED BY <1>2, <1>3 DEF rest

(* A dry run makes a plan of the source. *)
LEMMA PlanTyped ==
    ASSUME source \in Sources
    PROVE  PlanNow \in Plans /\ PlanNow.source = source
<1>1. \A t \in TargetFiles : Disposition(source, t) \in {"none", "absent", "same", "collision"}
  BY DEF Disposition
<1> QED BY <1>1 DEF PlanNow, Plans

LEMMA ArtifactThere == \A s, t : Artifact(s, t) # Absent
BY DEF Artifact, Absent

(* What a migration keeps of itself, one file resting on another. *)
LedgerOK(s, ledger) ==
    /\ ledger \in Ledgers
    /\ ledger.planFile = "whole" => ledger.plan.source = s /\ ledger.plan \in dryRuns
    /\ ledger.receipt = "whole" => ledger.operation = "whole"
    /\ ledger.operation # "none" => ledger.planFile = "whole"
    /\ ledger.rollback # "none" => ledger.receipt = "whole" /\ s \in undone
MigTypes ==
    /\ dryRuns \subseteq Plans /\ undone \subseteq Sources /\ mig \in Migrations
    /\ mig.kind # "none" => mig.plan \in dryRuns
    /\ ledgers \in [Sources -> Ledgers] /\ \A s \in Sources : LedgerOK(s, ledgers[s])
FileTypes ==
    /\ source \in Sources /\ touched \subseteq Sources \X TargetFiles
    /\ target \in [TargetFiles -> UNION {FilesAt(t) : t \in TargetFiles}]
    /\ \A t \in TargetFiles : target[t] \in FilesAt(t)

(* What the command under way works from is what is on the disk: it creates   *)
(* and removes files only once its plan and its operation are durable.        *)
Planned(plan) == {t \in TargetFiles : plan.disposition[t] = "absent"}
Driven ==
    /\ mig.kind = "none" <=> mig.at = "none"
    /\ mig.kind = "rollback" <=> mig.at = "remove"
    /\ mig.at \in {"operation", "stage", "publish", "undo", "receipt", "done", "remove"} =>
         Own.planFile = "whole" /\ Own.plan = mig.plan
    /\ mig.at \in {"stage", "publish", "undo", "receipt", "done", "remove"} => Own.operation = "whole"
    /\ mig.at = "recover" /\ mig.left # <<>> =>
         Own.planFile = "whole" /\ Own.plan = mig.plan /\ Own.operation = "whole"
    /\ mig.at \in {"recover", "compare", "plan"} /\ Own.planFile = "whole" => Own.plan = mig.plan
    /\ mig.at # "none" => Items(mig.left) \cup Items(mig.created) \subseteq Planned(mig.plan)
    /\ mig.kind = "apply" /\ mig.at \notin {"undo", "done"} => Own.receipt # "whole"
    /\ mig.at = "undo" /\ Own.receipt = "whole" => Own.rollback = "none" /\ Owner \in undone
    /\ mig.at = "remove" => /\ Own.receipt = "whole" /\ Own.rollback = "none" /\ Owner \in undone
                           /\ Distinct(mig.left)

(* The files of a migration that were verified are there until somebody else  *)
(* changes them, or it removes them itself.                                   *)
Standing ==
    \A t \in TargetsOf(Owner) : <<Owner, t>> \notin touched =>
        /\ mig.at = "receipt" => target[t] = Artifact(Owner, t)
        /\ mig.at = "remove" =>
             /\ t \in Items(mig.left) \/ t \notin Planned(mig.plan) => target[t] = Artifact(Owner, t)
             /\ t \in Planned(mig.plan) /\ t \notin Items(mig.left) => target[t] = Absent

MigInv == FaultsTypeOK /\ FileTypes /\ MigTypes /\ Driven /\ Standing /\ ReceiptsTell

LEMMA MigrationTypes ==
    ASSUME FileTypes, MigTypes
    PROVE  MigrationTypeOK
BY DEF FileTypes, MigTypes, MigrationTypeOK, LedgerOK

LEMMA OwnerTyped ==
    ASSUME MigTypes, mig.kind # "none"
    PROVE  /\ Owner \in Sources /\ Own \in Ledgers /\ LedgerOK(Owner, Own) /\ mig.plan \in Plans
           /\ mig.plan \in dryRuns
<1>1. mig.plan \in Plans /\ mig.plan \in dryRuns
  BY DEF MigTypes
<1>2. Owner \in Sources
  BY <1>1 DEF Owner, Plans
<1> QED BY <1>1, <1>2 DEF MigTypes, Own

LEMMA Applying ==
    ASSUME MigTypes, Driven, mig.at \notin {"none", "remove"}
    PROVE  /\ mig.kind = "apply"
           /\ mig.at \notin {"undo", "done"} => Own.receipt # "whole" /\ Own.rollback = "none"
<1>1. mig.kind = "apply" /\ (mig.at \notin {"undo", "done"} => Own.receipt # "whole")
  BY DEF MigTypes, Driven, Migrations
<1>2. Own \in Ledgers /\ LedgerOK(Owner, Own)
  BY <1>1, OwnerTyped
<1> QED BY <1>1, <1>2 DEF LedgerOK, Ledgers

LEMMA Ended ==
    ASSUME mig' = NoMigration
    PROVE  mig' \in Migrations /\ mig'.kind = "none" /\ mig'.at = "none" /\ Driven'
<1>1. NoMigration \in Migrations /\ NoMigration.kind = "none" /\ NoMigration.at = "none"
  BY DEF NoMigration, Migrations, Steps
<1> QED BY <1>1 DEF Driven

LEMMA Going ==
    ASSUME MigTypes, NEW at \in Steps, Goes(at)
    PROVE  /\ mig' \in Migrations /\ mig'.at = at /\ mig'.kind = mig.kind /\ mig'.plan = mig.plan
           /\ mig'.left = mig.left /\ mig'.created = mig.created
BY DEF MigTypes, Goes, Migrations

(* One ledger is written, or none is. *)
LEMMA LedgerWritten ==
    ASSUME MigTypes, NEW own \in Ledgers, Owner \in Sources, LedgerOK(Owner, own), Record(own),
           dryRuns' = dryRuns, undone \subseteq undone'
    PROVE  /\ ledgers' \in [Sources -> Ledgers] /\ (\A s \in Sources : LedgerOK(s, ledgers[s]))'
           /\ ledgers'[Owner] = own /\ \A s \in Sources \ {Owner} : ledgers'[s] = ledgers[s]
<1>1. /\ ledgers' \in [Sources -> Ledgers]
      /\ ledgers'[Owner] = own /\ \A s \in Sources \ {Owner} : ledgers'[s] = ledgers[s]
  BY DEF MigTypes, Record
<1>2. \A s \in Sources : LedgerOK(s, ledgers'[s])
  BY <1>1 DEF MigTypes
<1> QED BY <1>1, <1>2 DEF LedgerOK

LEMMA LedgersAlone ==
    ASSUME MigTypes, ledgers' = ledgers, dryRuns \subseteq dryRuns', undone \subseteq undone'
    PROVE  ledgers' \in [Sources -> Ledgers] /\ (\A s \in Sources : LedgerOK(s, ledgers[s]))'
BY DEF MigTypes, LedgerOK

(* One file of a ledger is written. *)
LEMMA StagingField ==
    ASSUME NEW ledger \in Ledgers, NEW b \in BOOLEAN
    PROVE  LET l == [ledger EXCEPT !.staging = b] IN
             /\ l \in Ledgers /\ l.plan = ledger.plan /\ l.planFile = ledger.planFile
             /\ l.operation = ledger.operation /\ l.receipt = ledger.receipt /\ l.rollback = ledger.rollback
BY DEF Ledgers

LEMMA PlanFileField ==
    ASSUME NEW ledger \in Ledgers, NEW value \in FileStates
    PROVE  LET l == [ledger EXCEPT !.planFile = value] IN
             /\ l \in Ledgers /\ l.plan = ledger.plan /\ l.planFile = value
             /\ l.operation = ledger.operation /\ l.receipt = ledger.receipt /\ l.rollback = ledger.rollback
BY DEF Ledgers

LEMMA OperationField ==
    ASSUME NEW ledger \in Ledgers, NEW value \in FileStates
    PROVE  LET l == [ledger EXCEPT !.operation = value] IN
             /\ l \in Ledgers /\ l.plan = ledger.plan /\ l.planFile = ledger.planFile
             /\ l.operation = value /\ l.receipt = ledger.receipt /\ l.rollback = ledger.rollback
BY DEF Ledgers

LEMMA ReceiptField ==
    ASSUME NEW ledger \in Ledgers, NEW value \in FileStates
    PROVE  LET l == [ledger EXCEPT !.receipt = value] IN
             /\ l \in Ledgers /\ l.plan = ledger.plan /\ l.planFile = ledger.planFile
             /\ l.operation = ledger.operation /\ l.receipt = value /\ l.rollback = ledger.rollback
BY DEF Ledgers

LEMMA RollbackField ==
    ASSUME NEW ledger \in Ledgers, NEW value \in FileStates
    PROVE  LET l == [ledger EXCEPT !.rollback = value] IN
             /\ l \in Ledgers /\ l.plan = ledger.plan /\ l.planFile = ledger.planFile
             /\ l.operation = ledger.operation /\ l.receipt = ledger.receipt /\ l.rollback = value
BY DEF Ledgers

(* An operation stays, with its plan; a receipt and a rollback are written at *)
(* the end of what they are about.                                            *)
LedgersMove ==
    \A s \in Sources :
        /\ ledgers[s].operation = "whole" =>
             ledgers'[s].operation = "whole" /\ ledgers'[s].plan = ledgers[s].plan
        /\ ledgers'[s].receipt = "whole" /\ ledgers[s].receipt # "whole" =>
             s = Owner /\ mig.at = "receipt" /\ UNCHANGED <<target, touched>>
        /\ ledgers'[s].rollback = "whole" /\ ledgers[s].rollback # "whole" =>
             s = Owner /\ mig.at = "remove" /\ mig.left = <<>> /\ UNCHANGED <<target, touched>>
MigStep == MigTypes' /\ Driven' /\ LedgersMove

LEMMA LedgerMoves ==
    ASSUME MigTypes, NEW own \in Ledgers, Owner \in Sources, LedgerOK(Owner, own), Record(own),
           UNCHANGED <<dryRuns, target, touched>>, undone \subseteq undone',
           Own.operation = "whole" => own.operation = "whole" /\ own.plan = Own.plan,
           own.receipt = "whole" => Own.receipt = "whole" \/ mig.at = "receipt",
           own.rollback = "whole" => Own.rollback = "whole" \/ (mig.at = "remove" /\ mig.left = <<>>)
    PROVE  LedgersMove
<1>1. /\ ledgers'[Owner] = own /\ ledgers[Owner] = Own
      /\ \A s \in Sources \ {Owner} : ledgers'[s] = ledgers[s]
  BY LedgerWritten DEF Own
<1> QED BY <1>1 DEF LedgersMove

LEMMA StepStops ==
    ASSUME MigTypes, mig' = NoMigration, UNCHANGED <<ledgers, dryRuns, undone>>
    PROVE  MigStep
BY Ended, LedgersAlone DEF MigStep, MigTypes, LedgersMove

LEMMA StepWrites ==
    ASSUME MigTypes, NEW own \in Ledgers, Owner \in Sources, LedgerOK(Owner, own), Record(own),
           mig' = NoMigration, UNCHANGED <<dryRuns, undone, target, touched>>,
           Own.operation = "whole" => own.operation = "whole" /\ own.plan = Own.plan,
           own.receipt = "whole" => Own.receipt = "whole",
           own.rollback = "whole" => Own.rollback = "whole" \/ (mig.at = "remove" /\ mig.left = <<>>)
    PROVE  MigStep
BY Ended, LedgerWritten, LedgerMoves DEF MigStep, MigTypes

LEMMA StepsEnd ==
    ASSUME MigTypes, Driven,
           ApplyDone \/ WriteRollback \/ (mig.at = "stage" /\ Record([Own EXCEPT !.staging = TRUE])
                                           /\ mig' = NoMigration /\ UNCHANGED <<dryRuns, undone, target, touched>>)
    PROVE  MigStep
<1>1. mig.at # "none" /\ mig.kind # "none" /\ mig' = NoMigration
      /\ UNCHANGED <<dryRuns, undone, target, touched>>
  BY DEF ApplyDone, WriteRollback, Driven
<1>2. Owner \in Sources /\ Own \in Ledgers /\ LedgerOK(Owner, Own)
  BY <1>1, OwnerTyped
<1>3. ASSUME NEW b \in BOOLEAN, Record([Own EXCEPT !.staging = b])
      PROVE  MigStep
  <2> DEFINE own == [Own EXCEPT !.staging = b]
  <2>1. /\ own \in Ledgers /\ own.plan = Own.plan /\ own.planFile = Own.planFile
        /\ own.operation = Own.operation /\ own.receipt = Own.receipt /\ own.rollback = Own.rollback
    BY <1>2, StagingField
  <2>2. Record(own)
    BY <1>3
  <2> HIDE DEF own
  <2>3. LedgerOK(Owner, own)
    BY <1>2, <2>1 DEF LedgerOK
  <2> QED BY <1>1, <1>2, <2>1, <2>2, <2>3, StepWrites
<1>4. CASE WriteRollback
  <2> DEFINE own == [Own EXCEPT !.rollback = "whole"]
  <2>1. /\ own \in Ledgers /\ own.plan = Own.plan /\ own.planFile = Own.planFile
        /\ own.operation = Own.operation /\ own.receipt = Own.receipt /\ own.rollback = "whole"
    BY <1>2, RollbackField DEF FileStates
  <2>2. Record(own) /\ mig.at = "remove" /\ mig.left = <<>>
    BY <1>4 DEF WriteRollback
  <2>3. Own.receipt = "whole" /\ Owner \in undone
    BY <2>2 DEF Driven
  <2> HIDE DEF own
  <2>4. LedgerOK(Owner, own)
    BY <1>2, <2>1, <2>3 DEF LedgerOK
  <2> QED BY <1>1, <1>2, <2>1, <2>2, <2>3, <2>4, StepWrites
<1> QED BY <1>3, <1>4 DEF ApplyDone

LEMMA StepsTear ==
    ASSUME MigTypes, Driven, WriteStops
    PROVE  mig' = NoMigration => MigStep
<1> SUFFICES ASSUME mig' = NoMigration PROVE MigStep
  OBVIOUS
<1>1. UNCHANGED <<dryRuns, undone, touched>> /\ ~Undo
  <2>1. ~Undo
    BY DEF Undo, NoMigration, MigTypes, Migrations
  <2> QED BY <2>1 DEF WriteStops
<1>2. ASSUME ledgers' = ledgers PROVE MigStep
  BY <1>1, <1>2, StepStops
<1>3. ASSUME mig.at # "none"
      PROVE  Owner \in Sources /\ Own \in Ledgers /\ LedgerOK(Owner, Own)
  BY <1>3, OwnerTyped DEF Driven
<1>a. "torn" \in FileStates
  BY DEF FileStates
<1>4. CASE mig.at = "receipt" /\ Record([Own EXCEPT !.receipt = "torn"]) /\ UNCHANGED target
  <2> DEFINE own == [Own EXCEPT !.receipt = "torn"]
  <2>a. Owner \in Sources /\ Own \in Ledgers /\ LedgerOK(Owner, Own)
    BY <1>3, <1>4
  <2>1. /\ own \in Ledgers /\ own.plan = Own.plan /\ own.planFile = Own.planFile
        /\ own.operation = Own.operation /\ own.receipt = "torn" /\ own.rollback = Own.rollback
    BY <2>a, <1>a, ReceiptField
  <2>2. Record(own) /\ Own.receipt # "whole"
    BY <1>4, Applying
  <2> HIDE DEF own
  <2>3. LedgerOK(Owner, own)
    BY <2>a, <1>4, <2>1, <2>2 DEF LedgerOK
  <2> QED BY <1>1, <2>a, <1>4, <2>1, <2>2, <2>3, StepWrites
<1>5. CASE /\ mig.at = "plan" /\ Own.planFile = "none" /\ Record([Own EXCEPT !.planFile = "torn"])
           /\ UNCHANGED target
  <2> DEFINE own == [Own EXCEPT !.planFile = "torn"]
  <2>a. Owner \in Sources /\ Own \in Ledgers /\ LedgerOK(Owner, Own)
    BY <1>3, <1>5
  <2>1. /\ own \in Ledgers /\ own.plan = Own.plan /\ own.planFile = "torn"
        /\ own.operation = Own.operation /\ own.receipt = Own.receipt /\ own.rollback = Own.rollback
    BY <2>a, <1>a, PlanFileField
  <2>2. Record(own)
    BY <1>5
  <2> HIDE DEF own
  <2>3. LedgerOK(Owner, own)
    BY <2>a, <1>5, <2>1 DEF LedgerOK
  <2> QED BY <1>1, <2>a, <1>5, <2>1, <2>2, <2>3, StepWrites
<1>6. CASE /\ mig.at = "operation" /\ Own.operation = "none" /\ Record([Own EXCEPT !.operation = "torn"])
           /\ UNCHANGED target
  <2> DEFINE own == [Own EXCEPT !.operation = "torn"]
  <2>a. Owner \in Sources /\ Own \in Ledgers /\ LedgerOK(Owner, Own)
    BY <1>3, <1>6
  <2>1. /\ own \in Ledgers /\ own.plan = Own.plan /\ own.planFile = Own.planFile
        /\ own.operation = "torn" /\ own.receipt = Own.receipt /\ own.rollback = Own.rollback
    BY <2>a, <1>a, OperationField
  <2>2. Record(own) /\ Own.planFile = "whole"
    BY <1>6 DEF Driven
  <2> HIDE DEF own
  <2>3. LedgerOK(Owner, own)
    BY <2>a, <1>6, <2>1, <2>2 DEF LedgerOK
  <2> QED BY <1>1, <2>a, <1>6, <2>1, <2>2, <2>3, StepWrites
<1>7. CASE /\ mig.at = "remove" /\ mig.left = <<>> /\ Record([Own EXCEPT !.rollback = "torn"])
           /\ UNCHANGED target
  <2> DEFINE own == [Own EXCEPT !.rollback = "torn"]
  <2>a. Owner \in Sources /\ Own \in Ledgers /\ LedgerOK(Owner, Own)
    BY <1>3, <1>7
  <2>1. /\ own \in Ledgers /\ own.plan = Own.plan /\ own.planFile = Own.planFile
        /\ own.operation = Own.operation /\ own.receipt = Own.receipt /\ own.rollback = "torn"
    BY <2>a, <1>a, RollbackField
  <2>2. Record(own) /\ Own.receipt = "whole" /\ Owner \in undone
    BY <1>7 DEF Driven
  <2> HIDE DEF own
  <2>3. LedgerOK(Owner, own)
    BY <2>a, <1>7, <2>1, <2>2 DEF LedgerOK
  <2> QED BY <1>1, <2>a, <1>7, <2>1, <2>2, <2>3, StepWrites
<1> QED BY <1>1, <1>2, <1>4, <1>5, <1>6, <1>7 DEF WriteStops

(* Steps that go on with the command, and write one file of its ledger. *)
LEMMA StepsGoOn ==
    ASSUME MigTypes, Driven,
           Recovered \/ WriteMigrationPlan \/ WriteOperation \/ Stage \/ WriteMigrationReceipt
    PROVE  MigStep
<1>1. /\ mig.at \in {"recover", "plan", "operation", "stage", "receipt"}
      /\ UNCHANGED <<dryRuns, undone, target, touched>>
  BY DEF Recovered, WriteMigrationPlan, WriteOperation, Stage, WriteMigrationReceipt
<1>2. /\ mig.kind = "apply" /\ Own.receipt # "whole" /\ Own.rollback = "none" /\ mig.plan \in dryRuns
      /\ Owner \in Sources /\ Own \in Ledgers /\ LedgerOK(Owner, Own) /\ mig.plan \in Plans
  <2>1. mig.kind = "apply" /\ Own.receipt # "whole" /\ Own.rollback = "none"
    BY <1>1, Applying
  <2> QED BY <2>1, OwnerTyped
<1>3. Items(mig.left) \cup Items(mig.created) \subseteq Planned(mig.plan) /\ mig \in Migrations
  BY <1>1 DEF Driven, MigTypes
<1>4. ASSUME NEW own \in Ledgers, LedgerOK(Owner, own), Record(own),
             mig' \in Migrations, mig'.kind = "apply", mig'.plan = mig.plan,
             mig'.at \in {"compare", "operation", "stage", "publish", "done"},
             Items(mig'.left) \cup Items(mig'.created) \subseteq Planned(mig.plan),
             Own.operation = "whole" => own.operation = "whole" /\ own.plan = Own.plan,
             own.receipt = "whole" => mig.at = "receipt" /\ mig'.at = "done",
             own.rollback = "none",
             own.planFile = "whole" => own.plan = mig.plan,
             mig'.at # "compare" => own.planFile = "whole",
             mig'.at \in {"stage", "publish", "done"} => own.operation = "whole"
      PROVE  MigStep
  <2>1. /\ ledgers' \in [Sources -> Ledgers] /\ (\A s \in Sources : LedgerOK(s, ledgers[s]))'
        /\ ledgers'[Owner] = own
    BY <1>1, <1>2, <1>4, LedgerWritten
  <2>2. LedgersMove
    BY <1>1, <1>2, <1>4, LedgerMoves
  <2>3. MigTypes'
    BY <1>1, <1>2, <1>4, <2>1 DEF MigTypes
  <2>4. Owner' = Owner /\ Own' = own
    BY <1>4, <2>1 DEF Owner, Own
  <2>5. Driven'
    BY <1>4, <2>4 DEF Driven
  <2> QED BY <2>2, <2>3, <2>5 DEF MigStep
<1>5. "whole" \in FileStates
  BY DEF FileStates
<1>6. CASE Recovered
  <2> DEFINE own == [Own EXCEPT !.staging = FALSE]
  <2>1. /\ own \in Ledgers /\ own.plan = Own.plan /\ own.planFile = Own.planFile
        /\ own.operation = Own.operation /\ own.receipt = Own.receipt /\ own.rollback = Own.rollback
    BY <1>2, StagingField
  <2>2. Record(own) /\ Goes("compare") /\ mig.at = "recover"
    BY <1>6 DEF Recovered
  <2> HIDE DEF own
  <2>3. LedgerOK(Owner, own)
    BY <1>2, <2>1 DEF LedgerOK
  <2>4. /\ mig' \in Migrations /\ mig'.at = "compare" /\ mig'.kind = mig.kind /\ mig'.plan = mig.plan
        /\ mig'.left = mig.left /\ mig'.created = mig.created
    BY <2>2, Going DEF Steps
  <2>5. Own.planFile = "whole" => Own.plan = mig.plan
    BY <2>2 DEF Driven
  <2> QED BY <1>2, <1>3, <1>4, <2>1, <2>2, <2>3, <2>4, <2>5
<1>7. CASE WriteMigrationPlan
  <2> DEFINE own == [Own EXCEPT !.plan = mig.plan, !.planFile = "whole"]
  <2>1. /\ own \in Ledgers /\ own.plan = mig.plan /\ own.planFile = "whole"
        /\ own.operation = Own.operation /\ own.receipt = Own.receipt /\ own.rollback = Own.rollback
    BY <1>2, <1>5 DEF Ledgers
  <2>2. Record(own) /\ Goes("operation") /\ mig.at = "plan"
    BY <1>7 DEF WriteMigrationPlan
  <2> HIDE DEF own
  <2>3. LedgerOK(Owner, own)
    BY <1>2, <2>1 DEF LedgerOK, Owner
  <2>4. /\ mig' \in Migrations /\ mig'.at = "operation" /\ mig'.kind = mig.kind /\ mig'.plan = mig.plan
        /\ mig'.left = mig.left /\ mig'.created = mig.created
    BY <2>2, Going DEF Steps
  <2>5. Own.operation = "whole" => Own.plan = mig.plan
    BY <1>2, <2>2 DEF Driven, LedgerOK
  <2> QED BY <1>2, <1>3, <1>4, <2>1, <2>2, <2>3, <2>4, <2>5
<1>8. CASE WriteOperation
  <2> DEFINE own == [Own EXCEPT !.operation = "whole"]
  <2>1. /\ own \in Ledgers /\ own.plan = Own.plan /\ own.planFile = Own.planFile
        /\ own.operation = "whole" /\ own.receipt = Own.receipt /\ own.rollback = Own.rollback
    BY <1>2, <1>5, OperationField
  <2>2. Record(own) /\ Goes("stage") /\ mig.at = "operation"
    BY <1>8 DEF WriteOperation
  <2>3. Own.planFile = "whole" /\ Own.plan = mig.plan
    BY <2>2 DEF Driven
  <2> HIDE DEF own
  <2>4. LedgerOK(Owner, own)
    BY <1>2, <2>1, <2>3 DEF LedgerOK
  <2>5. /\ mig' \in Migrations /\ mig'.at = "stage" /\ mig'.kind = mig.kind /\ mig'.plan = mig.plan
        /\ mig'.left = mig.left /\ mig'.created = mig.created
    BY <2>2, Going DEF Steps
  <2> QED BY <1>2, <1>3, <1>4, <2>1, <2>2, <2>3, <2>4, <2>5
<1>9. CASE Stage
  <2> DEFINE own == [Own EXCEPT !.staging = TRUE]
  <2>1. /\ own \in Ledgers /\ own.plan = Own.plan /\ own.planFile = Own.planFile
        /\ own.operation = Own.operation /\ own.receipt = Own.receipt /\ own.rollback = Own.rollback
    BY <1>2, StagingField
  <2>2. /\ Record(own) /\ mig.at = "stage"
        /\ mig' = [mig EXCEPT !.at = "publish", !.left = ToCreate(mig.plan)]
    BY <1>9 DEF Stage
  <2>3. Own.planFile = "whole" /\ Own.plan = mig.plan /\ Own.operation = "whole"
    BY <2>2 DEF Driven
  <2> HIDE DEF own
  <2>4. LedgerOK(Owner, own)
    BY <1>2, <2>1 DEF LedgerOK
  <2>5. ToCreate(mig.plan) \in Seq(TargetFiles) /\ Items(ToCreate(mig.plan)) = Planned(mig.plan)
    BY <1>2, ToCreateLists DEF Planned
  <2>6. /\ mig' \in Migrations /\ mig'.at = "publish" /\ mig'.kind = mig.kind /\ mig'.plan = mig.plan
        /\ mig'.left = ToCreate(mig.plan) /\ mig'.created = mig.created
    BY <1>3, <2>2, <2>5 DEF Migrations, Steps
  <2> QED BY <1>2, <1>3, <1>4, <2>1, <2>2, <2>3, <2>4, <2>5, <2>6
<1>10. CASE WriteMigrationReceipt
  <2> DEFINE own == [Own EXCEPT !.receipt = "whole"]
  <2>1. /\ own \in Ledgers /\ own.plan = Own.plan /\ own.planFile = Own.planFile
        /\ own.operation = Own.operation /\ own.receipt = "whole" /\ own.rollback = Own.rollback
    BY <1>2, <1>5, ReceiptField
  <2>2. Record(own) /\ Goes("done") /\ mig.at = "receipt"
    BY <1>10 DEF WriteMigrationReceipt
  <2>3. Own.planFile = "whole" /\ Own.plan = mig.plan /\ Own.operation = "whole"
    BY <2>2 DEF Driven
  <2> HIDE DEF own
  <2>4. LedgerOK(Owner, own)
    BY <1>2, <2>1, <2>3 DEF LedgerOK
  <2>5. /\ mig' \in Migrations /\ mig'.at = "done" /\ mig'.kind = mig.kind /\ mig'.plan = mig.plan
        /\ mig'.left = mig.left /\ mig'.created = mig.created
    BY <2>2, Going DEF Steps
  <2> QED BY <1>2, <1>3, <1>4, <2>1, <2>2, <2>3, <2>4, <2>5
<1> QED BY <1>6, <1>7, <1>8, <1>9, <1>10

(* Steps that write no ledger. *)
LEMMA StepsAlone ==
    ASSUME MigTypes, ledgers' = ledgers, undone' = undone, dryRuns \subseteq dryRuns', dryRuns' \subseteq Plans,
           mig' \in Migrations, mig'.kind # "none" => mig'.plan \in dryRuns', Driven'
    PROVE  MigStep
BY LedgersAlone DEF MigStep, MigTypes, LedgersMove

LEMMA StepsAside ==
    ASSUME MigTypes, Driven, UNCHANGED <<mig, ledgers, undone>>,
           dryRuns \subseteq dryRuns', dryRuns' \subseteq Plans
    PROVE  MigStep
<1>1. Driven'
  BY DEF Driven, Own, Owner
<1> QED BY <1>1, StepsAlone DEF MigTypes

LEMMA StepUndoes ==
    ASSUME MigTypes, Driven, mig.at \in {"publish", "receipt"}, Undo, UNCHANGED <<ledgers, dryRuns, undone>>
    PROVE  MigStep
<1>1. /\ mig \in Migrations /\ mig.kind = "apply" /\ Own.receipt # "whole" /\ mig.plan \in dryRuns
      /\ Own.planFile = "whole" /\ Own.plan = mig.plan /\ Own.operation = "whole"
      /\ Items(mig.created) \subseteq Planned(mig.plan) /\ dryRuns \subseteq Plans
  BY Applying DEF Driven, MigTypes
<1>2. /\ mig' \in Migrations /\ mig'.at = "undo" /\ mig'.kind = "apply" /\ mig'.plan = mig.plan
      /\ mig'.left = mig.created /\ mig'.created = mig.created
  BY <1>1 DEF Undo, Migrations, Steps
<1>3. Owner' = Owner /\ Own' = Own
  BY <1>2 DEF Owner, Own
<1>4. Driven'
  BY <1>1, <1>2, <1>3 DEF Driven
<1> QED BY <1>1, <1>2, <1>4, StepsAlone

LEMMA StepsTurn ==
    ASSUME MigTypes, Driven, CompareSource \/ VerifyTargets
    PROVE  MigStep
<1>1. /\ mig.at \in {"compare", "publish"} /\ UNCHANGED <<ledgers, dryRuns, undone>>
      /\ mig \in Migrations /\ dryRuns \subseteq Plans
  BY DEF CompareSource, VerifyTargets, MigTypes
<1>2. /\ mig.kind = "apply" /\ Own.receipt # "whole" /\ mig.plan \in dryRuns
      /\ Items(mig.left) \cup Items(mig.created) \subseteq Planned(mig.plan)
  BY <1>1, Applying DEF MigTypes, Driven
<1>3. ASSUME NEW at \in {"plan", "receipt"}, Goes(at), at = "plan" => mig.at = "compare",
             at = "receipt" => mig.at = "publish"
      PROVE  MigStep
  <2>1. /\ mig' \in Migrations /\ mig'.at = at /\ mig'.kind = mig.kind /\ mig'.plan = mig.plan
        /\ mig'.left = mig.left /\ mig'.created = mig.created
    BY <1>3, Going DEF Steps
  <2>2. Owner' = Owner /\ Own' = Own
    BY <1>1, <2>1 DEF Owner, Own
  <2>3. /\ at = "plan" => (Own.planFile = "whole" => Own.plan = mig.plan)
        /\ at = "receipt" => Own.planFile = "whole" /\ Own.plan = mig.plan /\ Own.operation = "whole"
    BY <1>3 DEF Driven
  <2>4. Driven'
    BY <1>2, <2>1, <2>2, <2>3 DEF Driven
  <2> QED BY <1>1, <1>2, <2>1, <2>4, StepsAlone
<1>4. CASE mig' = NoMigration
  BY <1>1, <1>4, StepStops
<1>5. CASE mig.at = "publish" /\ Undo
  BY <1>1, <1>5, StepUndoes
<1>6. CASE mig.at = "compare" /\ Goes("plan")
  BY <1>3, <1>6
<1>7. CASE mig.at = "publish" /\ Goes("receipt")
  BY <1>3, <1>7
<1> QED BY <1>4, <1>5, <1>6, <1>7 DEF CompareSource, VerifyTargets

LEMMA StepsMove ==
    ASSUME MigTypes, Driven, RemoveCreated \/ Publish
    PROVE  MigStep
<1>1. /\ mig.at \in {"recover", "undo", "remove", "publish"} /\ UNCHANGED <<ledgers, dryRuns, undone>>
      /\ mig \in Migrations /\ dryRuns \subseteq Plans /\ mig.left # <<>>
      /\ mig.left \in Seq(TargetFiles) /\ mig.created \in Seq(TargetFiles)
  BY DEF RemoveCreated, Publish, MigTypes, Migrations
<1>2. /\ mig.kind # "none" /\ mig.plan \in dryRuns
      /\ Own.planFile = "whole" /\ Own.plan = mig.plan /\ Own.operation = "whole"
      /\ Items(mig.left) \cup Items(mig.created) \subseteq Planned(mig.plan)
  BY <1>1 DEF MigTypes, Driven
<1>3. ASSUME mig' \in Migrations, mig'.kind = mig.kind, mig'.at = mig.at, mig'.plan = mig.plan,
             Items(mig'.left) \cup Items(mig'.created) \subseteq Planned(mig.plan),
             mig.at = "remove" => Distinct(mig'.left)
      PROVE  MigStep
  <2>1. Owner' = Owner /\ Own' = Own
    BY <1>1, <1>3 DEF Owner, Own
  <2>2. Driven'
    BY <1>1, <1>2, <1>3, <2>1 DEF Driven
  <2> QED BY <1>1, <1>2, <1>3, <2>2, StepsAlone
<1>4. CASE RemoveCreated /\ mig' # NoMigration
  <2> DEFINE rest == SubSeq(mig.left, 1, Len(mig.left) - 1)
  <2>1. mig' = [mig EXCEPT !.left = rest] /\ mig.at # "publish"
    BY <1>4 DEF RemoveCreated
  <2>2. rest \in Seq(TargetFiles) /\ Items(rest) \subseteq Items(mig.left)
    BY <1>1, ItemsLeft
  <2>3. mig.at = "remove" => Distinct(rest)
    BY <1>1, DistinctLeft DEF Driven
  <2> HIDE DEF rest
  <2>4. /\ mig' \in Migrations /\ mig'.kind = mig.kind /\ mig'.at = mig.at /\ mig'.plan = mig.plan
        /\ mig'.left = rest /\ mig'.created = mig.created
    BY <1>1, <2>1, <2>2 DEF Migrations
  <2> QED BY <1>2, <1>3, <2>2, <2>3, <2>4
<1>5. CASE Publish /\ ~Undo
  <2> DEFINE rest == Tail(mig.left)
             more == Append(mig.created, Head(mig.left))
  <2>1. mig' = [mig EXCEPT !.left = rest, !.created = more] /\ mig.at = "publish"
    BY <1>1, <1>5 DEF Publish, Migrations
  <2>2. /\ rest \in Seq(TargetFiles) /\ Items(rest) \subseteq Items(mig.left)
        /\ more \in Seq(TargetFiles) /\ Items(more) \subseteq Items(mig.created) \cup Items(mig.left)
    <3>1. Head(mig.left) \in TargetFiles /\ Head(mig.left) \in Items(mig.left)
      BY <1>1, ItemsLeft
    <3>2. more \in Seq(TargetFiles) /\ Items(more) \subseteq Items(mig.created) \cup {Head(mig.left)}
      BY <1>1, <3>1, ItemsLeft
    <3>3. rest \in Seq(TargetFiles) /\ Items(rest) \subseteq Items(mig.left)
      BY <1>1, ItemsLeft
    <3> QED BY <3>1, <3>2, <3>3
  <2> HIDE DEF rest, more
  <2>3. /\ mig' \in Migrations /\ mig'.kind = mig.kind /\ mig'.at = mig.at /\ mig'.plan = mig.plan
        /\ mig'.left = rest /\ mig'.created = more
    BY <1>1, <2>1, <2>2 DEF Migrations
  <2> QED BY <1>2, <1>3, <2>1, <2>2, <2>3
<1>6. CASE mig' = NoMigration
  BY <1>1, <1>6, StepStops
<1>7. CASE Publish /\ Undo
  BY <1>1, <1>7, StepUndoes DEF Publish
<1> QED BY <1>4, <1>5, <1>6, <1>7

LEMMA StepApplies ==
    ASSUME MigTypes, NEW plan \in dryRuns, ApplyMigration(plan)
    PROVE  MigStep
<1> DEFINE own == ledgers[plan.source]
           list == IF own.operation = "whole" THEN ToCreate(plan) ELSE <<>>
<1>1. /\ plan \in Plans /\ plan.source \in Sources
  BY DEF MigTypes, Plans
<1>2. own \in Ledgers /\ LedgerOK(plan.source, own)
  BY <1>1 DEF MigTypes
<1>3. /\ own.receipt = "none" /\ (own.planFile = "whole" => own.plan = plan)
      /\ mig' = [kind |-> "apply", at |-> "recover", plan |-> plan, created |-> <<>>, left |-> list]
      /\ UNCHANGED <<ledgers, dryRuns, undone>>
  BY DEF ApplyMigration
<1>4. list \in Seq(TargetFiles) /\ Items(list) \subseteq Planned(plan) /\ Items(<<>>) = {}
  <2>1. ToCreate(plan) \in Seq(TargetFiles) /\ Items(ToCreate(plan)) = Planned(plan)
    BY <1>1, ToCreateLists DEF Planned
  <2>2. Items(<<>>) = {}
    BY DEF Items
  <2> QED BY <2>1, <2>2
<1>5. list # <<>> => own.operation = "whole"
  OBVIOUS
<1> HIDE DEF own, list
<1>6. /\ mig' \in Migrations /\ mig'.kind = "apply" /\ mig'.at = "recover" /\ mig'.plan = plan
      /\ mig'.left = list /\ mig'.created = <<>>
  BY <1>1, <1>3, <1>4 DEF Migrations, Steps
<1>7. Owner' = plan.source /\ Own' = own
  BY <1>3, <1>6 DEF Owner, Own, own
<1>8. Driven'
  <2>1. own.operation = "whole" => own.planFile = "whole" /\ own.plan = plan
    BY <1>2, <1>3 DEF LedgerOK
  <2> QED BY <1>3, <1>4, <1>5, <1>6, <1>7, <2>1 DEF Driven
<1> QED BY <1>3, <1>6, <1>8, StepsAlone DEF MigTypes

LEMMA StepRollsBack ==
    ASSUME MigTypes, NEW s \in Sources, RollbackMigration(s)
    PROVE  MigStep /\ Owner' = s /\ mig'.at = "remove" /\ mig'.plan = ledgers[s].plan
           /\ ledgers[s].plan.source = s /\ Items(mig'.left) = Planned(mig'.plan)
<1> DEFINE own == ledgers[s]
           list == ToCreate(own.plan)
<1>1. own \in Ledgers /\ LedgerOK(s, own)
  BY DEF MigTypes
<1>2. /\ own.receipt = "whole" /\ own.operation = "whole" /\ own.rollback = "none"
      /\ mig' = [kind |-> "rollback", at |-> "remove", plan |-> own.plan, created |-> <<>>, left |-> list]
      /\ UNCHANGED <<ledgers, dryRuns>> /\ undone' = undone \cup {s}
  BY DEF RollbackMigration, Receipted
<1>3. own.planFile = "whole" /\ own.plan.source = s /\ own.plan \in dryRuns /\ own.plan \in Plans
  BY <1>1, <1>2 DEF LedgerOK, MigTypes
<1>4. /\ list \in Seq(TargetFiles) /\ Items(list) = Planned(own.plan) /\ Distinct(list)
      /\ Items(<<>>) = {}
  <2>1. ToCreate(own.plan) \in Seq(TargetFiles) /\ Items(ToCreate(own.plan)) = Planned(own.plan)
        /\ Distinct(ToCreate(own.plan))
    BY <1>3, ToCreateLists DEF Planned
  <2>2. Items(<<>>) = {}
    BY DEF Items
  <2> QED BY <2>1, <2>2
<1> HIDE DEF own, list
<1>5. /\ mig' \in Migrations /\ mig'.kind = "rollback" /\ mig'.at = "remove" /\ mig'.plan = own.plan
      /\ mig'.left = list /\ mig'.created = <<>>
  BY <1>2, <1>3, <1>4 DEF Migrations, Steps
<1>6. Owner' = s /\ Own' = own
  BY <1>2, <1>3, <1>5 DEF Owner, Own, own
<1>7. Driven'
  BY <1>2, <1>3, <1>4, <1>5, <1>6 DEF Driven
<1>8. ledgers' \in [Sources -> Ledgers] /\ (\A r \in Sources : LedgerOK(r, ledgers[r]))'
  BY <1>2, LedgersAlone
<1>9. MigTypes'
  BY <1>2, <1>3, <1>5, <1>8 DEF MigTypes
<1>10. LedgersMove
  BY <1>2 DEF LedgersMove
<1> QED BY <1>3, <1>4, <1>5, <1>6, <1>7, <1>9, <1>10 DEF MigStep, own

(* A receipt that is not written, or not synced, is followed by the removal   *)
(* of what the migration created.                                             *)
LEMMA ReceiptFails ==
    ASSUME MigTypes, Driven, mig.at = "receipt", Undo, NEW value \in {"torn", "whole"},
           Record([Own EXCEPT !.receipt = value]), UNCHANGED <<dryRuns, target, touched>>,
           undone' = IF value = "whole" THEN undone \cup {Owner} ELSE undone
    PROVE  MigStep
<1> DEFINE own == [Own EXCEPT !.receipt = value]
<1>1. /\ mig.kind = "apply" /\ Own.receipt # "whole" /\ mig \in Migrations
      /\ Own.planFile = "whole" /\ Own.plan = mig.plan /\ Own.operation = "whole"
      /\ Items(mig.created) \subseteq Planned(mig.plan) /\ dryRuns \subseteq Plans
      /\ Own.rollback = "none"
  BY Applying DEF Driven, MigTypes
<1>2. Owner \in Sources /\ Own \in Ledgers /\ LedgerOK(Owner, Own) /\ mig.plan \in dryRuns
  BY <1>1, OwnerTyped
<1>3. value \in FileStates /\ undone \subseteq undone' /\ (value = "whole" => Owner \in undone')
  BY DEF FileStates
<1>4. /\ own \in Ledgers /\ own.plan = Own.plan /\ own.planFile = Own.planFile
      /\ own.operation = Own.operation /\ own.receipt = value /\ own.rollback = "none"
  BY <1>1, <1>2, <1>3, ReceiptField
<1>5. Record(own)
  OBVIOUS
<1> HIDE DEF own
<1>6. LedgerOK(Owner, own)
  BY <1>1, <1>2, <1>4 DEF LedgerOK
<1>7. /\ ledgers' \in [Sources -> Ledgers] /\ (\A s \in Sources : LedgerOK(s, ledgers[s]))'
      /\ ledgers'[Owner] = own
  BY <1>2, <1>3, <1>4, <1>5, <1>6, LedgerWritten
<1>8. LedgersMove
  BY <1>2, <1>3, <1>4, <1>5, <1>6, LedgerMoves
<1>9. /\ mig' \in Migrations /\ mig'.at = "undo" /\ mig'.kind = "apply" /\ mig'.plan = mig.plan
      /\ mig'.left = mig.created /\ mig'.created = mig.created
  BY <1>1 DEF Undo, Migrations, Steps
<1>10. Owner' = Owner /\ Own' = own
  BY <1>7, <1>9 DEF Owner, Own
<1>11. Driven'
  BY <1>1, <1>3, <1>4, <1>9, <1>10 DEF Driven
<1>12. MigTypes'
  <2>1. undone' \subseteq Sources
    BY <1>2 DEF MigTypes
  <2> QED BY <1>1, <1>2, <1>7, <1>9, <2>1 DEF MigTypes
<1> QED BY <1>8, <1>11, <1>12 DEF MigStep

LEMMA MigrationStep ==
    ASSUME FileTypes, MigTypes, Driven, MigrationNext
    PROVE  MigStep
<1>1. CASE DryRun
  <2>1. PlanNow \in Plans
    BY PlanTyped DEF FileTypes
  <2>2. UNCHANGED <<mig, ledgers, undone>> /\ dryRuns' = dryRuns \cup {PlanNow}
    BY <1>1 DEF DryRun
  <2> QED BY <2>1, <2>2, StepsAside DEF MigTypes
<1>2. ASSUME NEW s \in Sources, SourceChanges(s) PROVE MigStep
  <2>1. UNCHANGED <<mig, ledgers, undone, dryRuns>>
    BY <1>2 DEF SourceChanges
  <2> QED BY <2>1, StepsAside DEF MigTypes
<1>3. ASSUME NEW t \in TargetFiles, Others(t) PROVE MigStep
  <2>1. UNCHANGED <<mig, ledgers, undone, dryRuns>>
    BY <1>3 DEF Others
  <2> QED BY <2>1, StepsAside DEF MigTypes
<1>4. CASE MigrationStops
  <2>1. UNCHANGED <<dryRuns, undone, target, touched>>
    BY <1>4 DEF MigrationStops
  <2>2. CASE mig' = NoMigration /\ UNCHANGED ledgers
    BY <2>1, <2>2, StepStops
  <2>3. CASE mig.at \in {"publish", "receipt"} /\ Undo /\ UNCHANGED ledgers
    BY <2>1, <2>3, StepUndoes
  <2>4. CASE mig.at = "stage" /\ Record([Own EXCEPT !.staging = TRUE]) /\ mig' = NoMigration
    BY <2>1, <2>4, StepsEnd
  <2> QED BY <1>4, <2>2, <2>3, <2>4 DEF MigrationStops
<1>5. CASE WriteStops
  <2>1. CASE mig' = NoMigration
    BY <1>5, <2>1, StepsTear
  <2>2. UNCHANGED <<dryRuns, touched>>
    BY <1>5 DEF WriteStops
  <2>3. CASE mig.at = "publish" /\ Undo /\ UNCHANGED <<ledgers, undone>>
    BY <2>2, <2>3, StepUndoes
  <2>4. CASE /\ mig.at = "receipt" /\ Undo /\ Record([Own EXCEPT !.receipt = "torn"])
             /\ UNCHANGED <<target, undone>>
    BY <2>2, <2>4, ReceiptFails
  <2>5. CASE /\ mig.at = "receipt" /\ Undo /\ Record([Own EXCEPT !.receipt = "whole"])
             /\ undone' = undone \cup {Owner} /\ UNCHANGED target
    BY <2>2, <2>5, ReceiptFails
  <2> QED BY <1>5, <2>1, <2>3, <2>4, <2>5 DEF WriteStops
<1>6. CASE ApplyDone \/ WriteRollback
  BY <1>6, StepsEnd
<1>7. CASE Recovered \/ WriteMigrationPlan \/ WriteOperation \/ Stage \/ WriteMigrationReceipt
  BY <1>7, StepsGoOn
<1>8. CASE CompareSource \/ VerifyTargets
  BY <1>8, StepsTurn
<1>9. CASE RemoveCreated \/ Publish
  BY <1>9, StepsMove
<1>10. ASSUME NEW plan \in dryRuns, ApplyMigration(plan) PROVE MigStep
  BY <1>10, StepApplies
<1>11. ASSUME NEW s \in Sources, RollbackMigration(s) PROVE MigStep
  BY <1>11, StepRollsBack
<1> QED BY <1>1, <1>2, <1>3, <1>4, <1>5, <1>6, <1>7, <1>8, <1>9, <1>10, <1>11 DEF MigrationNext

(* What a step does to the files: others change them, or the migration        *)
(* creates one or removes one.                                                *)
FilesMove ==
    /\ \A t \in TargetFiles : target'[t] # target[t] =>
         \/ trouble' # trouble /\ \A s \in Sources : <<s, t>> \in touched'
         \/ /\ t \in Planned(mig.plan) /\ mig.at = "publish" /\ target[t] = Absent
            /\ target'[t] = Artifact(Owner, t) \/ (target'[t] = Torn /\ trouble' # trouble)
         \/ /\ t \in Planned(mig.plan) /\ mig.at \in {"recover", "undo", "remove"} /\ mig.left # <<>>
            /\ target[t] = Artifact(Owner, t) /\ target'[t] = Absent
    /\ \A s \in Sources, t \in TargetFiles :
         <<s, t>> \in touched /\ <<s, t>> \notin touched' => s = Owner /\ mig.at = "publish"
FileStep == FileTypes' /\ FilesMove

LEMMA TargetSet ==
    ASSUME FileTypes, NEW t \in TargetFiles, NEW file \in FilesAt(t), target' = [target EXCEPT ![t] = file]
    PROVE  /\ target' \in [TargetFiles -> UNION {FilesAt(u) : u \in TargetFiles}]
           /\ \A u \in TargetFiles : target'[u] \in FilesAt(u)
           /\ target'[t] = file /\ \A u \in TargetFiles \ {t} : target'[u] = target[u]
<1>1. file \in UNION {FilesAt(u) : u \in TargetFiles}
  OBVIOUS
<1>2. target \in [TargetFiles -> UNION {FilesAt(u) : u \in TargetFiles}]
  BY DEF FileTypes
<1>3. target' \in [TargetFiles -> UNION {FilesAt(u) : u \in TargetFiles}]
  BY <1>1, <1>2
<1>4. target'[t] = file /\ \A u \in TargetFiles \ {t} : target'[u] = target[u]
  BY <1>2
<1>5. \A u \in TargetFiles : target'[u] \in FilesAt(u)
  BY <1>4 DEF FileTypes
<1> QED BY <1>3, <1>4, <1>5

LEMMA FilesAlone ==
    ASSUME FileTypes, UNCHANGED <<source, target, touched>>
    PROVE  FileStep
BY DEF FileTypes, FileStep, FilesMove

LEMMA FilesDo ==
    ASSUME FaultsTypeOK, FileTypes, MigTypes, Driven, MigrationNext
    PROVE  FileStep
<1>1. /\ trouble \in Nat /\ source \in Sources /\ touched \subseteq Sources \X TargetFiles
  BY FaultsAssumption DEF FaultsTypeOK, FileTypes
<1>2. ASSUME NEW t \in TargetFiles, mig.at # "none" PROVE Artifact(Owner, t) \in FilesAt(t)
  <2>1. Owner \in Sources
    BY <1>2, OwnerTyped DEF Driven
  <2> QED BY <2>1 DEF FilesAt
<1>3. CASE RemoveCreated
  <2> DEFINE t == mig.left[Len(mig.left)]
  <2>1. /\ mig.at \in {"recover", "undo", "remove"} /\ mig.left # <<>> /\ UNCHANGED <<source, touched, trouble>>
        /\ \/ target' = target
           \/ /\ target' = [target EXCEPT ![t] = Absent]
              /\ target[t] = Absent \/ target[t] = Artifact(Owner, t)
    BY <1>3 DEF RemoveCreated, Removable, faultVars
  <2>2. t \in TargetFiles /\ t \in Items(mig.left)
    BY <2>1, ItemsLeft DEF MigTypes, Migrations
  <2>3. t \in Planned(mig.plan)
    BY <2>1, <2>2 DEF Driven
  <2>4. Absent \in FilesAt(t)
    BY DEF FilesAt
  <2> HIDE DEF t
  <2>5. CASE target' = target
    BY <2>1, <2>5, FilesAlone
  <2>6. CASE target' = [target EXCEPT ![t] = Absent] /\ (target[t] = Absent \/ target[t] = Artifact(Owner, t))
    <3>1. /\ target' \in [TargetFiles -> UNION {FilesAt(u) : u \in TargetFiles}]
          /\ \A u \in TargetFiles : target'[u] \in FilesAt(u)
          /\ target'[t] = Absent /\ \A u \in TargetFiles \ {t} : target'[u] = target[u]
      BY <2>2, <2>4, <2>6, TargetSet
    <3>2. FileTypes'
      BY <1>1, <2>1, <3>1 DEF FileTypes
    <3>3. FilesMove
      BY <2>1, <2>3, <2>6, <3>1 DEF FilesMove
    <3> QED BY <3>2, <3>3 DEF FileStep
  <2> QED BY <2>1, <2>5, <2>6
<1>4. ASSUME mig.at = "publish", mig.left # <<>>, target[Head(mig.left)] = Absent, UNCHANGED <<source, touched>>,
             NEW file \in {Torn, Artifact(Owner, Head(mig.left))}, file = Torn => trouble' # trouble,
             target' = [target EXCEPT ![Head(mig.left)] = file]
      PROVE  FileStep
  <2> DEFINE t == Head(mig.left)
  <2>1. t \in TargetFiles /\ t \in Items(mig.left)
    BY <1>4, ItemsLeft DEF MigTypes, Migrations
  <2>2. t \in Planned(mig.plan)
    BY <1>4, <2>1 DEF Driven
  <2>3. file \in FilesAt(t)
    BY <1>2, <1>4, <2>1 DEF FilesAt
  <2>4. target[t] = Absent /\ target' = [target EXCEPT ![t] = file] /\ file \in {Torn, Artifact(Owner, t)}
    BY <1>4
  <2> HIDE DEF t
  <2>5. /\ target' \in [TargetFiles -> UNION {FilesAt(u) : u \in TargetFiles}]
        /\ \A u \in TargetFiles : target'[u] \in FilesAt(u)
        /\ target'[t] = file /\ \A u \in TargetFiles \ {t} : target'[u] = target[u]
    BY <2>1, <2>3, <2>4, TargetSet
  <2>6. FileTypes'
    BY <1>1, <1>4, <2>5 DEF FileTypes
  <2>7. FilesMove
    BY <1>4, <2>2, <2>4, <2>5 DEF FilesMove
  <2> QED BY <2>6, <2>7 DEF FileStep
<1>5. CASE Publish
  <2>1. CASE target' = target
    BY <1>5, <2>1, FilesAlone DEF Publish
  <2>2. CASE target[Head(mig.left)] = Absent
    <3> DEFINE file == Artifact(Owner, Head(mig.left))
    <3>1. /\ mig.at = "publish" /\ mig.left # <<>> /\ UNCHANGED <<source, touched>>
          /\ target' = [target EXCEPT ![Head(mig.left)] = file]
      BY <1>5, <2>2 DEF Publish
    <3>2. file # Torn
      BY DEF Artifact, Torn
    <3> QED BY <1>4, <2>2, <3>1, <3>2
  <2> QED BY <1>5, <2>1, <2>2 DEF Publish
<1>6. CASE WriteStops
  <2>1. trouble' # trouble /\ UNCHANGED <<source, touched>>
    BY <1>1, <1>6 DEF WriteStops, Trouble
  <2>2. CASE target' = target
    BY <2>1, <2>2, FilesAlone
  <2>3. CASE /\ mig.at = "publish" /\ mig.left # <<>> /\ target[Head(mig.left)] = Absent
             /\ \E file \in {Torn, Artifact(Owner, Head(mig.left))} :
                  target' = [target EXCEPT ![Head(mig.left)] = file]
    BY <1>4, <2>1, <2>3
  <2> QED BY <1>6, <2>2, <2>3 DEF WriteStops
<1>7. ASSUME NEW t \in TargetFiles, Others(t) PROVE FileStep
  <2>1. PICK file \in {Absent, Foreign, Artifact(source, t)} \ {target[t]} : target' = [target EXCEPT ![t] = file]
    BY <1>7 DEF Others
  <2>2. trouble' # trouble /\ touched' = touched \cup (Sources \X {t}) /\ source' = source
    BY <1>1, <1>7 DEF Others, Trouble
  <2>3. file \in FilesAt(t)
    BY <1>1, <2>1 DEF FilesAt
  <2>4. /\ target' \in [TargetFiles -> UNION {FilesAt(u) : u \in TargetFiles}]
        /\ \A u \in TargetFiles : target'[u] \in FilesAt(u)
        /\ \A u \in TargetFiles \ {t} : target'[u] = target[u]
    BY <2>1, <2>3, TargetSet
  <2>5. FileTypes'
    BY <1>1, <2>2, <2>4 DEF FileTypes
  <2>6. FilesMove
    BY <2>2, <2>4 DEF FilesMove
  <2> QED BY <2>5, <2>6 DEF FileStep
<1>8. ASSUME NEW s \in Sources, SourceChanges(s) PROVE FileStep
  <2>1. source' = s /\ UNCHANGED <<target, touched>>
    BY <1>8 DEF SourceChanges
  <2> QED BY <1>8, <2>1 DEF FileStep, FileTypes, FilesMove
<1>9. CASE VerifyTargets
  <2>1. mig.at = "publish" /\ UNCHANGED <<source, target>>
        /\ touched' \in {touched, touched \ ({Owner} \X TargetFiles)}
    BY <1>9 DEF VerifyTargets
  <2>2. touched' \subseteq touched /\ \A s \in Sources, t \in TargetFiles :
          <<s, t>> \in touched /\ <<s, t>> \notin touched' => s = Owner
    BY <2>1
  <2> QED BY <1>1, <2>1, <2>2 DEF FileStep, FileTypes, FilesMove
<1>10. CASE \/ DryRun \/ Recovered \/ CompareSource \/ WriteMigrationPlan \/ WriteOperation
            \/ Stage \/ WriteMigrationReceipt \/ ApplyDone \/ WriteRollback \/ MigrationStops
  BY <1>10, FilesAlone DEF DryRun, Recovered, CompareSource, WriteMigrationPlan, WriteOperation,
              Stage, WriteMigrationReceipt, ApplyDone, WriteRollback, MigrationStops
<1>11. ASSUME NEW plan \in dryRuns, ApplyMigration(plan) PROVE FileStep
  BY <1>11, FilesAlone DEF ApplyMigration
<1>12. ASSUME NEW s \in Sources, RollbackMigration(s) PROVE FileStep
  BY <1>12, FilesAlone DEF RollbackMigration
<1> QED BY <1>3, <1>5, <1>6, <1>7, <1>8, <1>9, <1>10, <1>11, <1>12 DEF MigrationNext

(* The artifacts of two migrations that hold one file are the same. *)
LEMMA SharedStays ==
    ASSUME MigTypes, LedgersMove, NEW s \in Sources, NEW t \in TargetFiles, ~Shared(s, t)'
    PROVE  ~Shared(s, t)
BY DEF MigTypes, LedgersMove, Shared

LEMMA SharedByOwner ==
    ASSUME MigTypes, Driven, NEW s \in Sources, NEW t \in TargetFiles, ~Shared(s, t),
           t \in Planned(mig.plan), s # Owner,
           mig.at \in {"publish", "undo", "remove"} \/ (mig.at = "recover" /\ mig.left # <<>>)
    PROVE  Artifact(Owner, t) # Artifact(s, t)
<1>1. Owner \in Sources
  BY OwnerTyped DEF Driven
<1>2. Own.operation = "whole" /\ Own.plan = mig.plan
  BY DEF Driven
<1> QED BY <1>1, <1>2 DEF Shared, Planned, Own

(* Receipts go on telling the truth. *)
LEMMA ReceiptsTellOn ==
    ASSUME FileTypes, MigTypes, Driven, Standing, ReceiptsTell, MigTypes', LedgersMove, FilesMove,
           undone \subseteq undone'
    PROVE  ReceiptsTell'
<1> SUFFICES ASSUME NEW s \in Sources, NEW t \in TargetFiles,
                    t \in TargetsOf(s), <<s, t>> \notin touched', ~Shared(s, t)'
             PROVE  /\ Receipted(s)' /\ s \notin undone' => target'[t] = Artifact(s, t)
                    /\ ledgers'[s].rollback = "whole" =>
                         (target'[t] = Artifact(s, t) <=> ledgers'[s].plan.disposition[t] # "absent")
  BY DEF ReceiptsTell
<1>1. ~Shared(s, t) /\ s \in Sources /\ t \in TargetFiles
  BY SharedStays
<1>2. LedgerOK(s, ledgers[s]) /\ LedgerOK(s, ledgers[s])' /\ ledgers[s] \in Ledgers
  BY DEF MigTypes, LedgerOK
<1>3. /\ ledgers[s].receipt = "whole" => ledgers[s].operation = "whole"
      /\ ledgers[s].rollback # "none" => ledgers[s].receipt = "whole"
      /\ ledgers'[s].rollback # "none" => ledgers'[s].receipt = "whole"
  BY <1>2 DEF LedgerOK
<1>4. s = Owner => ledgers[s] = Own
  BY DEF Own
<1>5. CASE <<s, t>> \in touched
  <2>1. s = Owner /\ mig.at = "publish"
    BY <1>5 DEF FilesMove
  <2>2. ledgers[s].receipt # "whole"
    BY <1>4, <2>1, Applying
  <2>3. ledgers'[s].receipt # "whole"
    BY <2>1, <2>2 DEF LedgersMove
  <2> QED BY <1>3, <2>3 DEF Receipted
<1>6. CASE <<s, t>> \notin touched
  <2>1. ASSUME target'[t] # target[t]
        PROVE  /\ t \in Planned(mig.plan)
               /\ \/ /\ mig.at = "publish" /\ target[t] = Absent
                     /\ target'[t] = Artifact(Owner, t) \/ target'[t] = Torn
                  \/ /\ mig.at \in {"recover", "undo", "remove"} /\ mig.left # <<>>
                     /\ target[t] = Artifact(Owner, t) /\ target'[t] = Absent
    BY <2>1 DEF FilesMove
  <2>2. Artifact(s, t) # Absent /\ Artifact(s, t) # Torn
    BY DEF Artifact, Absent, Torn
  <2>3. ASSUME target'[t] # target[t], s # Owner
        PROVE  target'[t] # Artifact(s, t) /\ target[t] # Artifact(s, t)
    <3>1. Artifact(Owner, t) # Artifact(s, t)
      BY <1>1, <2>1, <2>3, SharedByOwner
    <3> QED BY <2>1, <2>2, <2>3, <3>1
  <2>4. ASSUME target'[t] # target[t], s = Owner
        PROVE  /\ ledgers[s].rollback = "none"
               /\ ledgers[s].receipt = "whole" => s \in undone
    <3>1. CASE mig.at = "remove"
      BY <1>4, <2>4, <3>1 DEF Driven
    <3>2. CASE mig.at # "remove" /\ ledgers[s].receipt # "whole"
      BY <1>2, <1>3, <3>2 DEF Ledgers, FileStates
    <3>3. CASE mig.at # "remove" /\ ledgers[s].receipt = "whole"
      <4>1. mig.at = "undo"
        BY <1>4, <2>1, <2>4, <3>3, Applying
      <4> QED BY <1>4, <2>4, <3>3, <4>1 DEF Driven
    <3> QED BY <3>1, <3>2, <3>3
  <2>5. ASSUME Receipted(s)', s \notin undone'
        PROVE  target'[t] = Artifact(s, t)
    <3>1. CASE ledgers[s].receipt = "whole"
      <4>1. target[t] = Artifact(s, t)
        BY <1>1, <1>3, <1>6, <2>5, <3>1 DEF ReceiptsTell, Receipted
      <4> QED BY <2>3, <2>4, <2>5, <3>1, <4>1
    <3>2. CASE ledgers[s].receipt # "whole"
      <4>1. s = Owner /\ mig.at = "receipt" /\ target' = target
        BY <2>5, <3>2 DEF LedgersMove, Receipted
      <4> QED BY <1>6, <4>1 DEF Standing
    <3> QED BY <3>1, <3>2
  <2>6. ASSUME ledgers'[s].rollback = "whole"
        PROVE  target'[t] = Artifact(s, t) <=> ledgers'[s].plan.disposition[t] # "absent"
    <3>1. CASE ledgers[s].rollback = "whole"
      <4>1. ledgers'[s].plan = ledgers[s].plan
        BY <1>3, <3>1 DEF LedgersMove
      <4>2. target[t] = Artifact(s, t) <=> ledgers[s].plan.disposition[t] # "absent"
        BY <1>1, <1>6, <3>1 DEF ReceiptsTell
      <4>3. target'[t] = Artifact(s, t) <=> target[t] = Artifact(s, t)
        BY <2>3, <2>4, <3>1
      <4> QED BY <4>1, <4>2, <4>3
    <3>2. CASE ledgers[s].rollback # "whole"
      <4>1. s = Owner /\ mig.at = "remove" /\ mig.left = <<>> /\ target' = target
        BY <2>6, <3>2 DEF LedgersMove
      <4>2. Own.plan = mig.plan /\ Own.operation = "whole"
        BY <4>1 DEF Driven
      <4>3. ledgers'[s].plan = mig.plan
        BY <1>4, <4>1, <4>2 DEF LedgersMove
      <4>4. t \notin Items(mig.left)
        BY <4>1 DEF Items
      <4>5. target[t] = IF t \in Planned(mig.plan) THEN Absent ELSE Artifact(s, t)
        BY <1>6, <4>1, <4>4 DEF Standing
      <4> QED BY <2>2, <4>1, <4>3, <4>5 DEF Planned
    <3> QED BY <3>1, <3>2
  <2> QED BY <2>5, <2>6
<1> QED BY <1>5, <1>6

(* What was verified goes on standing. *)
LEMMA StandingOn ==
    ASSUME FileTypes, MigTypes, Driven, Standing, MigrationNext
    PROVE  Standing'
<1>1. CASE mig'.at \notin {"receipt", "remove"}
  BY <1>1 DEF Standing
<1>2. CASE UNCHANGED <<mig, target, touched>>
  BY <1>2 DEF Standing, Owner
<1>3. \A s : TargetsOf(s) \subseteq TargetFiles
  BY DEF TargetsOf, TargetFiles
<1>4. CASE mig' = NoMigration
  BY <1>1, <1>4 DEF NoMigration
<1>5. CASE DryRun \/ \E s \in Sources : SourceChanges(s)
  BY <1>2, <1>5 DEF DryRun, SourceChanges
<1>6. ASSUME NEW t \in TargetFiles, Others(t) PROVE Standing'
  <2>1. CASE mig.at \notin {"receipt", "remove"}
    BY <1>1, <1>6, <2>1 DEF Others
  <2>2. CASE mig.at \in {"receipt", "remove"}
    <3>1. Owner \in Sources
      BY <2>2, OwnerTyped DEF Driven
    <3>2. /\ mig' = mig /\ touched' = touched \cup (Sources \X {t})
          /\ \E file : target' = [target EXCEPT ![t] = file]
      BY <1>6 DEF Others
    <3>3. \A u \in TargetFiles \ {t} : target'[u] = target[u]
      BY <3>2 DEF FileTypes
    <3>4. Owner' = Owner
      BY <3>2 DEF Owner
    <3>5. ASSUME NEW u \in TargetsOf(Owner), <<Owner, u>> \notin touched'
          PROVE  u \in TargetFiles /\ target'[u] = target[u] /\ <<Owner, u>> \notin touched
      BY <1>3, <3>1, <3>2, <3>3, <3>5
    <3> QED BY <3>2, <3>4, <3>5 DEF Standing
  <2> QED BY <2>1, <2>2
<1>7. CASE RemoveCreated /\ mig' # NoMigration
  <2> DEFINE t == mig.left[Len(mig.left)]
             rest == SubSeq(mig.left, 1, Len(mig.left) - 1)
  <2>1. /\ mig.left # <<>> /\ mig' = [mig EXCEPT !.left = rest] /\ touched' = touched
        /\ target' = [target EXCEPT ![t] = Absent]
    BY <1>7 DEF RemoveCreated
  <2>2. mig \in Migrations /\ mig.left \in Seq(TargetFiles)
    BY DEF MigTypes, Migrations
  <2>3. t \in TargetFiles /\ t \in Items(mig.left)
    BY <2>1, <2>2, ItemsLeft
  <2>4. mig.at = "remove" => Items(rest) = Items(mig.left) \ {t}
    BY <2>1, <2>2, DistinctLeft DEF Driven
  <2>5. mig.at = "remove" => t \in Planned(mig.plan)
    BY <2>3 DEF Driven
  <2> HIDE DEF t, rest
  <2>6. mig'.at = mig.at /\ mig'.plan = mig.plan /\ mig'.left = rest
    BY <2>1, <2>2 DEF Migrations
  <2>7. target'[t] = Absent /\ \A u \in TargetFiles \ {t} : target'[u] = target[u]
    BY <2>1, <2>3 DEF FileTypes
  <2>8. Owner' = Owner
    BY <2>6 DEF Owner
  <2>9. mig.at # "receipt"
    BY <1>7 DEF RemoveCreated
  <2> QED BY <1>3, <2>1, <2>4, <2>5, <2>6, <2>7, <2>8, <2>9 DEF Standing
<1>8. CASE VerifyTargets
  <2>1. CASE Verified(mig.plan) /\ Goes("receipt") /\ target' = target
    <3>1. mig'.at = "receipt" /\ mig'.plan = mig.plan
      BY <2>1, Going DEF Steps
    <3> QED BY <2>1, <3>1 DEF Standing, Verified, Owner
  <2>2. CASE Undo
    <3>1. mig'.at = "undo"
      BY <2>2 DEF Undo, MigTypes, Migrations
    <3> QED BY <1>1, <3>1
  <2> QED BY <1>8, <2>1, <2>2 DEF VerifyTargets
<1>9. ASSUME NEW s \in Sources, RollbackMigration(s) PROVE Standing'
  <2>1. /\ Owner' = s /\ mig'.at = "remove" /\ mig'.plan = ledgers[s].plan
        /\ ledgers[s].plan.source = s /\ Items(mig'.left) = Planned(mig'.plan)
    BY <1>9, StepRollsBack
  <2>2. Verified(ledgers[s].plan) /\ target' = target
    BY <1>9 DEF RollbackMigration
  <2> QED BY <2>1, <2>2 DEF Standing, Verified
<1>10. ASSUME NEW at \in Steps \ {"receipt", "remove"}, Goes(at) PROVE Standing'
  BY <1>1, <1>10, Going
<1>11. CASE Recovered \/ WriteMigrationPlan \/ WriteOperation \/ WriteMigrationReceipt
  BY <1>10, <1>11 DEF Recovered, WriteMigrationPlan, WriteOperation, WriteMigrationReceipt, Steps
<1>12. CASE CompareSource
  BY <1>4, <1>10, <1>12 DEF CompareSource, Steps
<1>13. CASE Stage
  <2>1. mig'.at = "publish"
    BY <1>13 DEF Stage, MigTypes, Migrations
  <2> QED BY <1>1, <2>1
<1>14. CASE Publish
  <2>1. mig'.at \in {"publish", "undo"}
    BY <1>14 DEF Publish, Undo, MigTypes, Migrations
  <2> QED BY <1>1, <2>1
<1>15. CASE ApplyDone \/ WriteRollback
  BY <1>4, <1>15 DEF ApplyDone, WriteRollback
<1>16. CASE MigrationStops \/ WriteStops
  <2>1. CASE Undo
    <3>1. mig'.at = "undo"
      BY <2>1 DEF Undo, MigTypes, Migrations
    <3> QED BY <1>1, <3>1
  <2> QED BY <1>4, <1>16, <2>1 DEF MigrationStops, WriteStops
<1>17. ASSUME NEW plan \in dryRuns, ApplyMigration(plan) PROVE Standing'
  <2>1. mig'.at = "recover"
    BY <1>17 DEF ApplyMigration
  <2> QED BY <1>1, <2>1
<1> QED BY <1>4, <1>5, <1>6, <1>7, <1>8, <1>9, <1>11, <1>12, <1>13, <1>14, <1>15, <1>16, <1>17
           DEF MigrationNext

LEMMA OwnFilesOnly ==
    ASSUME Driven, FilesMove
    PROVE  TouchesOnlyItsOwn
<1> SUFFICES ASSUME NEW t \in TargetFiles, target'[t] # target[t], trouble' = trouble
             PROVE  /\ Own.planFile = "whole" /\ Own.operation = "whole"
                    /\ Own.plan.disposition[t] = "absent"
                    /\ {target[t], target'[t]} = {Absent, Artifact(Owner, t)}
  BY DEF TouchesOnlyItsOwn
<1>1. /\ t \in Planned(mig.plan) /\ {target[t], target'[t]} = {Absent, Artifact(Owner, t)}
      /\ mig.at \in {"publish", "undo", "remove"} \/ (mig.at = "recover" /\ mig.left # <<>>)
  <2>1. \/ /\ t \in Planned(mig.plan) /\ mig.at = "publish"
           /\ target[t] = Absent /\ target'[t] = Artifact(Owner, t)
        \/ /\ t \in Planned(mig.plan) /\ mig.at \in {"recover", "undo", "remove"} /\ mig.left # <<>>
           /\ target[t] = Artifact(Owner, t) /\ target'[t] = Absent
    BY DEF FilesMove
  <2> QED BY <2>1
<1>2. Own.planFile = "whole" /\ Own.operation = "whole" /\ Own.plan = mig.plan
  BY <1>1 DEF Driven
<1> QED BY <1>1, <1>2 DEF Planned

(* What is published of a turn holds no secret and no outcome of its own. *)
LEMMA NothingIsInvented == NothingInvented
<1>1. \A text : Without(text) # "secret"
  BY DEF Without
<1> SUFFICES ASSUME NEW s \in Sources, target["sessions"] = Artifact(s, "sessions"),
                    NEW turn \in target["sessions"][3]
             PROVE  /\ "secret" \notin {turn.user, turn.answer, turn.tool.arguments, turn.tool.output}
                    /\ turn.tool.result = "succeeded" => s.turn.outcome = "completed"
                    /\ turn.status # "running"
  BY DEF NothingInvented
<1>2. target["sessions"][3] = NormalSessions(s.turn)
  BY DEF Artifact
<1>3. turn = NormalTurn(s.turn) /\ s.turn.user # "secret"
  BY <1>2 DEF NormalSessions
<1>4. turn.user # "secret" /\ turn.answer # "secret" /\ turn.status # "running" /\ turn.tool = NormalTool(s.turn)
  <2>1. turn.user = s.turn.user /\ turn.tool = NormalTool(s.turn)
    BY <1>3 DEF NormalTurn
  <2>2. turn.status = IF s.turn.status = "running" THEN "interrupted" ELSE s.turn.status
    BY <1>3 DEF NormalTurn
  <2>3. \E text : turn.answer = Without(text)
    BY <1>3 DEF NormalTurn
  <2> QED BY <1>1, <1>3, <2>1, <2>2, <2>3
<1>5. turn.tool.arguments # "secret" /\ turn.tool.output # "secret"
  BY <1>1, <1>4 DEF NormalTool
<1>6. turn.tool.result = "succeeded" => s.turn.outcome = "completed"
  BY <1>4 DEF NormalTool
<1> QED BY <1>4, <1>5, <1>6

LEMMA MigHolds ==
    ASSUME MigInv, [UpkeepNext]_allVars
    PROVE  MigInv' /\ [TouchesOnlyItsOwn]_migVars
<1>1. FaultsTypeOK'
  BY FaultsKept DEF MigInv
<1>2. CASE MigrationNext
  <2>1. MigTypes' /\ Driven' /\ LedgersMove
    BY <1>2, MigrationStep DEF MigInv, MigStep
  <2>2. FileTypes' /\ FilesMove
    BY <1>2, FilesDo DEF MigInv, FileStep
  <2>3. Standing'
    BY <1>2, StandingOn DEF MigInv
  <2>4. undone \subseteq undone'
    <3>1. CASE \E s \in Sources : RollbackMigration(s)
      BY <3>1 DEF RollbackMigration
    <3>2. CASE undone' = undone
      BY <3>2
    <3>3. CASE \/ DryRun \/ RemoveCreated \/ Recovered \/ CompareSource \/ WriteMigrationPlan \/ WriteOperation
               \/ Stage \/ Publish \/ VerifyTargets \/ WriteMigrationReceipt \/ ApplyDone \/ WriteRollback
      BY <3>3 DEF DryRun, RemoveCreated, Recovered, CompareSource, WriteMigrationPlan, WriteOperation,
                  Stage, Publish, VerifyTargets, WriteMigrationReceipt, ApplyDone, WriteRollback
    <3>4. CASE WriteStops
      BY <3>4 DEF WriteStops
    <3>5. CASE \/ MigrationStops \/ (\E plan \in dryRuns : ApplyMigration(plan))
               \/ (\E s \in Sources : SourceChanges(s)) \/ (\E t \in TargetFiles : Others(t))
      BY <3>5 DEF MigrationStops, ApplyMigration, SourceChanges, Others
    <3> QED BY <1>2, <3>1, <3>3, <3>4, <3>5 DEF MigrationNext
  <2>5. ReceiptsTell'
    BY <2>1, <2>2, <2>4, ReceiptsTellOn DEF MigInv
  <2>6. TouchesOnlyItsOwn
    BY <2>2, OwnFilesOnly DEF MigInv
  <2> QED BY <1>1, <2>1, <2>2, <2>3, <2>5, <2>6 DEF MigInv
<1>3. CASE UNCHANGED migVars
  <2>1. UNCHANGED <<source, target, dryRuns, ledgers, mig, touched, undone>>
    BY <1>3 DEF migVars
  <2>2. FileTypes' /\ MigTypes'
    BY <2>1 DEF MigInv, FileTypes, MigTypes, LedgerOK
  <2>3. Driven' /\ Standing'
    BY <2>1 DEF MigInv, Driven, Standing, Own, Owner
  <2>4. ReceiptsTell'
    BY <2>1 DEF MigInv, ReceiptsTell, Receipted, Shared
  <2> QED BY <1>1, <1>3, <2>2, <2>3, <2>4 DEF MigInv
<1> QED BY <1>2, <1>3 DEF UpkeepNext, allVars

LEMMA MigStarts == UpkeepInit => MigInv
<1> SUFFICES ASSUME UpkeepInit PROVE MigInv
  OBVIOUS
<1>1. FaultsTypeOK
  BY GcStarts DEF GcInv
<1>2. /\ source \in Sources /\ target = [t \in TargetFiles |-> Absent] /\ dryRuns = {}
      /\ ledgers = [s \in Sources |-> NoLedger] /\ mig = NoMigration /\ touched = {} /\ undone = {}
  BY DEF UpkeepInit, MigrationInit
<1>3. /\ NoLedger \in Ledgers /\ NoLedger.planFile = "none" /\ NoLedger.operation = "none"
      /\ NoLedger.receipt = "none" /\ NoLedger.rollback = "none"
  BY DEF NoLedger, Ledgers, FileStates
<1>4. NoMigration \in Migrations /\ NoMigration.kind = "none" /\ NoMigration.at = "none"
  BY DEF NoMigration, Migrations, Steps
<1>5. FileTypes
  <2>1. \A t \in TargetFiles : target[t] = Absent /\ Absent \in FilesAt(t)
    BY <1>2 DEF FilesAt
  <2>2. \A t \in TargetFiles : Absent \in UNION {FilesAt(u) : u \in TargetFiles}
    BY <2>1
  <2>3. target \in [TargetFiles -> UNION {FilesAt(u) : u \in TargetFiles}]
    BY <1>2, <2>2
  <2> QED BY <1>2, <2>1, <2>3 DEF FileTypes
<1>6. MigTypes
  BY <1>2, <1>3, <1>4 DEF MigTypes, LedgerOK
<1>7. Driven /\ Standing
  BY <1>2, <1>4 DEF Driven, Standing
<1>8. ReceiptsTell
  BY <1>2, <1>3 DEF ReceiptsTell, Receipted
<1> QED BY <1>1, <1>5, <1>6, <1>7, <1>8 DEF MigInv

(* A migration touches only files that are its own, and its receipts tell     *)
(* where the files are, over crashes, retries, rollbacks and files others     *)
(* have changed: apply_migration, recover_interrupted and rollback_migration  *)
(* of cli/src/migration.rs.                                                   *)
THEOREM MigrationIsHonest == UpkeepSpec => MigrationHonest
<1>1. MigInv /\ [UpkeepNext]_allVars => MigInv' /\ [TouchesOnlyItsOwn]_migVars
  BY MigHolds
<1>2. MigInv => ReceiptsTell /\ NothingInvented
  BY NothingIsInvented DEF MigInv
<1>3. UpkeepSpec => [][TouchesOnlyItsOwn]_migVars /\ [](ReceiptsTell /\ NothingInvented)
  BY <1>1, <1>2, MigStarts, PTL DEF UpkeepSpec
<1> QED BY <1>3 DEF MigrationHonest

(* Whatever comes between two steps of a command, its files hold what the     *)
(* next one can read: gc.rs, raw.rs and inbox.rs of vault, and migration.rs.  *)
THEOREM UpkeepIsTyped == UpkeepSpec => []UpkeepTypeOK
<1>1. GcInv /\ IntakeInv /\ MigInv /\ [UpkeepNext]_allVars => (GcInv /\ IntakeInv /\ MigInv)'
  BY GcHolds, IntakeHolds, MigHolds
<1>2. GcInv /\ IntakeInv /\ MigInv => UpkeepTypeOK
  BY MigrationTypes DEF GcInv, IntakeInv, MigInv, UpkeepTypeOK
<1> QED BY <1>1, <1>2, GcStarts, IntakeStarts, MigStarts, PTL DEF UpkeepSpec
=============================================================================
