--------------------------- MODULE ShellHost_proofs ---------------------------
(***************************************************************************)
(* Proofs about ShellHost, for every number of pids, births and errors:    *)
(* what the host has confirmed to be gone is gone, although it reads the   *)
(* process table one entry at a time, and it signals nobody else.          *)
(***************************************************************************)
EXTENDS ShellHost, WellFoundedInduction, TLAPS

Used(p) == table[p].is # "free"

(* Who is not init's is the session's.  While the host lives, each process of *)
(* the session is the host's child or has an older live process of the        *)
(* session for a parent: orphans never get away from the subreaper.           *)
Rooted(p) ==
    \/ table[p].parent = Host
    \/ /\ table[p].parent \in Pids
       /\ table[table[p].parent].is = "live" /\ table[table[p].parent].ours
       /\ table[table[p].parent].born < table[p].born
Family ==
    \A p \in Pids :
        /\ table[p].born <= births
        /\ Used(p) /\ table[p].parent # Outside => table[p].ours
        /\ HostAlive /\ Used(p) /\ table[p].ours => Rooted(p)

(* The command is spawned only after the parent has sent it, and the parent   *)
(* kills the host only before.                                                *)
Handshake ==
    /\ parent.at \in {"accept", "contained", "killing"} => ~parent.sent
    /\ parent.at \in {"ready", "running", "stopping", "confirmed", "lost"} => parent.sent
    /\ ~parent.sent => /\ \A i \in DOMAIN toHost : toHost[i] # "Command"
                       /\ host.at \in {"activate", "preflight", "command", "gone", "killed"}
    /\ ~parent.sent \/ host.at \in {"activate", "preflight", "command", "spawn"} => Running = {}
    /\ parent.at = "failed" /\ ~parent.sent => ~HostAlive

(* A confirmation under way, or received, is true. *)
Confirmed ==
    (\E i \in DOMAIN toParent : toParent[i] = "Done") \/ parent.at = "confirmed" =>
        host.at = "gone" /\ Running = {}

(* A scan does not pass by a session that lives: a child of the host has been *)
(* read, or still stands where the scan has yet to come.                      *)
Watched ==
    host.at = "scan" =>
        \/ Running = {}
        \/ \E e \in scan.seen : e.parent = Host
        \/ \E p \in Pids : p >= scan.next /\ Used(p) /\ table[p].parent = Host

(* The process p that was born as number b is the session's, or gone for good. *)
Holds(p, b) == Used(p) /\ table[p].born = b
Mine(p, b) == b <= births /\ (Holds(p, b) => table[p].ours)

(* The signals of an attempt are meant for the session's processes; a pidfd   *)
(* was opened on the one that is meant, or that one is gone for good.         *)
Aimed ==
    /\ \A e \in scan.seen : e.parent # Outside => Mine(e.pid, e.born)
    /\ \A i \in scan.todo : Mine(i.pid, i.born)
    /\ \A f \in scan.fd, g \in scan.fd : f = g
    /\ \A f \in scan.fd, i \in scan.todo :
         i.pid = f.pid => i.born = f.born \/ ~Holds(i.pid, i.born)
    /\ \A f \in scan.fd : f.born <= births /\ (scan.checked => Mine(f.pid, f.born))

(* The inductive invariant.  That nothing is left when the host has finished  *)
(* rests on what its last scan may have missed, and that on who is whose      *)
(* child; NeverStrays rests on who has been seen under which number.          *)
IInv == TypeOK /\ Family /\ Handshake /\ Confirmed /\ Watched /\ Aimed /\ NeverStrays

-----------------------------------------------------------------------------
(* The process table. *)

LEMMA Tables ==
    ASSUME TypeOK
    PROVE  /\ table \in [Pids -> Entry] /\ births \in Nat /\ MaxPid \in Nat /\ MaxPid > 0
           /\ Host \notin Pids /\ Outside \notin Pids /\ Host # Outside
           /\ \A p \in Pids : /\ table[p].is \in {"free", "live", "zombie"}
                              /\ table[p].born \in Nat /\ table[p].ours \in BOOLEAN
                              /\ table[p].parent \in Pids \cup {Host, Outside}
           /\ Free \in Entry /\ Free.is = "free" /\ Free.parent = Outside
           /\ Free.born = 0 /\ ~Free.ours
<1>1. /\ MaxPid \in Nat /\ MaxPid > 0 /\ MaxBirths \in Nat /\ births \in Nat
      /\ Host \notin Pids /\ Outside \notin Pids /\ Host # Outside
  BY BoundAssumption DEF TypeOK, Pids, Host, Outside
<1>2. Free \in Entry /\ Free.is = "free" /\ Free.parent = Outside /\ Free.born = 0 /\ ~Free.ours
  BY <1>1 DEF Free, Entry
<1>3. ASSUME NEW p \in Pids
      PROVE  /\ table[p].is \in {"free", "live", "zombie"}
             /\ table[p].born \in Nat /\ table[p].ours \in BOOLEAN
             /\ table[p].parent \in Pids \cup {Host, Outside}
  <2>1. table[p] \in Entry
    BY DEF TypeOK
  <2> QED BY <1>1, <2>1 DEF Entry
<1> QED BY <1>1, <1>2, <1>3 DEF TypeOK

(* An entry after the children of p have moved to somebody else. *)
LEMMA ReparentedEntry ==
    ASSUME TypeOK, NEW p \in Pids \cup {Host}, NEW to \in {Host, Outside}
    PROVE  /\ Reparented(table, p, to) \in [Pids -> Entry]
           /\ \A q \in Pids :
                LET e == Reparented(table, p, to)[q] IN
                \/ ~(Used(q) /\ table[q].parent = p) /\ e = table[q]
                \/ Used(q) /\ table[q].parent = p /\ to = Outside /\ table[q].is = "zombie"
                   /\ e = Free
                \/ /\ Used(q) /\ table[q].parent = p /\ e.parent = to
                   /\ e.is = table[q].is /\ e.born = table[q].born /\ e.ours = table[q].ours
<1>1. ASSUME NEW q \in Pids
      PROVE  /\ [table[q] EXCEPT !.parent = to] \in Entry
             /\ LET e == [table[q] EXCEPT !.parent = to] IN
                /\ e.is = table[q].is /\ e.born = table[q].born /\ e.ours = table[q].ours
                /\ e.parent = to
  <2>1. table[q] \in Entry
    BY DEF TypeOK
  <2> QED BY <2>1, Tables DEF Entry
<1> QED BY <1>1, Tables DEF Reparented, Used

(* An entry after p has exited. *)
LEMMA ExitedEntry ==
    ASSUME TypeOK, NEW p \in Pids, table[p].is = "live"
    PROVE  /\ Exited(table, p) \in [Pids -> Entry]
           /\ \A q \in Pids :
                LET e == Exited(table, p)[q] IN
                \/ q # p /\ ~(Used(q) /\ table[q].parent = p) /\ e = table[q]
                \/ q # p /\ table[q].parent = p /\ ~(table[p].ours /\ HostAlive) /\ e = Free
                \/ /\ q # p /\ Used(q) /\ table[q].parent = p
                   /\ e.parent = IF table[p].ours /\ HostAlive THEN Host ELSE Outside
                   /\ e.is = table[q].is /\ e.born = table[q].born /\ e.ours = table[q].ours
                \/ q = p /\ table[p].parent = Outside /\ e = Free
                \/ /\ q = p /\ table[p].parent # Outside
                   /\ e.is = "zombie" /\ e.born = table[q].born /\ e.ours = table[q].ours
                   /\ e.parent = table[q].parent
<1> DEFINE to == IF table[p].ours /\ HostAlive THEN Host ELSE Outside
           moved == Reparented(table, p, to)
           after == IF table[p].parent = Outside THEN Free ELSE [table[p] EXCEPT !.is = "zombie"]
<1>1. Exited(table, p) = [moved EXCEPT ![p] = after]
  BY DEF Exited
<1>2. to \in {Host, Outside}
  OBVIOUS
<1>3. /\ [table[p] EXCEPT !.is = "zombie"] \in Entry
      /\ LET e == [table[p] EXCEPT !.is = "zombie"] IN
         /\ e.is = "zombie" /\ e.born = table[p].born /\ e.ours = table[p].ours
         /\ e.parent = table[p].parent
  <2>1. table[p] \in Entry
    BY DEF TypeOK
  <2> QED BY <2>1 DEF Entry
<1>4. after \in Entry
  BY <1>3, Tables
<1> HIDE DEF to
<1>5. moved \in [Pids -> Entry]
  BY <1>2, ReparentedEntry
<1>6. ASSUME NEW q \in Pids, q # p
      PROVE  Exited(table, p)[q] = moved[q]
  BY <1>1, <1>5, <1>6
<1>7. Exited(table, p)[p] = after
  BY <1>1, <1>5
<1>8. Exited(table, p) \in [Pids -> Entry]
  BY <1>1, <1>4, <1>5
<1> HIDE DEF moved
<1>9. ASSUME NEW q \in Pids
      PROVE  LET e == moved[q] IN
             \/ ~(Used(q) /\ table[q].parent = p) /\ e = table[q]
             \/ Used(q) /\ table[q].parent = p /\ to = Outside /\ table[q].is = "zombie"
                /\ e = Free
             \/ /\ Used(q) /\ table[q].parent = p /\ e.parent = to
                /\ e.is = table[q].is /\ e.born = table[q].born /\ e.ours = table[q].ours
  BY <1>2, ReparentedEntry DEF moved
<1>10. to = Outside => ~(table[p].ours /\ HostAlive)
  BY Tables DEF to
<1>11. ASSUME NEW q \in Pids, q # p
       PROVE  LET e == Exited(table, p)[q] IN
              \/ ~(Used(q) /\ table[q].parent = p) /\ e = table[q]
              \/ table[q].parent = p /\ ~(table[p].ours /\ HostAlive) /\ e = Free
              \/ /\ Used(q) /\ table[q].parent = p /\ e.parent = to
                 /\ e.is = table[q].is /\ e.born = table[q].born /\ e.ours = table[q].ours
  BY <1>6, <1>9, <1>10, <1>11
<1>12. \/ table[p].parent = Outside /\ Exited(table, p)[p] = Free
       \/ LET e == Exited(table, p)[p] IN
          /\ table[p].parent # Outside /\ e.is = "zombie" /\ e.parent = table[p].parent
          /\ e.born = table[p].born /\ e.ours = table[p].ours
  BY <1>3, <1>7
<1>13. to = IF table[p].ours /\ HostAlive THEN Host ELSE Outside
  BY DEF to
<1> QED BY <1>8, <1>11, <1>12, <1>13

-----------------------------------------------------------------------------
(* The steps, by what they do to the table. *)

Begets(q, by, ours) ==
    /\ births < MaxBirths /\ births' = births + 1
    /\ table[q].is = "free"
    /\ table' = [table EXCEPT ![q] = [is |-> "live", parent |-> by, born |-> births + 1,
                                      ours |-> ours]]

Reaping(Z) ==
    /\ table' = [p \in Pids |-> IF p \in Z THEN Free ELSE table[p]]
    /\ \A p \in Z : table[p].is = "zombie" /\ table[p].parent \in Pids \cup {Host}
    /\ host.at = "scan" => \A p \in Z : table[p].parent \in Pids

LEMMA TableMoves ==
    ASSUME IInv, Next
    PROVE  \/ table' = table /\ births' = births
           \/ \E q \in Pids : Begets(q, Outside, FALSE) /\ UNCHANGED <<host, scan>>
           \/ \E p, q \in Pids : /\ table[p].is = "live" /\ table[p].ours
                                 /\ Begets(q, p, TRUE) /\ UNCHANGED <<host, scan>>
           \/ \E q \in Pids : Begets(q, Host, TRUE) /\ SpawnRoot
           \/ births' = births /\ \E p \in Pids : table[p].is = "live" /\ table' = Exited(table, p)
           \/ births' = births /\ \E Z \in SUBSET Pids : Reaping(Z)
           \/ /\ births' = births /\ table' = Reparented(table, Host, Outside)
              /\ host'.at \in {"gone", "killed"} /\ scan' = NoScan
<1>1. table \in [Pids -> Entry] /\ host \in HostState
  BY DEF IInv, TypeOK
<1>2. ASSUME NEW how \in {"gone", "killed"}, HostEnds(how)
      PROVE  /\ table' = Reparented(table, Host, Outside) /\ scan' = NoScan
             /\ host'.at \in {"gone", "killed"}
  BY <1>1, <1>2 DEF HostEnds, HostState
<1>3. ASSUME NEW p \in Pids, table[p].is = "zombie", table[p].parent \in Pids \cup {Host},
             host.at = "scan" => table[p].parent \in Pids,
             table' = [table EXCEPT ![p] = Free]
      PROVE  Reaping({p})
  BY <1>1, <1>3 DEF Reaping
<1>4. CASE ProcessStep
  <2>1. ASSUME NEW p \in Pids, ProcessExits(p)
        PROVE  births' = births /\ table[p].is = "live" /\ table' = Exited(table, p)
    BY <2>1 DEF ProcessExits
  <2>2. ASSUME NEW p \in Pids, ProcessReaps(p)
        PROVE  births' = births /\ {p} \in SUBSET Pids /\ Reaping({p})
    BY <1>3, <2>2 DEF ProcessReaps
  <2>3. ASSUME NEW p \in Pids, OutsiderStarts(p)
        PROVE  Begets(p, Outside, FALSE) /\ UNCHANGED <<host, scan>>
    BY <2>3 DEF OutsiderStarts, Start, Begets
  <2>4. ASSUME NEW p \in Pids, NEW q \in Pids, Fork(p, q)
        PROVE  /\ table[p].is = "live" /\ table[p].ours
               /\ Begets(q, p, TRUE) /\ UNCHANGED <<host, scan>>
    BY <2>4 DEF Fork, Start, Begets
  <2> QED BY <1>4, <2>1, <2>2, <2>3, <2>4 DEF ProcessStep
<1>5. CASE HostStep
  <2>1. CASE HostAborts
    BY <1>2, <2>1 DEF HostAborts
  <2>2. CASE SpawnRoot
    BY <2>2 DEF SpawnRoot, Start, Begets
  <2>3. CASE TryRootExit
    <3>1. PICK p \in HostZombies(table) : table' = [table EXCEPT ![p] = Free]
      BY <2>3 DEF TryRootExit
    <3>2. p \in Pids /\ Reaping({p}) /\ births' = births
      BY <1>3, <2>3, <3>1 DEF TryRootExit, HostZombies
    <3> QED BY <3>2
  <2>4. CASE ReapExitedChildren
    <3>1. Reaping(HostZombies(table)) /\ HostZombies(table) \in SUBSET Pids /\ births' = births
      BY <2>4 DEF ReapExitedChildren, HostZombies, Reaping
    <3> QED BY <3>1
  <2>5. CASE ScanDone
    BY <1>2, <2>5 DEF ScanDone
  <2>6. CASE SendSignal
    <3>1. PICK f \in scan.fd :
            births' = births /\ table' = IF Hit(f) /\ host.phase = "kill" THEN Exited(table, f.pid) ELSE table
      BY <2>6 DEF SendSignal, Sent
    <3>2. f.pid \in Pids
      BY <3>1 DEF IInv, TypeOK, Scan, Identity
    <3> QED BY <3>1, <3>2 DEF Hit
  <2>7. CASE \/ RecvActivate \/ Contained \/ RecvCommand \/ SendReady \/ ReadControl \/ BeginCleanup
             \/ ReadEntry \/ OpenPidfd \/ CheckIdentity \/ SignalsDone
    BY <2>7 DEF RecvActivate, Contained, RecvCommand, SendReady, ReadControl, BeginCleanup,
                ReadEntry, OpenPidfd, CheckIdentity, SignalsDone
  <2> QED BY <1>5, <2>1, <2>2, <2>3, <2>4, <2>5, <2>6, <2>7 DEF HostStep
<1>6. CASE ParentStep
  <2>1. CASE ParentKillsHost
    BY <1>2, <2>1 DEF ParentKillsHost
  <2>2. CASE ~ParentKillsHost
    BY <1>6, <2>2 DEF ParentStep, ParentActivates, ParentSendsCommand, ParentReady, StartFails,
                      SendStop, RecvEvent, StopUnanswered, ChannelLost
  <2> QED BY <2>1, <2>2
<1>7. CASE FaultStep
  BY <1>2, <1>7 DEF FaultStep, HostKilled, CleanupRequested, CleanupFails
<1> QED BY <1>4, <1>5, <1>6, <1>7 DEF Next

(* Each entry by itself: it stays, is freed, or is taken by a newborn. *)
Stays(q) ==
    /\ Used(q) /\ table'[q].born = table[q].born /\ table'[q].ours = table[q].ours
    /\ \/ table'[q].is = table[q].is
       \/ table[q].is = "live" /\ table'[q].is = "zombie"
    /\ \/ table'[q].parent = table[q].parent
       \/ table'[q].parent = Host /\ table[q].parent \in Pids
       \/ table'[q].parent = Outside
Freed(q) == table'[q].is = "free" /\ (table'[q] = Free \/ table'[q] = table[q])
Born(q) ==
    /\ ~Used(q) /\ births' = births + 1 /\ table'[q].born = births'
    /\ table'[q].is = "live"
    /\ \/ table'[q].parent = Outside /\ ~table'[q].ours
       \/ /\ table'[q].ours /\ SpawnRoot
       \/ /\ table'[q].ours /\ UNCHANGED <<host, scan>>
          /\ \E p \in Pids : table[p].is = "live" /\ table[p].ours

LEMMA EntryMoves ==
    ASSUME IInv, Next
    PROVE  /\ table' \in [Pids -> Entry] /\ births' \in 0..MaxBirths /\ births <= births'
           /\ \A q \in Pids : Stays(q) \/ Freed(q) \/ Born(q)
<1>1. TypeOK /\ births \in 0..MaxBirths /\ MaxBirths \in Nat /\ table \in [Pids -> Entry]
  BY BoundAssumption DEF IInv, TypeOK
<1>2. ASSUME table' = table PROVE \A q \in Pids : Stays(q) \/ Freed(q)
  BY <1>1, <1>2, Tables DEF Used, Stays, Freed
<1>3. ASSUME NEW q \in Pids, NEW by \in Pids \cup {Host, Outside}, NEW ours \in BOOLEAN,
             Begets(q, by, ours)
      PROVE  /\ table' \in [Pids -> Entry] /\ births' \in 0..MaxBirths
             /\ \A r \in Pids \ {q} : Stays(r) \/ Freed(r)
             /\ ~Used(q) /\ births' = births + 1 /\ table'[q].born = births'
             /\ table'[q].is = "live" /\ table'[q].parent = by /\ table'[q].ours = ours
  <2>1. births' \in 0..MaxBirths
    BY <1>1, <1>3 DEF Begets
  <2>2. table' = [table EXCEPT ![q] = [is |-> "live", parent |-> by, born |-> births',
                                      ours |-> ours]]
    BY <1>3 DEF Begets
  <2>3. [is |-> "live", parent |-> by, born |-> births', ours |-> ours] \in Entry
    BY <2>1 DEF Entry
  <2>4. table' \in [Pids -> Entry] /\ \A r \in Pids \ {q} : table'[r] = table[r]
    BY <1>1, <2>2, <2>3
  <2>5. table'[q] = [is |-> "live", parent |-> by, born |-> births', ours |-> ours]
    BY <1>1, <2>2
  <2>6. /\ table'[q].born = births' /\ table'[q].is = "live" /\ table'[q].parent = by
        /\ table'[q].ours = ours
    BY <2>5
  <2>7. \A r \in Pids \ {q} : Stays(r) \/ Freed(r)
    BY <1>1, <2>4, Tables DEF Used, Stays, Freed
  <2> QED BY <1>3, <2>1, <2>4, <2>6, <2>7 DEF Begets, Used
<1>4. ASSUME NEW p \in Pids, table[p].is = "live", table' = Exited(table, p)
      PROVE  table' \in [Pids -> Entry] /\ \A q \in Pids : Stays(q) \/ Freed(q)
  <2>1. ASSUME NEW q \in Pids PROVE Stays(q) \/ Freed(q)
    BY <1>1, <1>4, ExitedEntry, Tables DEF Used, Stays, Freed
  <2> QED BY <1>1, <1>4, <2>1, ExitedEntry
<1>5. ASSUME NEW Z \in SUBSET Pids, Reaping(Z)
      PROVE  table' \in [Pids -> Entry] /\ \A q \in Pids : Stays(q) \/ Freed(q)
  BY <1>1, <1>5, Tables DEF Used, Stays, Freed, Reaping
<1>6. ASSUME table' = Reparented(table, Host, Outside)
      PROVE  table' \in [Pids -> Entry] /\ \A q \in Pids : Stays(q) \/ Freed(q)
  <2>1. ASSUME NEW q \in Pids PROVE Stays(q) \/ Freed(q)
    BY <1>1, <1>6, ReparentedEntry, Tables DEF Used, Stays, Freed
  <2> QED BY <1>1, <1>6, <2>1, ReparentedEntry
<1>7. ASSUME NEW q \in Pids, Begets(q, Outside, FALSE)
      PROVE  /\ table' \in [Pids -> Entry] /\ births' \in 0..MaxBirths /\ births <= births'
             /\ \A r \in Pids : Stays(r) \/ Freed(r) \/ Born(r)
  <2>1. /\ table' \in [Pids -> Entry] /\ births' \in 0..MaxBirths
        /\ \A r \in Pids \ {q} : Stays(r) \/ Freed(r)
        /\ ~Used(q) /\ births' = births + 1 /\ table'[q].born = births'
        /\ table'[q].is = "live" /\ table'[q].parent = Outside /\ table'[q].ours = FALSE
    <3>1. Outside \in Pids \cup {Host, Outside} /\ FALSE \in BOOLEAN
      OBVIOUS
    <3> QED BY <1>3, <1>7, <3>1, Zenon
  <2>2. Born(q)
    BY <1>7, <2>1 DEF Born
  <2>3. \A r \in Pids : Stays(r) \/ Freed(r) \/ Born(r)
    BY <2>1, <2>2, Zenon
  <2>4. births <= births'
    BY <1>1, <2>1
  <2> QED BY <2>1, <2>3, <2>4
<1>8. ASSUME NEW q \in Pids, NEW p \in Pids, Begets(q, p, TRUE), table[p].is = "live",
             table[p].ours, UNCHANGED <<host, scan>>
      PROVE  /\ table' \in [Pids -> Entry] /\ births' \in 0..MaxBirths /\ births <= births'
             /\ \A r \in Pids : Stays(r) \/ Freed(r) \/ Born(r)
  <2>1. /\ table' \in [Pids -> Entry] /\ births' \in 0..MaxBirths
        /\ \A r \in Pids \ {q} : Stays(r) \/ Freed(r)
        /\ ~Used(q) /\ births' = births + 1 /\ table'[q].born = births'
        /\ table'[q].is = "live" /\ table'[q].parent = p /\ table'[q].ours = TRUE
    <3>1. p \in Pids \cup {Host, Outside} /\ TRUE \in BOOLEAN
      OBVIOUS
    <3> QED BY <1>3, <1>8, <3>1, Zenon
  <2>2. Born(q)
    BY <1>8, <2>1 DEF Born
  <2>3. \A r \in Pids : Stays(r) \/ Freed(r) \/ Born(r)
    BY <2>1, <2>2, Zenon
  <2>4. births <= births'
    BY <1>1, <2>1
  <2> QED BY <2>1, <2>3, <2>4
<1>9. ASSUME NEW q \in Pids, Begets(q, Host, TRUE), SpawnRoot
      PROVE  /\ table' \in [Pids -> Entry] /\ births' \in 0..MaxBirths /\ births <= births'
             /\ \A r \in Pids : Stays(r) \/ Freed(r) \/ Born(r)
  <2>1. /\ table' \in [Pids -> Entry] /\ births' \in 0..MaxBirths
        /\ \A r \in Pids \ {q} : Stays(r) \/ Freed(r)
        /\ ~Used(q) /\ births' = births + 1 /\ table'[q].born = births'
        /\ table'[q].is = "live" /\ table'[q].parent = Host /\ table'[q].ours = TRUE
    <3>1. Host \in Pids \cup {Host, Outside} /\ TRUE \in BOOLEAN
      OBVIOUS
    <3> QED BY <1>3, <1>9, <3>1, Zenon
  <2>2. Born(q)
    BY <1>9, <2>1 DEF Born
  <2>3. \A r \in Pids : Stays(r) \/ Freed(r) \/ Born(r)
    BY <2>1, <2>2, Zenon
  <2>4. births <= births'
    BY <1>1, <2>1
  <2> QED BY <2>1, <2>3, <2>4
<1>10. births \in 0..MaxBirths /\ births <= births
  BY <1>1
<1> QED BY <1>1, <1>2, <1>4, <1>5, <1>6, <1>7, <1>8, <1>9, <1>10, TableMoves

-----------------------------------------------------------------------------
(* Who is whose child. *)

LEMMA MineStays ==
    ASSUME IInv, Next, NEW p \in Pids, NEW b \in Nat, b <= births
    PROVE  /\ b <= births' /\ (Holds(p, b)' => Holds(p, b))
           /\ Mine(p, b) => Mine(p, b)'
<1>1. births \in Nat /\ births' \in Nat /\ births <= births'
  BY EntryMoves, Tables DEF IInv
<1>2. ASSUME Holds(p, b)'
      PROVE  Holds(p, b) /\ table'[p].ours = table[p].ours
  <2>1. ~Freed(p)
    BY <1>2 DEF Freed, Holds, Used
  <2>2. ~Born(p)
    BY <1>1, <1>2 DEF Born, Holds
  <2>3. Stays(p)
    BY <2>1, <2>2, EntryMoves
  <2> QED BY <1>2, <2>3 DEF Stays, Holds
<1> QED BY <1>1, <1>2 DEF Mine

(* Without a live process of its own the session gets no other, unless the    *)
(* host starts the root.                                                      *)
LEMMA RunningMoves ==
    ASSUME IInv, Next, Running = {}, ~SpawnRoot
    PROVE  Running' = {}
<1> SUFFICES ASSUME NEW q \in Pids, table'[q].is = "live", table'[q].ours PROVE FALSE
  BY DEF Running
<1>1. ~Freed(q)
  BY DEF Freed
<1>2. ~Stays(q)
  BY DEF Stays, Running
<1>3. ~Born(q)
  BY DEF Born, Running
<1> QED BY <1>1, <1>2, <1>3, EntryMoves

(* Whoever has ended stays so. *)
LEMMA HostStays ==
    ASSUME IInv, Next
    PROVE  ~HostAlive => host' = host
<1> SUFFICES ASSUME host.at \in {"gone", "killed"} PROVE host' = host
  BY DEF HostAlive
<1>1. CASE ProcessStep
  BY <1>1 DEF ProcessStep, ProcessExits, ProcessReaps, OutsiderStarts, Fork
<1>2. CASE HostStep
  BY <1>2 DEF HostStep, RecvActivate, Contained, RecvCommand, HostAborts, SpawnRoot,
              SendReady, TryRootExit, ReadControl, BeginCleanup, ReapExitedChildren, ReadEntry,
              ScanDone, OpenPidfd, CheckIdentity, SendSignal, Sent, SignalsDone
<1>3. CASE ParentStep
  BY <1>3 DEF ParentStep, ParentActivates, ParentSendsCommand, ParentReady, StartFails,
              ParentKillsHost, HostAlive, SendStop, RecvEvent, StopUnanswered, ChannelLost
<1>4. CASE FaultStep
  BY <1>4 DEF FaultStep, HostKilled, HostAlive, CleanupRequested, CleanupFails
<1> QED BY <1>1, <1>2, <1>3, <1>4 DEF Next

LEMMA FamilyStep == ASSUME IInv, Next PROVE Family'
<1>1. /\ TypeOK /\ Family /\ births \in Nat /\ table \in [Pids -> Entry]
      /\ Host \notin Pids /\ Outside \notin Pids /\ Host # Outside
  BY Tables DEF IInv
<1>2. ASSUME NEW q \in Pids
      PROVE  /\ table'[q].born <= births'
             /\ Used(q)' /\ table'[q].parent # Outside => table'[q].ours
  <2>1. CASE Stays(q)
    <3>1. table'[q].born <= births' 
      BY <1>1, <2>1, EntryMoves, Tables DEF Stays, Family
    <3> QED BY <1>1, <2>1, <3>1 DEF Stays, Family
  <2>2. CASE Freed(q)
    <3>1. table'[q].born <= births' 
      BY <1>1, <2>2, EntryMoves, Tables DEF Freed, Family
    <3> QED BY <2>2, <3>1 DEF Freed, Used
  <2>3. CASE Born(q)
    BY <1>1, <2>3, EntryMoves DEF Born
  <2> QED BY <2>1, <2>2, <2>3, EntryMoves
<1>3. ASSUME HostAlive', NEW q \in Pids, Used(q)', table'[q].ours PROVE Rooted(q)'
  <2>1. HostAlive
    BY <1>3, HostStays DEF HostAlive
  <2>2. \A r \in Pids : Used(r) /\ table[r].ours => Rooted(r)
    BY <1>1, <2>1 DEF Family
  <2>3. CASE table' = table
    BY <1>3, <2>2, <2>3 DEF Used, Rooted
  <2>4. ASSUME NEW n \in Pids, NEW by \in Pids \cup {Host}, Begets(n, by, TRUE),
               by \in Pids => table[by].is = "live" /\ table[by].ours
        PROVE  Rooted(q)'
    <3>1. /\ \A r \in Pids \ {n} : table'[r] = table[r]
          /\ table'[n].parent = by /\ table'[n].born = births + 1 /\ table[n].is = "free"
      BY <1>1, <2>4 DEF Begets
    <3>2. CASE q = n
      <4>1. by \in Pids => by # n /\ table'[by] = table[by] /\ table[by].born < births + 1
        BY <1>1, <2>4, <3>1, Tables DEF Family
      <4> QED BY <2>4, <3>1, <3>2, <4>1 DEF Rooted
    <3>3. CASE q # n
      BY <1>3, <2>2, <3>1, <3>3 DEF Rooted, Used
    <3> QED BY <3>2, <3>3
  <2>5. ASSUME NEW n \in Pids, Begets(n, Outside, FALSE) PROVE Rooted(q)'
    <3>1. /\ \A r \in Pids \ {n} : table'[r] = table[r]
          /\ ~table'[n].ours /\ table[n].is = "free"
      BY <1>1, <2>5 DEF Begets
    <3> QED BY <1>3, <2>2, <3>1 DEF Rooted, Used
  <2>6. ASSUME NEW p \in Pids, table[p].is = "live", table' = Exited(table, p) PROVE Rooted(q)'
    <3>1. ASSUME NEW r \in Pids, r # p, table[r].is = "live", table[r].ours
          PROVE  /\ table'[r].is = "live" /\ table'[r].ours /\ table'[r].born = table[r].born
      <4>1. table[r].parent = p => table[p].ours /\ HostAlive
        BY <1>1, <2>1, <2>2, <3>1 DEF Rooted, Used
      <4> QED BY <1>1, <2>6, <3>1, <4>1, ExitedEntry
    <3>2. CASE q # p /\ table[q].parent # p
      <4>1. table'[q] = table[q]
        BY <1>1, <2>6, <3>2, ExitedEntry
      <4> QED BY <1>3, <2>2, <3>1, <3>2, <4>1 DEF Rooted, Used
    <3>3. CASE q # p /\ table[q].parent = p
      <4>1. table'[q] # Free /\ (~Used(q) => table'[q] = table[q])
        BY <1>1, <1>3, <2>6, <3>3, ExitedEntry, Tables DEF Used
      <4>2. Used(q) /\ table[q].ours
        BY <1>1, <1>3, <2>6, <3>3, <4>1, ExitedEntry DEF Used
      <4>3. table[p].ours
        BY <1>1, <2>2, <3>3, <4>2 DEF Rooted
      <4>4. table'[q].parent = Host
        BY <1>1, <2>1, <2>6, <3>3, <4>1, <4>2, <4>3, ExitedEntry
      <4> QED BY <4>4 DEF Rooted
    <3>4. CASE q = p
      <4>1. /\ table'[q].parent = table[q].parent /\ table'[q].born = table[q].born
            /\ table[q].ours
        BY <1>1, <1>3, <2>6, <3>4, ExitedEntry, Tables DEF Used
      <4>2. Rooted(q) /\ table[q].born \in Nat
        BY <1>1, <2>2, <2>6, <3>4, <4>1, Tables DEF Used
      <4>3. CASE table[q].parent = Host
        BY <4>1, <4>3 DEF Rooted
      <4>4. CASE table[q].parent # Host
        <5>1. /\ table[q].parent \in Pids /\ table[q].parent # p
              /\ table[table[q].parent].is = "live" /\ table[table[q].parent].ours
              /\ table[table[q].parent].born < table[q].born
          BY <3>4, <4>2, <4>4 DEF Rooted
        <5> QED BY <3>1, <4>1, <5>1 DEF Rooted
      <4> QED BY <4>3, <4>4
    <3> QED BY <3>2, <3>3, <3>4
  <2>7. ASSUME NEW Z \in SUBSET Pids, Reaping(Z) PROVE Rooted(q)'
    <3>1. \A r \in Pids : r \notin Z => table'[r] = table[r]
      BY <2>7 DEF Reaping
    <3>2. q \notin Z
      BY <1>1, <1>3, <2>7, Tables DEF Reaping, Used
    <3>3. \A r \in Z : table[r].is = "zombie"
      BY <2>7 DEF Reaping
    <3> QED BY <1>3, <2>2, <3>1, <3>2, <3>3 DEF Rooted, Used
  <2>8. host'.at \notin {"gone", "killed"}
    BY <1>3 DEF HostAlive
  <2>9. ASSUME NEW n \in Pids, NEW p \in Pids, Begets(n, p, TRUE), table[p].is = "live",
               table[p].ours
        PROVE  Rooted(q)'
    BY <2>4, <2>9
  <2>10. ASSUME NEW n \in Pids, Begets(n, Host, TRUE) PROVE Rooted(q)'
    BY <1>1, <2>4, <2>10
  <2> QED BY <2>3, <2>5, <2>6, <2>7, <2>8, <2>9, <2>10, TableMoves
<1> QED BY <1>2, <1>3 DEF Family
-----------------------------------------------------------------------------
(* The scan. *)

LEMMA LeastNumber ==
    ASSUME NEW T \in SUBSET Nat, T # {}
    PROVE  \E n \in T : \A m \in T : n <= m
<1> DEFINE R == {p \in Nat \X Nat : p[1] < p[2]}
<1>1. IsWellFoundedOn(R, Nat)
  BY NatLessThanWellFounded DEF OpToRel
<1>2. PICK n \in T : \A m \in T : ~(<<m, n>> \in R)
  <2> HIDE DEF R
  <2> QED BY <1>1, WFMin
<1>3. ASSUME NEW m \in T PROVE n <= m
  <2>1. <<m, n>> \notin R /\ m \in Nat /\ n \in Nat
    <3> HIDE DEF R
    <3> QED BY <1>2
  <2> QED BY <2>1
<1> QED BY <1>3

(* The oldest live process of a session whose host lives is the host's child. *)
LEMMA Oldest ==
    ASSUME TypeOK, Family, HostAlive, Running # {}
    PROVE  \E p \in Running : table[p].parent = Host
<1> DEFINE T == {table[p].born : p \in Running}
<1>1. T \in SUBSET Nat /\ T # {}
  <2>1. \A p \in Running : table[p].born \in Nat
    BY Tables DEF Running
  <2> QED BY <2>1
<1>2. PICK n \in T : \A m \in T : n <= m
  <2> HIDE DEF T
  <2> QED BY <1>1, LeastNumber
<1>3. PICK p \in Running : table[p].born = n
  BY <1>2
<1>4. p \in Pids /\ Used(p) /\ table[p].ours
  BY <1>3 DEF Running, Used
<1>5. Rooted(p)
  BY <1>4 DEF Family
<1>6. CASE table[p].parent # Host
  <2>1. table[p].parent \in Running /\ table[table[p].parent].born < n
    BY <1>3, <1>5, <1>6 DEF Rooted, Running
  <2>2. n <= table[table[p].parent].born
    BY <1>2, <2>1
  <2>3. n \in Nat /\ table[table[p].parent].born \in Nat
    BY <1>1, <1>2, <2>1, Tables DEF Running
  <2> QED BY <2>1, <2>2, <2>3
<1> QED BY <1>3, <1>6

(* What counts as a descendant has been read as the child of the host or of   *)
(* another process that has been read, and every child of the host counts.    *)
LEMMA DescendantsAre ==
    ASSUME NEW seen
    PROVE  /\ Descendants(seen) \subseteq seen
           /\ \A e \in seen : e.parent = Host => e \in Descendants(seen)
           /\ \A e \in Descendants(seen) : e.parent = Host \/ \E d \in seen : e.parent = d.pid
<1> DEFINE Level(f, n) ==
             IF n = 0 THEN {}
             ELSE {e \in seen : e.parent = Host \/ e.parent \in {d.pid : d \in f[n - 1]}}
           T == {n \in Nat : \E f : f = [m \in 0..n |-> Level(f, m)]}
           below == CHOOSE f : f = [n \in 0..MaxPid |-> Level(f, n)]
<1>1. 0 \in T
  <2> DEFINE f == [m \in 0..0 |-> {}]
  <2>1. f = [m \in 0..0 |-> Level(f, m)]
    OBVIOUS
  <2> QED BY <2>1
<1>2. ASSUME NEW n \in T PROVE n + 1 \in T
  <2>1. PICK f : f = [m \in 0..n |-> Level(f, m)]
    OBVIOUS
  <2> DEFINE g == [m \in 0..(n + 1) |-> IF m <= n THEN f[m] ELSE Level(f, n + 1)]
  <2>2. ASSUME NEW m \in 0..(n + 1) PROVE g[m] = Level(g, m)
    <3>1. CASE m = 0
      BY <2>1, <3>1
    <3>2. CASE m # 0
      <4>1. m - 1 \in 0..n /\ g[m - 1] = f[m - 1]
        BY <3>2
      <4>2. g[m] = Level(f, m)
        <5>1. CASE m <= n
          <6>1. m \in 0..n /\ g[m] = f[m]
            BY <5>1
          <6> HIDE DEF Level, g
          <6> QED BY <2>1, <6>1
        <5>2. CASE m = n + 1
          BY <5>2
        <5> QED BY <5>1, <5>2
      <4> QED BY <4>1, <4>2
    <3> QED BY <3>1, <3>2
  <2>3. g = [m \in 0..(n + 1) |-> Level(g, m)]
    <3> HIDE DEF Level
    <3> QED BY <2>2
  <2>4. \E h : h = [m \in 0..(n + 1) |-> Level(h, m)]
    <3> HIDE DEF g, Level
    <3> QED BY <2>3
  <2> QED BY <2>4
<1>3. T = Nat
  <2>1. ASSUME Nat \ T # {} PROVE FALSE
    <3> DEFINE U == Nat \ T
    <3>1. U \in SUBSET Nat /\ U # {}
      BY <2>1
    <3> HIDE DEF U
    <3>2. PICK n \in U : \A m \in U : n <= m
      BY <3>1, LeastNumber
    <3> USE DEF U
    <3> HIDE DEF T
    <3>3. n \in Nat /\ n # 0 /\ n - 1 \in Nat
      BY <1>1, <3>2
    <3>4. n - 1 \in T
      BY <3>2, <3>3
    <3>5. (n - 1) + 1 = n /\ (n - 1) + 1 \in T
      BY <1>2, <3>3, <3>4
    <3> QED BY <3>2, <3>5
  <2>2. T \subseteq Nat
    OBVIOUS
  <2> HIDE DEF T
  <2> QED BY <2>1, <2>2
<1>4. \E f : f = [n \in 0..MaxPid |-> Level(f, n)]
  <2>1. MaxPid \in T
    <3> HIDE DEF T
    <3> QED BY <1>3, BoundAssumption
  <2> QED BY <2>1
<1>5. below = [n \in 0..MaxPid |-> Level(below, n)]
  <2> HIDE DEF Level
  <2> QED BY <1>4
<1>6. Descendants(seen) = below[MaxPid]
  BY DEF Descendants
<1>7. Descendants(seen) = Level(below, MaxPid)
  <2> HIDE DEF Level, below
  <2> QED BY <1>5, <1>6, BoundAssumption
<1> HIDE DEF below
<1>8. MaxPid # 0 /\ MaxPid - 1 \in 0..MaxPid
  BY BoundAssumption
<1>9. below[MaxPid - 1] \subseteq seen
  <2>1. below[MaxPid - 1] = Level(below, MaxPid - 1)
    <3> HIDE DEF Level
    <3> QED BY <1>5, <1>8
  <2> QED BY <2>1
<1> QED BY <1>7, <1>8, <1>9
-----------------------------------------------------------------------------
(* The types. *)

LEMMA HostTyped == ASSUME IInv, Next PROVE host' \in HostState
<1>1. host \in HostState /\ births' \in Nat
  BY EntryMoves DEF IInv, TypeOK
<1>2. ASSUME NEW how \in {"gone", "killed"}, HostEnds(how) PROVE host' \in HostState
  BY <1>1, <1>2 DEF HostEnds, HostState
<1>3. Failing(host) \in HostState
  BY <1>1 DEF Failing, HostState
<1>4. CASE ProcessStep
  BY <1>1, <1>4 DEF ProcessStep, ProcessExits, ProcessReaps, OutsiderStarts, Fork
<1>5. CASE HostStep
  <2>1. CASE \/ RecvActivate \/ Contained \/ RecvCommand \/ HostAborts
             \/ ReadEntry \/ OpenPidfd \/ CheckIdentity \/ SendSignal \/ SignalsDone
    BY <1>1, <1>2, <2>1 DEF RecvActivate, Contained, RecvCommand, HostAborts, ReadEntry,
         OpenPidfd, CheckIdentity, SendSignal, Sent, SignalsDone, HostState
  <2>2. CASE SpawnRoot
    BY <1>1, <1>3, <2>2 DEF SpawnRoot, HostState
  <2>3. CASE SendReady
    BY <1>1, <1>3, <2>3 DEF SendReady, HostState
  <2>4. CASE TryRootExit \/ ReadControl \/ BeginCleanup
    <3>1. CASE TryRootExit
      BY <1>1, <3>1 DEF TryRootExit, HostState
    <3>2. CASE ReadControl
      BY <1>1, <3>2 DEF ReadControl, HostState
    <3>3. CASE BeginCleanup
      BY <1>1, <3>3 DEF BeginCleanup, HostState
    <3> QED BY <2>4, <3>1, <3>2, <3>3
  <2>5. CASE ReapExitedChildren
    <3>1. RootGone(HostZombies(table)) \in BOOLEAN
      BY <1>1 DEF RootGone, HostState
    <3> QED BY <1>1, <2>5, <3>1 DEF ReapExitedChildren, HostState
  <2>6. CASE ScanDone
    <3> DEFINE phase == IF host.phase = "none" THEN "term" ELSE "kill"
    <3>1. \/ host' = [host EXCEPT !.at = "signal", !.empty = 0, !.phase = phase]
          \/ host' = [host EXCEPT !.at = "loop", !.empty = 1]
          \/ HostEnds("gone")
      BY <2>6 DEF ScanDone
    <3>2. phase \in {"none", "term", "kill"}
      OBVIOUS
    <3> HIDE DEF phase
    <3>3. ASSUME NEW n \in 0..2
          PROVE  /\ [host EXCEPT !.at = "signal", !.empty = n, !.phase = phase] \in HostState
                 /\ [host EXCEPT !.at = "loop", !.empty = n] \in HostState
      BY <1>1, <3>2 DEF HostState
    <3>4. 0 \in 0..2 /\ 1 \in 0..2
      OBVIOUS
    <3> QED BY <1>2, <3>1, <3>3, <3>4
  <2> QED BY <1>5, <2>1, <2>2, <2>3, <2>4, <2>5, <2>6 DEF HostStep
<1>6. CASE ParentStep
  BY <1>1, <1>2, <1>6 DEF ParentStep, ParentActivates, ParentSendsCommand, ParentReady,
       StartFails, ParentKillsHost, SendStop, RecvEvent, StopUnanswered, ChannelLost
<1>7. CASE FaultStep
  <2>1. CASE HostKilled
    BY <1>2, <2>1 DEF HostKilled
  <2>2. CASE CleanupRequested
    <3>1. [host EXCEPT !.cleaning = TRUE] \in HostState
      BY <1>1 DEF HostState
    <3> QED BY <1>3, <2>2, <3>1 DEF CleanupRequested
  <2>3. CASE CleanupFails
    <3>1. /\ [host EXCEPT !.at = "loop"] \in HostState
          /\ [host EXCEPT !.at = "loop", !.reported = TRUE] \in HostState
          /\ [host EXCEPT !.at = "loop", !.connected = FALSE] \in HostState
      BY <1>1 DEF HostState
    <3> QED BY <2>3, <3>1 DEF CleanupFails
  <2> QED BY <1>7, <2>1, <2>2, <2>3 DEF FaultStep
<1> QED BY <1>4, <1>5, <1>6, <1>7 DEF Next

LEMMA ParentTyped == ASSUME IInv, Next PROVE parent' \in Parent
<1>1. parent \in Parent
  BY DEF IInv, TypeOK
<1>2. CASE parent' = parent
  BY <1>1, <1>2
<1>3. CASE ProcessStep
  BY <1>1, <1>3 DEF ProcessStep, ProcessExits, ProcessReaps, OutsiderStarts, Fork
<1>4. CASE HostStep
  BY <1>1, <1>4 DEF HostStep, RecvActivate, Contained, RecvCommand, HostAborts, SpawnRoot,
       SendReady, TryRootExit, ReadControl, BeginCleanup, ReapExitedChildren, ReadEntry,
       ScanDone, OpenPidfd, CheckIdentity, SendSignal, Sent, SignalsDone
<1>5. CASE ParentStep
  BY <1>1, <1>5 DEF ParentStep, ParentActivates, ParentSendsCommand, ParentReady, StartFails,
       ParentKillsHost, SendStop, RecvEvent, StopUnanswered, ChannelLost, Parent
<1>6. CASE FaultStep
  BY <1>1, <1>6 DEF FaultStep, HostKilled, CleanupRequested, CleanupFails
<1> QED BY <1>3, <1>4, <1>5, <1>6 DEF Next

(* What is on its way to the host, and to the parent. *)
LEMMA ChannelMoves ==
    ASSUME IInv, Next
    PROVE  /\ \/ toHost' = toHost
              \/ toHost # <<>> /\ toHost' = Tail(toHost)
              \/ ParentActivates /\ toHost' = Append(toHost, "Activate")
              \/ ParentSendsCommand /\ toHost' = Append(toHost, "Command")
              \/ toHost' = Append(toHost, "Stop")
           /\ \/ toParent' = toParent
              \/ toParent # <<>> /\ toParent' = Tail(toParent)
              \/ toParent' = Append(toParent, "Contained")
              \/ toParent' = Append(toParent, "Ready")
              \/ toParent' = Append(toParent, "CleanupFailed")
              \/ ScanDone /\ HostEnds("gone") /\ toParent' = Append(toParent, "Done")
<1>1. CASE ProcessStep
  BY <1>1 DEF ProcessStep, ProcessExits, ProcessReaps, OutsiderStarts, Fork, channel
<1>2. CASE HostStep
  <2>1. CASE ScanDone
    BY <2>1 DEF ScanDone, ToParent
  <2>2. CASE ~ScanDone
    BY <1>2, <2>2 DEF HostStep, RecvActivate, Contained, RecvCommand, HostAborts, SpawnRoot,
       SendReady, TryRootExit, ReadControl, BeginCleanup, ReapExitedChildren, ReadEntry,
       OpenPidfd, CheckIdentity, SendSignal, Sent, SignalsDone, channel, HostReads, ToParent
  <2> QED BY <2>1, <2>2
<1>3. CASE ParentStep
  BY <1>3 DEF ParentStep, ParentActivates, ParentSendsCommand, ParentReady, StartFails,
       ParentKillsHost, SendStop, RecvEvent, StopUnanswered, ChannelLost, channel, ToHost
<1>4. CASE FaultStep
  BY <1>4 DEF FaultStep, HostKilled, CleanupRequested, CleanupFails, channel, ToParent
<1> QED BY <1>1, <1>2, <1>3, <1>4 DEF Next

LEMMA ChannelsTyped ==
    ASSUME IInv, Next
    PROVE  toHost' \in Seq(Frames) /\ toParent' \in Seq(Frames)
<1>1. toHost \in Seq(Frames) /\ toParent \in Seq(Frames)
  BY DEF IInv, TypeOK
<1>2. ASSUME NEW c \in Seq(Frames)
      PROVE  /\ c # <<>> => Tail(c) \in Seq(Frames)
             /\ \A f \in Frames : Append(c, f) \in Seq(Frames)
  OBVIOUS
<1>3. Frames = {"Activate", "Contained", "Command", "Ready", "Stop", "CleanupFailed", "Done"}
  BY DEF Frames
<1>4. toHost' \in Seq(Frames)
  <2>1. \/ toHost' = toHost \/ (toHost # <<>> /\ toHost' = Tail(toHost))
        \/ \E f \in Frames : toHost' = Append(toHost, f)
    BY <1>3, ChannelMoves
  <2> QED BY <1>1, <1>2, <2>1
<1>5. toParent' \in Seq(Frames)
  <2>1. \/ toParent' = toParent \/ (toParent # <<>> /\ toParent' = Tail(toParent))
        \/ \E f \in Frames : toParent' = Append(toParent, f)
    BY <1>3, ChannelMoves
  <2> QED BY <1>1, <1>2, <2>1
<1> QED BY <1>4, <1>5

(* What a scan works on, step by step. *)
LEMMA ScanTyped ==
    ASSUME IInv, Next
    PROVE  scan' \in Scan /\ (host'.at \notin {"scan", "signal"} => scan' = NoScan)
<1>1. /\ scan \in Scan /\ host \in HostState /\ MaxPid \in Nat /\ MaxPid > 0
      /\ host.at \notin {"scan", "signal"} => scan = NoScan
      /\ \A p \in Pids : table[p] \in Entry
  BY Tables DEF IInv, TypeOK
<1>2. NoScan \in Scan
  BY <1>1 DEF NoScan, Scan
<1>3. CASE scan' = NoScan
  BY <1>2, <1>3
<1>4. CASE scan' = scan /\ host' = host
  BY <1>1, <1>4
<1>5. CASE scan' = scan /\ host.at \notin {"scan", "signal"}
  BY <1>1, <1>5
<1>6. CASE ProcessStep
  BY <1>4, <1>6 DEF ProcessStep, ProcessExits, ProcessReaps, OutsiderStarts, Fork
<1>7. CASE HostStep
  <2>1. CASE \/ RecvActivate \/ Contained \/ RecvCommand \/ HostAborts \/ SpawnRoot
             \/ SendReady \/ TryRootExit \/ ReadControl \/ BeginCleanup \/ SignalsDone
             \/ ReapExitedChildren
    BY <1>3, <1>5, <2>1 DEF RecvActivate, Contained, RecvCommand, HostAborts, SpawnRoot,
       SendReady, TryRootExit, ReadControl, BeginCleanup, SignalsDone, ReapExitedChildren,
       HostEnds
  <2>2. CASE ReadEntry
    <3> DEFINE p == scan.next
               e == [pid |-> p, parent |-> table[p].parent, born |-> table[p].born,
                     live |-> table[p].is = "live"]
    <3>1. p \in Pids /\ p + 1 \in 1..(MaxPid + 1) /\ host' = host /\ host.at = "scan"
      BY <1>1, <2>2 DEF ReadEntry, Scan, Pids
    <3>2. e \in [pid : Pids, parent : Pids \cup {Host, Outside}, born : 0..MaxBirths,
                 live : BOOLEAN]
      BY <1>1, <3>1 DEF Entry
    <3>3. PICK S \in {scan.seen, scan.seen \cup {e}} :
            scan' = [scan EXCEPT !.next = p + 1, !.seen = S]
      BY <2>2 DEF ReadEntry
    <3> HIDE DEF e
    <3>4. S \in SUBSET [pid : Pids, parent : Pids \cup {Host, Outside}, born : 0..MaxBirths,
                        live : BOOLEAN]
      BY <1>1, <3>2 DEF Scan
    <3> QED BY <1>1, <3>1, <3>3, <3>4 DEF Scan
  <2>3. CASE ScanDone
    <3>1. CASE scan' = NoScan
      BY <1>3, <3>1
    <3>2. CASE scan' # NoScan
      <4> DEFINE S == {[pid |-> e.pid, born |-> e.born] :
                         e \in {d \in Descendants(scan.seen) : d.live}}
      <4>1. /\ scan' = [NoScan EXCEPT !.todo = S]
            /\ host' = [host EXCEPT !.at = "signal", !.empty = 0,
                                    !.phase = IF host.phase = "none" THEN "term" ELSE "kill"]
        BY <2>3, <3>2 DEF ScanDone, HostEnds
      <4>2. S \subseteq Identity
        BY <1>1, DescendantsAre DEF Scan, Identity
      <4>3. host'.at = "signal"
        BY <1>1, <4>1 DEF HostState
      <4> HIDE DEF S
      <4> QED BY <1>2, <4>1, <4>2, <4>3 DEF Scan
    <3> QED BY <3>1, <3>2
  <2>4. CASE OpenPidfd
    <3>1. PICK i \in scan.todo :
            scan' = IF table[i.pid].is = "free"
                    THEN [scan EXCEPT !.todo = @ \ {i}]
                    ELSE [scan EXCEPT !.todo = {i} \cup @, !.checked = FALSE,
                                 !.fd = {[pid |-> i.pid, born |-> table[i.pid].born]}]
      BY <2>4 DEF OpenPidfd
    <3>2. i.pid \in Pids /\ [pid |-> i.pid, born |-> table[i.pid].born] \in Identity
      BY <1>1 DEF Scan, Identity, Entry
    <3>3. host' = host /\ host.at = "signal"
      BY <2>4 DEF OpenPidfd
    <3> QED BY <1>1, <3>1, <3>2, <3>3 DEF Scan
  <2>5. CASE CheckIdentity
    <3> DEFINE wanted == {i \in scan.todo : i.pid = (CHOOSE f \in scan.fd : TRUE).pid}
    <3>1. /\ host' = host /\ host.at = "signal"
          /\ \/ scan' = [scan EXCEPT !.checked = TRUE]
             \/ scan' = [scan EXCEPT !.fd = {}, !.todo = @ \ wanted]
      BY <2>5 DEF CheckIdentity
    <3> HIDE DEF wanted
    <3> QED BY <1>1, <3>1 DEF Scan
  <2>6. CASE SendSignal
    BY <1>1, <2>6 DEF SendSignal, Sent, Scan
  <2> QED BY <1>7, <2>1, <2>2, <2>3, <2>4, <2>5, <2>6 DEF HostStep
<1>8. CASE ParentStep
  BY <1>3, <1>4, <1>8 DEF ParentStep, ParentActivates, ParentSendsCommand, ParentReady, StartFails,
       ParentKillsHost, HostEnds, SendStop, RecvEvent, StopUnanswered, ChannelLost
<1>9. CASE FaultStep
  BY <1>3, <1>5, <1>9 DEF FaultStep, HostKilled, HostEnds, CleanupRequested, CleanupFails
<1> QED BY <1>6, <1>7, <1>8, <1>9 DEF Next

LEMMA TypeStep == ASSUME IInv, Next PROVE TypeOK'
<1>1. errors \in 0..MaxErrors /\ strayed \in BOOLEAN /\ MaxErrors \in Nat
  BY BoundAssumption DEF IInv, TypeOK
<1>2. CASE ProcessStep
  BY <1>1, <1>2, EntryMoves, HostTyped, ParentTyped, ChannelsTyped, ScanTyped
     DEF TypeOK, ProcessStep, ProcessExits, ProcessReaps, OutsiderStarts, Fork
<1>3. CASE HostStep
  <2>1. errors' \in 0..MaxErrors
    <3>1. CASE SpawnRoot
      <4>1. errors' = errors \/ (errors > 0 /\ errors' = errors - 1)
        BY <3>1, Zenon DEF SpawnRoot
      <4> QED BY <1>1, <4>1
    <3>2. CASE ~SpawnRoot
      BY <1>1, <1>3, <3>2 DEF HostStep, RecvActivate, Contained, RecvCommand, HostAborts,
         SendReady, TryRootExit, ReadControl, BeginCleanup, ReapExitedChildren, ReadEntry,
         ScanDone, OpenPidfd, CheckIdentity, SendSignal, Sent, SignalsDone
    <3> QED BY <3>1, <3>2
  <2>2. strayed' \in BOOLEAN
    BY <1>1, <1>3 DEF HostStep, RecvActivate, Contained, RecvCommand, HostAborts, SpawnRoot,
       SendReady, TryRootExit, ReadControl, BeginCleanup, ReapExitedChildren, ReadEntry,
       ScanDone, OpenPidfd, CheckIdentity, SendSignal, Sent, SignalsDone
  <2> QED BY <2>1, <2>2, EntryMoves, HostTyped, ParentTyped, ChannelsTyped, ScanTyped DEF TypeOK
<1>4. CASE ParentStep
  BY <1>1, <1>4, EntryMoves, HostTyped, ParentTyped, ChannelsTyped, ScanTyped
     DEF TypeOK, ParentStep, ParentActivates, ParentSendsCommand, ParentReady, StartFails,
       ParentKillsHost, SendStop, RecvEvent, StopUnanswered, ChannelLost
<1>5. CASE FaultStep
  BY <1>1, <1>5, EntryMoves, HostTyped, ParentTyped, ChannelsTyped, ScanTyped
     DEF TypeOK, FaultStep, HostKilled, CleanupRequested, CleanupFails
<1> QED BY <1>2, <1>3, <1>4, <1>5 DEF Next
-----------------------------------------------------------------------------
(* The phases of the host and of its parent. *)

LEMMA HostMoves ==
    ASSUME IInv, Next
    PROVE  /\ host'.at \in {"activate", "preflight", "command"} =>
                host.at \in {"activate", "preflight", "command"}
           /\ host'.at = "spawn" => host.at = "spawn" \/ RecvCommand
           /\ host'.at = "scan" => host.at = "scan" \/ ReapExitedChildren
           /\ host.at \in {"activate", "preflight", "command"} =>
                host'.at \in {"activate", "preflight", "command", "gone", "killed"} \/ RecvCommand
           /\ SpawnRoot => host.at = "spawn" /\ host'.at \in {"ready", "loop"}
<1>1. host \in HostState
  BY DEF IInv, TypeOK
<1>2. ASSUME NEW how \in {"gone", "killed"}, HostEnds(how) PROVE host'.at = how
  BY <1>1, <1>2 DEF HostEnds, HostState
<1>3. SpawnRoot => host.at = "spawn" /\ host'.at \in {"ready", "loop"}
  <2>1. Failing(host) \in HostState
    BY <1>1 DEF Failing, HostState
  <2>2. \A n : [host EXCEPT !.at = "ready", !.root = n].at = "ready"
    BY <1>1 DEF HostState
  <2>3. [Failing(host) EXCEPT !.at = "loop", !.connected = FALSE].at = "loop"
    BY <2>1 DEF HostState
  <2>4. SpawnRoot => \/ \E n : host' = [host EXCEPT !.at = "ready", !.root = n]
                     \/ host' = [Failing(host) EXCEPT !.at = "loop", !.connected = FALSE]
    BY Zenon DEF SpawnRoot
  <2> QED BY <2>2, <2>3, <2>4, Zenon DEF SpawnRoot
<1>4. CASE ProcessStep
  BY <1>3, <1>4 DEF ProcessStep, ProcessExits, ProcessReaps, OutsiderStarts, Fork
<1>5. CASE HostStep
  <2>1. CASE RecvActivate \/ Contained \/ RecvCommand \/ HostAborts
    BY <1>1, <1>2, <1>3, <2>1 DEF RecvActivate, Contained, RecvCommand, HostAborts, HostState
  <2>2. CASE SpawnRoot
    BY <1>3, <2>2
  <2>3. CASE SendReady
    <3>1. Failing(host) \in HostState
      BY <1>1 DEF Failing, HostState
    <3>2. host.at = "ready" /\ host'.at = "loop"
      BY <1>1, <2>3, <3>1 DEF SendReady, HostState
    <3> QED BY <1>3, <3>2
  <2>4. CASE ScanDone
    <3>1. /\ host.at = "scan"
          /\ \/ \E n, m : host' = [host EXCEPT !.at = "signal", !.empty = n, !.phase = m]
             \/ \E n : host' = [host EXCEPT !.at = "loop", !.empty = n]
             \/ HostEnds("gone")
      BY <2>4, Zenon DEF ScanDone
    <3>2. host'.at \in {"signal", "loop", "gone"}
      BY <1>1, <1>2, <3>1 DEF HostState
    <3> QED BY <1>3, <3>1, <3>2
  <2>5. CASE \/ TryRootExit \/ ReadControl \/ BeginCleanup \/ ReadEntry \/ OpenPidfd
             \/ CheckIdentity \/ SendSignal \/ SignalsDone \/ ReapExitedChildren
    BY <1>1, <1>3, <2>5 DEF TryRootExit, ReadControl, BeginCleanup, ReadEntry, OpenPidfd,
         CheckIdentity, SendSignal, Sent, SignalsDone, ReapExitedChildren, HostState
  <2> QED BY <1>5, <2>1, <2>2, <2>3, <2>4, <2>5 DEF HostStep
<1>6. CASE ParentStep
  BY <1>2, <1>3, <1>6 DEF ParentStep, ParentActivates, ParentSendsCommand, ParentReady,
       StartFails, ParentKillsHost, SendStop, RecvEvent, StopUnanswered, ChannelLost
<1>7. CASE FaultStep
  <2>1. CASE HostKilled
    BY <1>2, <1>3, <2>1 DEF HostKilled, HostAlive
  <2>2. CASE CleanupRequested \/ CleanupFails
    BY <1>1, <1>3, <2>2 DEF CleanupRequested, CleanupFails, Failing, HostState
  <2> QED BY <1>7, <2>1, <2>2 DEF FaultStep
<1> QED BY <1>4, <1>5, <1>6, <1>7 DEF Next

LEMMA ParentMoves ==
    ASSUME IInv, Next
    PROVE  \/ parent'.at = parent.at /\ parent'.sent = parent.sent
           \/ ParentActivates /\ parent.at = "accept" /\ parent'.at = "contained"
              /\ parent'.sent = parent.sent
           \/ ParentSendsCommand /\ parent'.at = "ready" /\ parent'.sent
           \/ /\ parent.at \in {"ready", "running", "stopping"}
              /\ parent'.at \in {"running", "stopping", "lost"} /\ parent'.sent = parent.sent
           \/ /\ StartFails /\ parent.at \in {"accept", "contained", "ready"}
              /\ parent'.at = (IF parent.sent THEN "failed" ELSE "killing")
              /\ parent'.sent = parent.sent
           \/ /\ ParentKillsHost /\ parent.at = "killing" /\ parent'.at = "failed"
              /\ parent'.sent = parent.sent
           \/ /\ RecvEvent /\ parent.at = "stopping" /\ parent'.at = "confirmed"
              /\ toParent # <<>> /\ Head(toParent) = "Done" /\ parent'.sent = parent.sent
<1>1. parent \in Parent
  BY DEF IInv, TypeOK
<1>2. CASE parent' = parent
  BY <1>2
<1>3. CASE ProcessStep \/ FaultStep
  BY <1>2, <1>3 DEF ProcessStep, ProcessExits, ProcessReaps, OutsiderStarts, Fork,
       FaultStep, HostKilled, CleanupRequested, CleanupFails
<1>4. CASE HostStep
  BY <1>2, <1>4 DEF HostStep, RecvActivate, Contained, RecvCommand, HostAborts, SpawnRoot,
       SendReady, TryRootExit, ReadControl, BeginCleanup, ReapExitedChildren, ReadEntry,
       ScanDone, OpenPidfd, CheckIdentity, SendSignal, Sent, SignalsDone
<1>5. CASE ParentActivates
  BY <1>1, <1>5 DEF ParentActivates, Parent
<1>6. CASE ParentSendsCommand
  BY <1>1, <1>6 DEF ParentSendsCommand, Parent
<1>7. CASE StartFails
  BY <1>1, <1>7 DEF StartFails, Parent
<1>8. CASE ParentKillsHost
  BY <1>1, <1>8 DEF ParentKillsHost, Parent
<1>9. CASE RecvEvent
  BY <1>1, <1>9 DEF RecvEvent, Parent
<1>10. CASE ParentReady \/ SendStop \/ StopUnanswered \/ ChannelLost
  <2>1. CASE ParentReady
    BY <1>1, <2>1 DEF ParentReady, Parent
  <2>2. CASE SendStop \/ StopUnanswered
    BY <1>1, <2>2 DEF SendStop, StopUnanswered, Parent
  <2>3. CASE ChannelLost
    <3>1. parent' = [parent EXCEPT !.at = "lost", !.open = FALSE]
      BY <2>3 DEF ChannelLost
    <3>2. parent'.at = "lost" /\ parent'.sent = parent.sent
      BY <1>1, <3>1 DEF Parent
    <3> QED BY <2>3, <3>2 DEF ChannelLost
  <2> QED BY <1>10, <2>1, <2>2, <2>3
<1> QED BY <1>3, <1>4, <1>5, <1>6, <1>7, <1>8, <1>9, <1>10 DEF Next, ParentStep
-----------------------------------------------------------------------------
(* The steps of the invariant. *)

LEMMA HandshakeStep == ASSUME IInv, Next PROVE Handshake'
<1>1. Handshake /\ toHost \in Seq(Frames) /\ parent' \in Parent /\ parent \in Parent
  BY ParentTyped DEF IInv, TypeOK
<1>2. /\ parent'.at \in {"accept", "contained", "killing"} => ~parent'.sent
      /\ parent'.at \in {"ready", "running", "stopping", "confirmed", "lost"} => parent'.sent
      /\ ~parent'.sent => ~parent.sent /\ ~ParentSendsCommand
  <2>1. ParentSendsCommand => parent'.sent
    BY <1>1 DEF ParentSendsCommand, Parent
  <2> QED BY <1>1, <2>1, ParentMoves DEF Handshake
<1>3. ASSUME ~parent'.sent
      PROVE  /\ \A i \in DOMAIN toHost' : toHost'[i] # "Command"
             /\ ~RecvCommand
  <2>1. \A i \in DOMAIN toHost : toHost[i] # "Command"
    BY <1>1, <1>2, <1>3 DEF Handshake
  <2>2. ~RecvCommand
    BY <1>1, <2>1 DEF RecvCommand, HostReads
  <2>3. CASE toHost' = toHost
    BY <2>1, <2>2, <2>3
  <2>4. CASE toHost # <<>> /\ toHost' = Tail(toHost)
    BY <1>1, <2>1, <2>2, <2>4
  <2>5. CASE toHost' = Append(toHost, "Activate")
    BY <1>1, <2>1, <2>2, <2>5
  <2>6. CASE toHost' = Append(toHost, "Stop")
    BY <1>1, <2>1, <2>2, <2>6
  <2> QED BY <1>2, <1>3, <2>2, <2>3, <2>4, <2>5, <2>6, ChannelMoves
<1>4. ASSUME ~parent'.sent
      PROVE  host'.at \in {"activate", "preflight", "command", "gone", "killed"}
  <2>1. host.at \in {"activate", "preflight", "command", "gone", "killed"}
    BY <1>1, <1>2, <1>4 DEF Handshake
  <2> QED BY <1>3, <1>4, <2>1, HostMoves, HostStays DEF HostAlive
<1>5. ASSUME ~parent'.sent \/ host'.at \in {"activate", "preflight", "command", "spawn"}
      PROVE  Running' = {}
  <2>1. Running = {}
    BY <1>1, <1>2, <1>5, HostMoves DEF Handshake, RecvCommand
  <2>2. ~SpawnRoot
    BY <1>4, <1>5, HostMoves
  <2> QED BY <2>1, <2>2, RunningMoves
<1>6. ASSUME parent'.at = "failed", ~parent'.sent PROVE ~HostAlive'
  <2>1. CASE parent.at = "failed"
    <3>1. ~HostAlive /\ host' = host
      BY <1>1, <1>2, <1>6, <2>1, HostStays DEF Handshake
    <3> QED BY <3>1 DEF HostAlive
  <2>2. CASE parent.at # "failed"
    <3>1. ParentKillsHost
      BY <1>2, <1>6, <2>2, ParentMoves
    <3>2. HostEnds("killed") \/ (~HostAlive /\ host' = host)
      BY <3>1 DEF ParentKillsHost
    <3> QED BY <3>2 DEF HostEnds, HostAlive, IInv, TypeOK, HostState
  <2> QED BY <2>1, <2>2
<1> QED BY <1>2, <1>3, <1>4, <1>5, <1>6 DEF Handshake

(* An empty scan has missed nobody. *)
LEMMA EmptyScan ==
    ASSUME IInv, host.at = "scan", scan.next > MaxPid, Descendants(scan.seen) = {}
    PROVE  Running = {}
<1>1. ~(\E e \in scan.seen : e.parent = Host)
  BY DescendantsAre
<1>2. ~(\E p \in Pids : p >= scan.next)
  BY BoundAssumption DEF Pids, IInv, TypeOK, Scan
<1> QED BY <1>1, <1>2 DEF IInv, Watched

LEMMA ConfirmedStep == ASSUME IInv, Next PROVE Confirmed'
<1> DEFINE said == (\E i \in DOMAIN toParent : toParent[i] = "Done") \/ parent.at = "confirmed"
<1>1. toParent \in Seq(Frames) /\ Confirmed
  BY DEF IInv, TypeOK
<1>2. CASE said
  <2>1. host' = host /\ host.at = "gone" /\ Running = {}
    BY <1>1, <1>2, HostStays DEF Confirmed, HostAlive
  <2>2. Running' = {}
    BY <2>1, HostMoves, RunningMoves
  <2> QED BY <2>1, <2>2 DEF Confirmed
<1>3. CASE ~said
  <2>1. parent'.at # "confirmed"
    <3>1. ~(toParent # <<>> /\ Head(toParent) = "Done")
      BY <1>1, <1>3
    <3> QED BY <1>3, <3>1, ParentMoves
  <2>2. CASE ScanDone /\ HostEnds("gone") /\ toParent' = Append(toParent, "Done")
    <3>1. host'.at = "gone"
      BY <2>2 DEF HostEnds, IInv, TypeOK, HostState
    <3>2. Descendants(scan.seen) = {}
      <4>1. Descendants(scan.seen) # {} => toParent' = toParent
        BY <2>2, Zenon DEF ScanDone
      <4> QED BY <1>1, <2>2, <4>1
    <3>3. host.at = "scan" /\ scan.next > MaxPid
      BY <2>2 DEF ScanDone
    <3>4. Running' = {}
      BY <3>2, <3>3, EmptyScan, HostMoves, RunningMoves
    <3> QED BY <3>1, <3>4 DEF Confirmed
  <2>3. ASSUME \A i \in DOMAIN toParent' : toParent'[i] # "Done" PROVE Confirmed'
    BY <2>1, <2>3 DEF Confirmed
  <2>4. \A i \in DOMAIN toParent : toParent[i] # "Done"
    BY <1>3
  <2>5. CASE toParent' = toParent
    BY <2>3, <2>4, <2>5
  <2>6. CASE toParent # <<>> /\ toParent' = Tail(toParent)
    <3>1. \A i \in DOMAIN toParent' : toParent'[i] # "Done"
      BY <1>1, <2>4, <2>6
    <3> QED BY <2>3, <3>1
  <2>7. ASSUME NEW f \in Frames, f # "Done", toParent' = Append(toParent, f) PROVE Confirmed'
    <3>1. \A i \in DOMAIN toParent' : toParent'[i] # "Done"
      BY <1>1, <2>4, <2>7
    <3> QED BY <2>3, <3>1
  <2>8. {"Contained", "Ready", "CleanupFailed"} \subseteq Frames
    BY DEF Frames
  <2> QED BY <2>2, <2>5, <2>6, <2>7, <2>8, ChannelMoves
<1> HIDE DEF said
<1> QED BY <1>2, <1>3

(* A child of the host stays where it is while the host scans. *)
LEMMA ChildStays ==
    ASSUME IInv, Next, host.at = "scan", host'.at = "scan",
           NEW p \in Pids, Used(p), table[p].parent = Host
    PROVE  Used(p)' /\ table'[p].parent = Host
<1>1. TypeOK /\ table \in [Pids -> Entry] /\ Host \notin Pids /\ Host # Outside
  BY Tables DEF IInv
<1>2. CASE table' = table
  BY <1>2 DEF Used
<1>3. ASSUME NEW q, NEW by, NEW ours, Begets(q, by, ours)
      PROVE  Used(p)' /\ table'[p].parent = Host
  <2>1. q # p
    BY <1>3 DEF Begets, Used
  <2>2. table'[p] = table[p]
    BY <1>1, <1>3, <2>1 DEF Begets
  <2> QED BY <2>2 DEF Used
<1>4. ASSUME NEW r \in Pids, table[r].is = "live", table' = Exited(table, r)
      PROVE  Used(p)' /\ table'[p].parent = Host
  BY <1>1, <1>4, ExitedEntry DEF Used
<1>5. ASSUME NEW Z \in SUBSET Pids, Reaping(Z) PROVE Used(p)' /\ table'[p].parent = Host
  <2>1. p \notin Z /\ table'[p] = table[p]
    BY <1>1, <1>5 DEF Reaping
  <2> QED BY <2>1 DEF Used
<1> QED BY <1>2, <1>3, <1>4, <1>5, TableMoves

LEMMA WatchedStep == ASSUME IInv, Next PROVE Watched'
<1> SUFFICES ASSUME host'.at = "scan", Running' # {}
             PROVE  \/ \E e \in scan'.seen : e.parent = Host
                    \/ \E p \in Pids : p >= scan'.next /\ Used(p)' /\ table'[p].parent = Host
  BY DEF Watched
<1>1. ~SpawnRoot /\ Running # {}
  BY HostMoves, RunningMoves
<1>2. CASE ReapExitedChildren
  <2>1. HostAlive /\ scan' = NoScan
    BY <1>2 DEF ReapExitedChildren, HostAlive, IInv, TypeOK
  <2>2. PICK p \in Running : table[p].parent = Host
    BY <1>1, <2>1, Oldest DEF IInv
  <2>3. p \in Pids /\ table[p].is = "live" /\ table'[p] = table[p]
    BY <1>2, <2>2 DEF ReapExitedChildren, Running, HostZombies
  <2>4. scan'.next = 1
    BY <2>1 DEF NoScan
  <2> QED BY <2>2, <2>3, <2>4 DEF Used, Pids
<1>3. CASE host.at = "scan"
  <2>1. scan \in Scan /\ MaxPid \in Nat
    BY BoundAssumption DEF IInv, TypeOK
  <2>2. CASE ReadEntry
    <3> DEFINE p == scan.next
               e == [pid |-> p, parent |-> table[p].parent, born |-> table[p].born,
                     live |-> table[p].is = "live"]
    <3>1. /\ p \in Pids /\ table' = table
          /\ scan' = [scan EXCEPT !.next = p + 1,
                        !.seen = IF table[p].is = "free" THEN @ ELSE @ \cup {e}]
      BY <2>1, <2>2 DEF ReadEntry, Scan, Pids
    <3>2. e.parent = table[p].parent
      OBVIOUS
    <3> HIDE DEF e
    <3>3. /\ scan'.next = p + 1
          /\ scan'.seen = IF table[p].is = "free" THEN scan.seen ELSE scan.seen \cup {e}
      BY <2>1, <3>1 DEF Scan
    <3>4. CASE \E d \in scan.seen : d.parent = Host
      BY <3>3, <3>4
    <3>5. CASE \E q \in Pids : q >= p /\ Used(q) /\ table[q].parent = Host
      <4>1. PICK q \in Pids : q >= p /\ Used(q) /\ table[q].parent = Host
        BY <3>5
      <4>2. CASE q = p
        BY <3>2, <3>3, <4>1, <4>2 DEF Used
      <4>3. CASE q # p
        <5>1. q >= p + 1
          BY <3>1, <4>1, <4>3 DEF Pids
        <5> QED BY <3>1, <3>3, <4>1, <5>1 DEF Used
      <4> QED BY <4>2, <4>3
    <3> QED BY <1>1, <1>3, <3>4, <3>5 DEF IInv, Watched
  <2>3. CASE scan' = scan
    BY <1>1, <1>3, <2>3, ChildStays DEF IInv, Watched
  <2>4. ReadEntry \/ scan' = scan
    <3>1. CASE ProcessStep \/ ParentStep
      <4>1. ASSUME HostEnds("killed") PROVE FALSE
        BY <4>1 DEF HostEnds, IInv, TypeOK, HostState
      <4> QED BY <3>1, <4>1 DEF ProcessStep, ProcessExits, ProcessReaps, OutsiderStarts, Fork,
            ParentStep, ParentActivates, ParentSendsCommand, ParentReady, StartFails,
            ParentKillsHost, SendStop, RecvEvent, StopUnanswered, ChannelLost
    <3>2. CASE HostStep
      <4>1. CASE ScanDone
        <5>1. \/ \E n, m : host' = [host EXCEPT !.at = "signal", !.empty = n, !.phase = m]
              \/ \E n : host' = [host EXCEPT !.at = "loop", !.empty = n]
              \/ HostEnds("gone")
          BY <4>1, Zenon DEF ScanDone
        <5> QED BY <5>1 DEF HostEnds, IInv, TypeOK, HostState
      <4>2. CASE ~ScanDone
        BY <1>3, <3>2, <4>2 DEF HostStep, RecvActivate, Contained, RecvCommand, HostAborts,
             SpawnRoot, SendReady, TryRootExit, ReadControl, BeginCleanup, ReapExitedChildren,
             OpenPidfd, CheckIdentity, SendSignal, SignalsDone
      <4> QED BY <4>1, <4>2
    <3>3. CASE FaultStep
      <4>1. ASSUME HostEnds("killed") PROVE FALSE
        BY <4>1 DEF HostEnds, IInv, TypeOK, HostState
      <4>2. ~CleanupFails
        BY DEF CleanupFails, IInv, TypeOK, HostState
      <4> QED BY <3>3, <4>1, <4>2 DEF FaultStep, HostKilled, CleanupRequested
    <3> QED BY <3>1, <3>2, <3>3 DEF Next
  <2> QED BY <2>2, <2>3, <2>4
<1> QED BY <1>2, <1>3, HostMoves
-----------------------------------------------------------------------------
(* The signals. *)

LEMMA NumbersKnown ==
    ASSUME IInv
    PROVE  /\ births \in Nat
           /\ \A e \in scan.seen : e.pid \in Pids /\ e.born \in Nat
                                   /\ e.parent \in Pids \cup {Host, Outside}
           /\ \A i \in scan.todo : i.pid \in Pids /\ i.born \in Nat
                                   /\ i = [pid |-> i.pid, born |-> i.born]
           /\ \A f \in scan.fd : f.pid \in Pids /\ f.born \in Nat
BY Tables DEF IInv, TypeOK, Scan, Identity

(* While the scan is left alone, its aims stay true. *)
LEMMA AimsStay ==
    ASSUME IInv, Next
    PROVE  /\ \A e \in scan.seen : e.parent # Outside => Mine(e.pid, e.born)'
           /\ \A i \in scan.todo : Mine(i.pid, i.born)'
           /\ \A f \in scan.fd, g \in scan.fd : f = g
           /\ \A f \in scan.fd, i \in scan.todo :
                i.pid = f.pid => i.born = f.born \/ ~Holds(i.pid, i.born)'
           /\ \A f \in scan.fd : /\ f.born <= births'
                                 /\ scan.checked => Mine(f.pid, f.born)'
<1>1. Aimed
  BY DEF IInv
<1>2. ASSUME NEW p \in Pids, NEW b \in Nat, Mine(p, b) PROVE Mine(p, b)'
  BY <1>2, MineStays DEF Mine
<1>3. \A e \in scan.seen : e.parent # Outside => Mine(e.pid, e.born)'
  BY <1>1, <1>2, NumbersKnown DEF Aimed
<1>4. \A i \in scan.todo : Mine(i.pid, i.born)'
  BY <1>1, <1>2, NumbersKnown DEF Aimed
<1>5. ASSUME NEW f \in scan.fd, NEW i \in scan.todo, i.pid = f.pid, i.born # f.born
      PROVE  ~Holds(i.pid, i.born)'
  <2>1. i.pid \in Pids /\ i.born \in Nat /\ i.born <= births
    BY <1>1, NumbersKnown DEF Aimed, Mine
  <2>2. ~Holds(i.pid, i.born)
    BY <1>1, <1>5 DEF Aimed
  <2> QED BY <2>1, <2>2, MineStays
<1>6. ASSUME NEW f \in scan.fd PROVE f.born <= births' /\ (scan.checked => Mine(f.pid, f.born)')
  BY <1>1, <1>2, MineStays, NumbersKnown DEF Aimed
<1> QED BY <1>1, <1>3, <1>4, <1>5, <1>6 DEF Aimed

(* The steps, by what they do to the scan. *)
LEMMA ScanMoves ==
    ASSUME IInv, Next
    PROVE  \/ scan' = scan \/ scan' = NoScan
           \/ ReadEntry \/ ScanDone \/ OpenPidfd \/ CheckIdentity \/ SendSignal
<1>1. CASE ProcessStep \/ FaultStep
  BY <1>1 DEF ProcessStep, ProcessExits, ProcessReaps, OutsiderStarts, Fork, FaultStep,
       HostKilled, HostEnds, CleanupRequested, CleanupFails
<1>2. CASE HostStep
  BY <1>2 DEF HostStep, RecvActivate, Contained, RecvCommand, HostAborts, HostEnds, SpawnRoot,
       SendReady, TryRootExit, ReadControl, BeginCleanup, ReapExitedChildren, SignalsDone
<1>3. CASE ParentStep
  BY <1>3 DEF ParentStep, ParentActivates, ParentSendsCommand, ParentReady, StartFails,
       ParentKillsHost, HostEnds, SendStop, RecvEvent, StopUnanswered, ChannelLost
<1> QED BY <1>1, <1>2, <1>3 DEF Next

LEMMA AimedStep == ASSUME IInv, Next PROVE Aimed'
<1>1. /\ scan \in Scan /\ Aimed /\ Family /\ MaxPid \in Nat
      /\ table \in [Pids -> Entry] /\ births \in Nat
  BY Tables DEF IInv, TypeOK
<1>2. CASE scan' = scan
  BY <1>2, AimsStay DEF Aimed
<1>3. ASSUME scan'.seen = {}, scan'.fd = {}, ~scan'.checked,
             \A i \in scan'.todo : Mine(i.pid, i.born)'
      PROVE  Aimed'
  BY <1>3 DEF Aimed
<1>4. CASE scan' = NoScan
  BY <1>3, <1>4 DEF NoScan
<1>5. CASE ReadEntry
  <2>1. PICK p \in Pids : p = scan.next
    BY <1>1, <1>5 DEF ReadEntry, Scan, Pids
  <2>2. PICK e : e = [pid |-> p, parent |-> table[p].parent, born |-> table[p].born,
                      live |-> table[p].is = "live"]
    OBVIOUS
  <2>3. e.parent = table[p].parent /\ e.pid = p /\ e.born = table[p].born
    BY <2>2
  <2>4. /\ table' = table /\ births' = births
        /\ scan' = [scan EXCEPT !.next = p + 1,
                      !.seen = IF table[p].is = "free" THEN @ ELSE @ \cup {e}]
    BY <1>5, <2>1, <2>2 DEF ReadEntry
  <2>5. /\ scan'.seen = IF table[p].is = "free" THEN scan.seen ELSE scan.seen \cup {e}
        /\ scan'.todo = scan.todo /\ scan'.fd = scan.fd /\ scan'.checked = scan.checked
    BY <1>1, <2>4 DEF Scan
  <2>6. table[p].is # "free" /\ e.parent # Outside => Mine(p, table[p].born)
    BY <1>1, <2>3 DEF Family, Mine, Used
  <2>7. table[p].is # "free" /\ e.parent # Outside => Mine(e.pid, e.born)'
    BY <2>3, <2>4, <2>6 DEF Mine, Holds, Used
  <2>8. ASSUME NEW d \in scan'.seen, d.parent # Outside PROVE Mine(d.pid, d.born)'
    BY <2>5, <2>7, <2>8, AimsStay
  <2> QED BY <2>5, <2>8, AimsStay DEF Aimed
<1>6. CASE ScanDone
  <2>1. CASE scan' = NoScan
    BY <1>4, <2>1
  <2>2. CASE scan' # NoScan
    <3> DEFINE S == {[pid |-> e.pid, born |-> e.born] :
                       e \in {d \in Descendants(scan.seen) : d.live}}
    <3>1. scan' = [NoScan EXCEPT !.todo = S]
      BY <1>6, <2>2 DEF ScanDone, HostEnds
    <3>2. ASSUME NEW i \in S PROVE Mine(i.pid, i.born)'
      <4>1. PICK e \in Descendants(scan.seen) : i = [pid |-> e.pid, born |-> e.born]
        OBVIOUS
      <4>2. e \in scan.seen /\ (e.parent = Host \/ e.parent \in Pids)
        BY DescendantsAre, NumbersKnown
      <4>3. e.parent # Outside
        BY <4>2, Tables DEF IInv
      <4>4. Mine(e.pid, e.born)'
        BY <4>2, <4>3, AimsStay
      <4>5. i.pid = e.pid /\ i.born = e.born
        BY <4>1
      <4> QED BY <4>4, <4>5
    <3> HIDE DEF S
    <3>3. scan'.seen = {} /\ scan'.fd = {} /\ ~scan'.checked /\ scan'.todo = S
      BY <3>1 DEF NoScan
    <3> QED BY <1>3, <3>2, <3>3
  <2> QED BY <2>1, <2>2
<1>7. CASE OpenPidfd
  <2>1. PICK i \in scan.todo :
          scan' = IF table[i.pid].is = "free"
                  THEN [scan EXCEPT !.todo = @ \ {i}]
                  ELSE [scan EXCEPT !.todo = {i} \cup @, !.checked = FALSE,
                               !.fd = {[pid |-> i.pid, born |-> table[i.pid].born]}]
    BY <1>7 DEF OpenPidfd
  <2>2. table' = table /\ births' = births /\ scan.fd = {} /\ i.pid \in Pids
    BY <1>7, NumbersKnown DEF OpenPidfd
  <2>3. CASE table[i.pid].is = "free"
    <3>1. /\ scan'.seen = scan.seen /\ scan'.fd = {} /\ scan'.todo \subseteq scan.todo
      BY <1>1, <2>1, <2>2, <2>3 DEF Scan
    <3> QED BY <3>1, AimsStay DEF Aimed
  <2>4. CASE table[i.pid].is # "free"
    <3> DEFINE f == [pid |-> i.pid, born |-> table[i.pid].born]
    <3>1. scan' = [scan EXCEPT !.todo = {i} \cup @, !.checked = FALSE, !.fd = {f}]
      BY <2>1, <2>4
    <3>2. f.pid = i.pid /\ f.born = table[i.pid].born
      OBVIOUS
    <3> HIDE DEF f
    <3>3. /\ scan'.seen = scan.seen /\ scan'.fd = {f} /\ scan'.todo = scan.todo
          /\ ~scan'.checked
      BY <1>1, <3>1 DEF Scan
    <3>4. f.born <= births'
      BY <1>1, <2>2, <3>2 DEF Family
    <3>5. \A k \in scan.todo : k.pid = f.pid => k.born = f.born \/ ~Holds(k.pid, k.born)'
      BY <2>2, <3>2 DEF Holds
    <3> QED BY <3>3, <3>4, <3>5, AimsStay DEF Aimed
  <2> QED BY <2>3, <2>4
<1>8. CASE CheckIdentity
  <2> DEFINE pid == (CHOOSE f \in scan.fd : TRUE).pid
             wanted == {i \in scan.todo : i.pid = pid}
  <2>1. PICK f \in scan.fd : pid = f.pid
    BY <1>8 DEF CheckIdentity
  <2>2. CASE \E i \in wanted : table[pid].is # "free" /\ table[pid].born = i.born
    <3>1. PICK i \in wanted : table[pid].is # "free" /\ table[pid].born = i.born
      BY <2>2
    <3>2. i \in scan.todo /\ i.pid = f.pid /\ Holds(i.pid, i.born)
      BY <2>1, <3>1 DEF Holds, Used
    <3>3. i.born = f.born
      BY <1>1, <3>2 DEF Aimed
    <3>4. Mine(f.pid, f.born)'
      BY <3>2, <3>3, AimsStay
    <3>5. scan' = [scan EXCEPT !.checked = TRUE]
      BY <1>8, <2>2 DEF CheckIdentity
    <3>6. /\ scan'.seen = scan.seen /\ scan'.fd = scan.fd /\ scan'.todo = scan.todo
      BY <1>1, <3>5 DEF Scan
    <3>7. \A g \in scan.fd : Mine(g.pid, g.born)'
      BY <3>4, AimsStay
    <3> QED BY <3>6, <3>7, AimsStay DEF Aimed
  <2>3. CASE ~(\E i \in wanted : table[pid].is # "free" /\ table[pid].born = i.born)
    <3>1. scan' = [scan EXCEPT !.fd = {}, !.todo = @ \ wanted]
      BY <1>8, <2>3 DEF CheckIdentity
    <3> HIDE DEF wanted
    <3>2. /\ scan'.seen = scan.seen /\ scan'.fd = {} /\ scan'.todo \subseteq scan.todo
      BY <1>1, <3>1 DEF Scan
    <3> QED BY <3>2, AimsStay DEF Aimed
  <2> QED BY <2>2, <2>3
<1>9. CASE SendSignal
  <2>1. PICK f \in scan.fd : Sent(f)
    BY <1>9 DEF SendSignal
  <2>2. /\ scan'.seen = scan.seen /\ scan'.fd = {} /\ scan'.todo \subseteq scan.todo
    BY <1>1, <2>1 DEF Sent, Scan
  <2> QED BY <2>2, AimsStay DEF Aimed
<1> QED BY <1>2, <1>4, <1>5, <1>6, <1>7, <1>8, <1>9, ScanMoves

LEMMA StraysStep == ASSUME IInv, Next PROVE NeverStrays'
<1>1. ~strayed /\ Aimed
  BY DEF IInv, NeverStrays
<1>2. CASE SendSignal
  <2>1. PICK f \in scan.fd : strayed' = (strayed \/ (Hit(f) /\ ~table[f.pid].ours))
    BY <1>2 DEF SendSignal
  <2>2. Mine(f.pid, f.born)
    BY <1>1, <1>2 DEF Aimed, SendSignal
  <2>3. Hit(f) => table[f.pid].ours
    BY <2>2 DEF Hit, Mine, Holds, Used
  <2> QED BY <1>1, <2>1, <2>3 DEF NeverStrays
<1>3. CASE ~SendSignal
  <2>1. strayed' = strayed
    BY <1>3 DEF Next, ProcessStep, ProcessExits, ProcessReaps, OutsiderStarts, Fork,
       HostStep, RecvActivate, Contained, RecvCommand, HostAborts, SpawnRoot, SendReady,
       TryRootExit, ReadControl, BeginCleanup, ReapExitedChildren, ReadEntry, ScanDone,
       OpenPidfd, CheckIdentity, SignalsDone, ParentStep, ParentActivates, ParentSendsCommand,
       ParentReady, StartFails, ParentKillsHost, SendStop, RecvEvent, StopUnanswered,
       ChannelLost, FaultStep, HostKilled, CleanupRequested, CleanupFails
  <2> QED BY <1>1, <2>1 DEF NeverStrays
<1> QED BY <1>2, <1>3

-----------------------------------------------------------------------------
(* The inductive invariant. *)

LEMMA InvariantInit == Init => IInv
<1> SUFFICES ASSUME Init PROVE IInv
  OBVIOUS
<1>1. /\ MaxPid \in Nat /\ MaxPid > 0 /\ MaxBirths \in Nat /\ MaxErrors \in Nat
      /\ Pids = 1..MaxPid
  BY BoundAssumption DEF Pids
<1>2. Free \in Entry /\ Free.is = "free" /\ Free.parent = Outside /\ Free.born = 0 /\ ~Free.ours
  BY <1>1 DEF Free, Entry
<1>3. \A p \in Pids : table[p] = Free
  BY DEF Init
<1>4. NoScan \in Scan /\ NoScan.seen = {} /\ NoScan.todo = {} /\ NoScan.fd = {} /\ ~NoScan.checked
  BY <1>1 DEF NoScan, Scan
<1>5. host \in HostState /\ host.at = "activate"
  BY DEF Init, HostState
<1>6. parent \in Parent /\ parent.at = "accept" /\ ~parent.sent
  BY DEF Init, Parent
<1>7. Running = {}
  BY <1>2, <1>3 DEF Running
<1>8. TypeOK
  <2>1. table \in [Pids -> Entry] /\ births \in 0..MaxBirths /\ errors \in 0..MaxErrors
    <3>1. table = [p \in Pids |-> Free] /\ births = 0 /\ errors = MaxErrors
      BY DEF Init
    <3>2. table \in [Pids -> Entry]
      BY <1>2, <3>1, Zenon
    <3>3. births \in 0..MaxBirths /\ errors \in 0..MaxErrors
      <4>1. births = 0 /\ errors = MaxErrors
        BY <3>1
      <4>2. 0 \in 0..MaxBirths /\ MaxErrors \in 0..MaxErrors
        BY BoundAssumption
      <4> QED BY <4>1, <4>2
    <3> QED BY <3>2, <3>3
  <2>2. toHost \in Seq(Frames) /\ toParent \in Seq(Frames) /\ strayed \in BOOLEAN
    <3>1. toHost = <<>> /\ toParent = <<>> /\ strayed = FALSE
      BY DEF Init
    <3>2. <<>> \in Seq(Frames)
      OBVIOUS
    <3> QED BY <3>1, <3>2, Zenon
  <2>3. scan = NoScan
    BY DEF Init
  <2> QED BY <1>4, <1>5, <1>6, <2>1, <2>2, <2>3 DEF TypeOK
<1>9. Family /\ Watched
  BY <1>1, <1>2, <1>3, <1>5 DEF Init, Family, Used, Watched
<1>10. Handshake /\ Confirmed
  BY <1>5, <1>6, <1>7 DEF Init, Handshake, Confirmed
<1>11. Aimed /\ NeverStrays
  BY <1>4 DEF Init, Aimed, NeverStrays
<1> QED BY <1>8, <1>9, <1>10, <1>11 DEF IInv

LEMMA InvariantStep == IInv /\ [Next]_vars => IInv'
<1> SUFFICES ASSUME IInv, [Next]_vars PROVE IInv'
  OBVIOUS
<1>1. CASE Next
  BY <1>1, TypeStep, FamilyStep, HandshakeStep, ConfirmedStep, WatchedStep, AimedStep,
     StraysStep DEF IInv
<1>2. CASE UNCHANGED vars
  BY <1>2 DEF vars, channel, IInv, TypeOK, Family, Rooted, HostAlive, Used, Handshake,
              Confirmed, Running, Watched, Aimed, Mine, Holds, NeverStrays
<1> QED BY <1>1, <1>2

LEMMA Invariance == Spec => []IInv
BY InvariantInit, InvariantStep, PTL DEF Spec

-----------------------------------------------------------------------------
(* The theorems. *)

(* Every variable of the host, its parent and the process table keeps its     *)
(* type, and no scan outlives its attempt.                                    *)
THEOREM TypeCorrect == Spec => []TypeOK
<1>1. IInv => TypeOK
  BY DEF IInv
<1> QED BY <1>1, Invariance, PTL

(* When terminate has returned Ok, nothing the command started is alive,      *)
(* whatever was forked, reparented or reaped while the host read the table;   *)
(* and a host killed by its parent had started nothing.                       *)
THEOREM EndIsEnd == Spec => []EndedMeansGone
<1>1. IInv => EndedMeansGone
  BY DEF IInv, Handshake, Confirmed, EndedMeansGone
<1> QED BY <1>1, Invariance, PTL

(* The host signals no process that is not the session's, however pids are    *)
(* reused between the scan, the pidfd, the second look and the signal.        *)
THEOREM SignalsAreAimed == Spec => []NeverStrays
<1>1. IInv => NeverStrays
  BY DEF IInv
<1> QED BY <1>1, Invariance, PTL
=============================================================================
