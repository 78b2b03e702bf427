------------------------------ MODULE ShellHost ------------------------------
(* The trusted host of a shell session on Linux: tools/src/shell/host.rs and   *)
(* the guard in tools/src/shell/native.rs that talks to it.                    *)
(*                                                                            *)
(* The session's parent starts a host process, which becomes a child          *)
(* subreaper, tells so, receives the command, runs it and ends everything the *)
(* command has started when it is told to stop, when the root exits, or when  *)
(* the parent goes away.  The operating system is modelled by its process     *)
(* table: pids are reused, orphans move to the subreaper, a zombie keeps its  *)
(* pid until its parent reaps it.  The host reads the table one entry at a    *)
(* time while the processes go on.                                            *)
(*                                                                            *)
(* Abstractions.  A frame is its kind; authentication and malformed frames    *)
(* are left out.  Deadlines are choices.  The control thread only delays what *)
(* the main loop reads from the channel.  One round of TERM stands for those  *)
(* of the first 50 ms.  Killing a process ends it in one step.                *)
EXTENDS Integers, Sequences, FiniteSets

CONSTANTS MaxPid,      \* the pids are 1..MaxPid
          MaxBirths,   \* bound: processes ever started
          MaxErrors    \* bound: system calls of the host that fail

ASSUME BoundAssumption == MaxPid \in Nat \ {0} /\ MaxBirths \in Nat /\ MaxErrors \in Nat

VARIABLES table,      \* the process table
          births,     \* processes started so far
          host,       \* the host process
          scan,       \* its scan of the table, and the signals it is sending
          toHost,     \* frames on their way to the host
          toParent,   \* frames on their way to the parent
          parent,     \* the parent: the start of the session and its guard
          errors,     \* system calls that may still fail
          strayed     \* a signal has hit a process the session did not start

channel == <<toHost, toParent>>
vars == <<table, births, host, scan, channel, parent, errors, strayed>>

Pids == 1..MaxPid
Host == 0         \* the host as a parent
Outside == -1     \* init, or any process that has nothing to do with the session
-----------------------------------------------------------------------------
(* born tells the incarnations of a pid apart, as the start time does; ours   *)
(* says that the process descends from the session's command.                 *)
Entry == [is : {"free", "live", "zombie"}, parent : Pids \cup {Host, Outside},
          born : 0..MaxBirths, ours : BOOLEAN]
Identity == [pid : Pids, born : 0..MaxBirths]
HostState == [at : {"activate", "preflight", "command", "spawn", "ready", "loop", "reap",
                    "scan", "signal", "gone", "killed"},
              root : Nat, rootSeen : BOOLEAN, cleaning : BOOLEAN, failed : BOOLEAN,
              reported : BOOLEAN, connected : BOOLEAN, phase : {"none", "term", "kill"},
              empty : 0..2, open : BOOLEAN]
Scan == [next : 1..(MaxPid + 1), seen : SUBSET [pid : Pids, parent : Pids \cup {Host, Outside},
                                                born : 0..MaxBirths, live : BOOLEAN],
         todo : SUBSET Identity, fd : SUBSET Identity, checked : BOOLEAN]
Parent == [at : {"accept", "contained", "ready", "running", "stopping", "confirmed",
                 "killing", "failed", "lost"},
           sent : BOOLEAN, open : BOOLEAN]
Frames == {"Activate", "Contained", "Command", "Ready", "Stop", "CleanupFailed", "Done"}

Free == [is |-> "free", parent |-> Outside, born |-> 0, ours |-> FALSE]
NoScan == [next |-> 1, seen |-> {}, todo |-> {}, fd |-> {}, checked |-> FALSE]

(* Every variable has the type the code gives it, and no scan outlives the    *)
(* attempt it was made for: the next one signals nobody it has not seen.      *)
TypeOK ==
  /\ table \in [Pids -> Entry]
  /\ births \in 0..MaxBirths /\ errors \in 0..MaxErrors
  /\ host \in HostState /\ parent \in Parent
  /\ scan \in Scan /\ (host.at \notin {"scan", "signal"} => scan = NoScan)
  /\ toHost \in Seq(Frames) /\ toParent \in Seq(Frames)
  /\ strayed \in BOOLEAN

Init ==
  /\ table = [p \in Pids |-> Free] /\ births = 0
  /\ host = [at |-> "activate", root |-> 0, rootSeen |-> FALSE, cleaning |-> FALSE,
             failed |-> FALSE, reported |-> FALSE, connected |-> TRUE, phase |-> "none",
             empty |-> 0, open |-> TRUE]
  /\ scan = NoScan
  /\ toHost = <<>> /\ toParent = <<>>
  /\ parent = [at |-> "accept", sent |-> FALSE, open |-> TRUE]
  /\ errors = MaxErrors /\ strayed = FALSE
-----------------------------------------------------------------------------
(* The operating system. *)

HostAlive == host.at \notin {"gone", "killed"}

(* The table after p has exited: its children move to the nearest subreaper,  *)
(* and what belongs to init is reaped at once.                                *)
Reparented(t, p, to) ==
  [q \in Pids |->
    IF t[q].is # "free" /\ t[q].parent = p
    THEN IF to = Outside /\ t[q].is = "zombie" THEN Free ELSE [t[q] EXCEPT !.parent = to]
    ELSE t[q]]

(* A fault: without the subreaper an orphan escapes to init. *)
FaultyExited(t, p) ==
  LET after == IF t[p].parent = Outside THEN Free ELSE [t[p] EXCEPT !.is = "zombie"]
  IN [Reparented(t, p, Outside) EXCEPT ![p] = after]

Exited(t, p) ==
  LET to == IF t[p].ours /\ HostAlive THEN Host ELSE Outside
      after == IF t[p].parent = Outside THEN Free ELSE [t[p] EXCEPT !.is = "zombie"]
  IN [Reparented(t, p, to) EXCEPT ![p] = after]

Start(q, by, ours) ==
  /\ births < MaxBirths /\ births' = births + 1
  /\ table[q].is = "free"
  /\ table' = [table EXCEPT ![q] = [is |-> "live", parent |-> by, born |-> births + 1,
                                    ours |-> ours]]

Fork(p, q) ==
  /\ table[p].is = "live" /\ table[p].ours
  /\ Start(q, p, TRUE)
  /\ UNCHANGED <<host, scan, channel, parent, errors, strayed>>

OutsiderStarts(q) ==
  /\ Start(q, Outside, FALSE)
  /\ UNCHANGED <<host, scan, channel, parent, errors, strayed>>

ProcessExits(p) ==
  /\ table[p].is = "live"
  /\ table' = Exited(table, p)
  /\ UNCHANGED <<births, host, scan, channel, parent, errors, strayed>>

(* A process of the session reaps a child of its own. *)
ProcessReaps(p) ==
  /\ table[p].is = "zombie" /\ table[p].parent \in Pids
  /\ table[table[p].parent].is = "live"
  /\ table' = [table EXCEPT ![p] = Free]
  /\ UNCHANGED <<births, host, scan, channel, parent, errors, strayed>>

HostEnds(how) ==
  /\ host' = [host EXCEPT !.at = how, !.open = FALSE]
  /\ table' = Reparented(table, Host, Outside)
  /\ scan' = NoScan

(* Somebody kills the host: nothing is told to the parent any more. *)
HostKilled ==
  /\ HostAlive /\ errors > 0 /\ errors' = errors - 1
  /\ HostEnds("killed")
  /\ UNCHANGED <<births, channel, parent, strayed>>
-----------------------------------------------------------------------------
(* The start of the session: start_host_protocol and run_host_lifecycle. *)

ToHost(frame) == toHost' = IF host.open THEN Append(toHost, frame) ELSE toHost
ToParent(frame) == toParent' = IF parent.open THEN Append(toParent, frame) ELSE toParent

ParentActivates ==
  /\ parent.at = "accept"
  /\ ToHost("Activate")
  /\ parent' = [parent EXCEPT !.at = "contained"]
  /\ UNCHANGED <<table, births, host, scan, toParent, errors, strayed>>

(* command_sent is set before the command is written. *)
ParentSendsCommand ==
  /\ parent.at = "contained"
  /\ toParent # <<>> /\ Head(toParent) = "Contained" /\ toParent' = Tail(toParent)
  /\ ToHost("Command")
  /\ parent' = [parent EXCEPT !.at = "ready", !.sent = TRUE]
  /\ UNCHANGED <<table, births, host, scan, errors, strayed>>

ParentReady ==
  /\ parent.at = "ready"
  /\ toParent # <<>> /\ Head(toParent) = "Ready" /\ toParent' = Tail(toParent)
  /\ parent' = [parent EXCEPT !.at = "running"]
  /\ UNCHANGED <<table, births, host, scan, toHost, errors, strayed>>

(* A deadline passes or the channel is closed: the parent drops it, and kills *)
(* the host unless the command has been sent.                                 *)
StartFails ==
  /\ parent.at \in {"accept", "contained", "ready"}
  /\ parent' = [parent EXCEPT !.open = FALSE, !.at = IF parent.sent THEN "failed" ELSE "killing"]
  /\ UNCHANGED <<table, births, host, scan, channel, errors, strayed>>

ParentKillsHost ==
  /\ parent.at = "killing"
  /\ parent' = [parent EXCEPT !.at = "failed"]
  /\ IF HostAlive THEN HostEnds("killed") ELSE UNCHANGED <<host, table, scan>>
  /\ UNCHANGED <<births, channel, errors, strayed>>

HostReads(frame) == toHost # <<>> /\ Head(toHost) = frame /\ toHost' = Tail(toHost)

RecvActivate ==
  /\ host.at = "activate" /\ HostReads("Activate")
  /\ host' = [host EXCEPT !.at = "preflight"]
  /\ UNCHANGED <<table, births, scan, toParent, parent, errors, strayed>>

Contained ==
  /\ host.at = "preflight"
  /\ ToParent("Contained")
  /\ host' = [host EXCEPT !.at = "command"]
  /\ UNCHANGED <<table, births, scan, toHost, parent, errors, strayed>>

RecvCommand ==
  /\ host.at = "command" /\ HostReads("Command")
  /\ host' = [host EXCEPT !.at = "spawn"]
  /\ UNCHANGED <<table, births, scan, toParent, parent, errors, strayed>>

(* The host gives up before it has started anything: the deadline of the      *)
(* start passes, the channel is closed, or it cannot become a subreaper.      *)
HostAborts ==
  /\ host.at \in {"activate", "preflight", "command"}
  /\ HostEnds("gone")
  /\ UNCHANGED <<births, channel, parent, errors, strayed>>

Failing(h) == [h EXCEPT !.failed = TRUE, !.cleaning = TRUE]

SpawnRoot ==
  /\ host.at = "spawn"
  /\ \/ \E q \in Pids : /\ Start(q, Host, TRUE)
                        /\ host' = [host EXCEPT !.at = "ready", !.root = births']
        /\ UNCHANGED errors
     \/ /\ errors > 0 /\ errors' = errors - 1
        /\ host' = [Failing(host) EXCEPT !.at = "loop", !.connected = FALSE]
        /\ UNCHANGED <<table, births>>
  /\ UNCHANGED <<scan, channel, parent, strayed>>

(* send_ready and the control thread, either of which may fail. *)
SendReady ==
  /\ host.at = "ready"
  /\ \/ /\ parent.open /\ ToParent("Ready")
        /\ host' = [host EXCEPT !.at = "loop"]
     \/ /\ ToParent("Ready") \/ UNCHANGED toParent
        /\ host' = [Failing(host) EXCEPT !.at = "loop", !.connected = FALSE]
  /\ UNCHANGED <<table, births, scan, toHost, parent, errors, strayed>>
-----------------------------------------------------------------------------
(* The main loop of run_host_lifecycle. *)

(* A signal to the host, or an error of try_root_exit. *)
CleanupRequested ==
  /\ host.at = "loop" /\ ~host.cleaning
  /\ errors > 0 /\ errors' = errors - 1
  /\ host' \in {[host EXCEPT !.cleaning = TRUE], Failing(host)}
  /\ UNCHANGED <<table, births, scan, channel, parent, strayed>>

HostZombies(t) == {p \in Pids : t[p].is = "zombie" /\ t[p].parent = Host}

RootGone(ps) == host.rootSeen \/ \E p \in ps : table[p].born = host.root

TryRootExit ==
  /\ host.at = "loop" /\ ~host.cleaning
  /\ \E p \in HostZombies(table) :
       table[p].born = host.root /\ table' = [table EXCEPT ![p] = Free]
  /\ host' = [host EXCEPT !.rootSeen = TRUE, !.cleaning = TRUE]
  /\ UNCHANGED <<births, scan, channel, parent, errors, strayed>>

(* A fault: the end of the channel only stops the host from answering. *)
FaultyReadControl ==
  /\ host.at = "loop" /\ host.connected
  /\ \/ /\ HostReads("Stop")
        /\ host' = [host EXCEPT !.cleaning = TRUE]
     \/ /\ toHost = <<>> /\ ~parent.open /\ UNCHANGED toHost
        /\ host' = [host EXCEPT !.connected = FALSE]
  /\ UNCHANGED <<table, births, scan, toParent, parent, errors, strayed>>

(* What the control thread has read: STOP, or the end of the channel. *)
ReadControl ==
  /\ host.at = "loop" /\ host.connected
  /\ \/ /\ HostReads("Stop")
        /\ host' = [host EXCEPT !.cleaning = TRUE]
     \/ /\ toHost = <<>> /\ ~parent.open /\ UNCHANGED toHost
        /\ host' = [host EXCEPT !.cleaning = TRUE, !.connected = FALSE]
  /\ UNCHANGED <<table, births, scan, toParent, parent, errors, strayed>>

BeginCleanup ==
  /\ host.at = "loop" /\ host.cleaning
  /\ host' = [host EXCEPT !.at = "reap"]
  /\ UNCHANGED <<table, births, scan, channel, parent, errors, strayed>>

(* cleanup fails; the parent is told once. *)
CleanupFails ==
  /\ host.at \in {"reap", "scan", "signal"}
  /\ errors > 0 /\ errors' = errors - 1
  /\ scan' = NoScan
  /\ IF host.connected /\ ~host.reported
     THEN IF parent.open
          THEN ToParent("CleanupFailed") /\ host' = [host EXCEPT !.at = "loop", !.reported = TRUE]
          ELSE host' = [host EXCEPT !.at = "loop", !.connected = FALSE] /\ UNCHANGED toParent
     ELSE host' = [host EXCEPT !.at = "loop"] /\ UNCHANGED toParent
  /\ UNCHANGED <<table, births, toHost, parent, strayed>>

(* reap_exited_children: the zombies of the host, the root last. *)
ReapExitedChildren ==
  /\ host.at = "reap"
  /\ table' = [p \in Pids |-> IF p \in HostZombies(table) THEN Free ELSE table[p]]
  /\ host' = [host EXCEPT !.at = "scan", !.rootSeen = RootGone(HostZombies(table))]
  /\ UNCHANGED <<births, scan, channel, parent, errors, strayed>>

(* linux_process_table reads one entry; a pid that is gone is passed over. *)
ReadEntry ==
  /\ host.at = "scan" /\ scan.next <= MaxPid
  /\ LET p == scan.next IN
       scan' = [scan EXCEPT !.next = p + 1,
                  !.seen = IF table[p].is = "free" THEN @
                           ELSE @ \cup {[pid |-> p, parent |-> table[p].parent,
                                         born |-> table[p].born, live |-> table[p].is = "live"]}]
  /\ UNCHANGED <<table, births, host, channel, parent, errors, strayed>>

(* linux_descendants_from_table: down from the host, by the parents read. *)
Descendants(seen) ==
  LET below[n \in 0..MaxPid] ==
        IF n = 0 THEN {}
        ELSE {e \in seen : e.parent = Host \/ e.parent \in {d.pid : d \in below[n - 1]}}
  IN below[MaxPid]

(* Two empty scans in a row end the cleanup; anything else is signalled. *)
ScanDone ==
  /\ host.at = "scan" /\ scan.next > MaxPid
  /\ LET found == Descendants(scan.seen) IN
       IF found # {}
       THEN /\ host' = [host EXCEPT !.at = "signal", !.empty = 0,
                                    !.phase = IF host.phase = "none" THEN "term" ELSE "kill"]
            /\ scan' = [NoScan EXCEPT !.todo = {[pid |-> e.pid, born |-> e.born] :
                                                 e \in {d \in found : d.live}}]
            /\ UNCHANGED <<table, toParent>>
       ELSE IF host.empty = 0
            THEN /\ host' = [host EXCEPT !.at = "loop", !.empty = 1]
                 /\ scan' = NoScan
                 /\ UNCHANGED <<table, toParent>>
            ELSE /\ HostEnds("gone")
                 /\ IF host.connected /\ ~host.failed THEN ToParent("Done") ELSE UNCHANGED toParent
  /\ UNCHANGED <<births, toHost, parent, errors, strayed>>

(* signal_descendants: open a pidfd, look at the pid again, and signal.       *)
OpenPidfd ==
  /\ host.at = "signal" /\ scan.fd = {}
  /\ \E i \in scan.todo :
       scan' = IF table[i.pid].is = "free"
               THEN [scan EXCEPT !.todo = @ \ {i}]
               ELSE [scan EXCEPT !.todo = {i} \cup @, !.checked = FALSE,
                                 !.fd = {[pid |-> i.pid, born |-> table[i.pid].born]}]
  /\ UNCHANGED <<table, births, host, channel, parent, errors, strayed>>

(* The pid must still carry the start time of the scan; the second scan that  *)
(* looks for it among the descendants is taken to find it.                    *)
CheckIdentity ==
  /\ host.at = "signal" /\ scan.fd # {} /\ ~scan.checked
  /\ LET pid == (CHOOSE f \in scan.fd : TRUE).pid
         wanted == {i \in scan.todo : i.pid = pid} IN
       IF \E i \in wanted : table[pid].is # "free" /\ table[pid].born = i.born
       THEN scan' = [scan EXCEPT !.checked = TRUE]
       ELSE scan' = [scan EXCEPT !.fd = {}, !.todo = @ \ wanted]
  /\ UNCHANGED <<table, births, host, channel, parent, errors, strayed>>

Sent(f) ==
  /\ scan' = [scan EXCEPT !.fd = {}, !.checked = FALSE, !.todo = {i \in @ : i.pid # f.pid}]
  /\ UNCHANGED <<births, host, channel, parent, errors>>

(* A fault: the signal goes to whatever process has the pid now. *)
FaultyHit(f) == table[f.pid].is = "live"

Hit(f) == table[f.pid].is = "live" /\ table[f.pid].born = f.born

(* pidfd_send_signal reaches the process the pidfd was opened on, or nobody. *)
SendSignal ==
  /\ host.at = "signal" /\ scan.checked
  /\ \E f \in scan.fd :
       /\ Sent(f)
       /\ strayed' = (strayed \/ (Hit(f) /\ ~table[f.pid].ours))
       /\ table' = IF Hit(f) /\ host.phase = "kill" THEN Exited(table, f.pid) ELSE table

(* A fault: the list of the last attempt is kept. *)
FaultySignalsDone ==
  /\ host.at = "signal" /\ scan.fd = {} /\ scan.todo = {}
  /\ host' = [host EXCEPT !.at = "loop"]
  /\ scan' = [scan EXCEPT !.next = MaxPid + 1]
  /\ UNCHANGED <<table, births, channel, parent, errors, strayed>>

SignalsDone ==
  /\ host.at = "signal" /\ scan.todo = {}
  /\ host' = [host EXCEPT !.at = "loop"]
  /\ scan' = NoScan
  /\ UNCHANGED <<table, births, channel, parent, errors, strayed>>
-----------------------------------------------------------------------------
(* The guard: terminate, and what its owner may do to it. *)

SendStop ==
  /\ parent.at = "running"
  /\ Len(toHost) < 2                        \* bound: STOP frames under way
  /\ ToHost("Stop")
  /\ parent' = [parent EXCEPT !.at = "stopping"]
  /\ UNCHANGED <<table, births, host, scan, toParent, errors, strayed>>

RecvEvent ==
  /\ parent.at = "stopping"
  /\ toParent # <<>> /\ toParent' = Tail(toParent)
  /\ parent' = IF Head(toParent) = "Done" THEN [parent EXCEPT !.at = "confirmed", !.open = FALSE]
               ELSE [parent EXCEPT !.at = "running"]
  /\ UNCHANGED <<table, births, host, scan, toHost, errors, strayed>>

(* The deadline of the answer passes, or the host has closed the channel. *)
StopUnanswered ==
  /\ parent.at = "stopping"
  /\ parent' = [parent EXCEPT !.at = "running"]
  /\ UNCHANGED <<table, births, host, scan, channel, errors, strayed>>

(* The caller's own timeout drops the pending operation and the channel with  *)
(* it; the guard is dropped armed, with a last STOP; or the parent dies.      *)
ChannelLost ==
  /\ parent.at \in {"running", "stopping"}
  /\ parent' = [parent EXCEPT !.at = "lost", !.open = FALSE]
  /\ ToHost("Stop") \/ UNCHANGED toHost
  /\ UNCHANGED <<table, births, host, scan, toParent, errors, strayed>>

ProcessStep ==
  \E p \in Pids : \/ ProcessExits(p) \/ ProcessReaps(p) \/ OutsiderStarts(p)
                  \/ \E q \in Pids : Fork(p, q)

HostStep ==
  \/ RecvActivate \/ Contained \/ RecvCommand \/ HostAborts \/ SpawnRoot \/ SendReady
  \/ TryRootExit \/ ReadControl \/ BeginCleanup \/ ReapExitedChildren \/ ReadEntry \/ ScanDone
  \/ OpenPidfd \/ CheckIdentity \/ SendSignal \/ SignalsDone

ParentStep ==
  \/ ParentActivates \/ ParentSendsCommand \/ ParentReady \/ StartFails \/ ParentKillsHost
  \/ SendStop \/ RecvEvent \/ StopUnanswered \/ ChannelLost

FaultStep == HostKilled \/ CleanupRequested \/ CleanupFails

Next == ProcessStep \/ HostStep \/ ParentStep \/ FaultStep

Spec == Init /\ [][Next]_vars

(* The host is scheduled; it reads its channel at least once in a while, also *)
(* while it cleans up.  Nothing is assumed of the processes and the parent.   *)
Fairness == WF_vars(HostStep) /\ SF_vars(ReadControl)

FairSpec == Spec /\ Fairness
-----------------------------------------------------------------------------
(* Properties. *)

Running == {p \in Pids : table[p].is = "live" /\ table[p].ours}

(* When terminate has returned Ok, nothing the command started is left: not a *)
(* grandchild whose parent exited during the scan, not a process forked       *)
(* behind its back.  ShellManager takes this for granted of its back end.     *)
(* And the parent kills a host whose start failed only when it has started    *)
(* nothing: a tree is never left without the host that has to end it.         *)
EndedMeansGone ==
  /\ parent.at = "confirmed" => Running = {}
  /\ parent.at = "failed" /\ ~parent.sent => Running = {} /\ ~HostAlive

(* The host never signals a process that is not the session's, although pids  *)
(* are reused between the scan, the checks and the signal.                    *)
NeverStrays == ~strayed

(* A parent that goes away, for whatever reason, takes the session with it,   *)
(* unless somebody kills the host.                                            *)
TreeEnds == ~parent.open ~> (Running = {} \/ host.at = "killed")
=============================================================================
