---------------------------- MODULE ShellManager ----------------------------
(* The sessions of the full-access shell: tools/src/shell/manager.rs.          *)
(*                                                                            *)
(* Start calls, poll and stop calls, and the permission toggles               *)
(* (enable, disable_and_stop_all) run concurrently on one manager; a cleanup  *)
(* attempt of a session is a task of its own that its callers wait for.  One  *)
(* action is one section between two locks or two awaits; the awaits of one   *)
(* task that touch nothing another task reads are taken together.             *)
(*                                                                            *)
(* Abstractions.  A start call is named by the session it would create (the   *)
(* ids of ProcessShellSessionIds never repeat).  Time is a choice: a timeout  *)
(* may fire whenever what it waits for has not happened, and the receipts gc  *)
(* drops are any of those it may.  What a receipt says (its output, how the   *)
(* session ended) is left out, and so are poisoned mutexes.  The back end is  *)
(* external: terminate returns Ok only when no process of the tree is left    *)
(* (what ShellHost shows of the Linux host), and it may fail or time out.     *)
EXTENDS Naturals, FiniteSets

CONSTANTS Sessions,        \* the start calls, each with the session it creates
          NoSession,       \* no session
          MaxRunning,      \* MAX_RUNNING_SHELL_SESSIONS
          MaxTerminal      \* MAX_TERMINAL_SHELL_RECEIPTS

ASSUME SessionAssumption == IsFiniteSet(Sessions) /\ NoSession \notin Sessions
ASSUME LimitAssumption == MaxRunning \in Nat \ {0} /\ MaxTerminal \in Nat

VARIABLES accepting,    \* registry.accepting
          published,    \* registry.sessions
          unpublished,  \* unpublished_sessions
          starting,     \* SlotLedger.starting
          running,      \* SlotLedger.running
          notified,     \* the waiter of SlotLedger.changed has been woken
          call,         \* the start calls
          session,      \* the ShellSession of each
          proc,         \* its processes: the root, and what the root started
          cleanup,      \* its pending cleanup attempt
          revoke,       \* the call that holds the lifecycle lock
          revoked       \* what the last revocation reported

registry == <<accepting, published, unpublished>>
slots    == <<starting, running, notified>>
sessions == <<session, proc, cleanup>>
toggles  == <<revoke, revoked>>
vars == <<registry, slots, call, sessions, toggles>>
-----------------------------------------------------------------------------
(* Types. *)
Phases == {"idle", "reap", "reaping", "spawn", "publish", "register", "release",
           "settle", "settling", "attend", "attending", "done"}
(* The verdict of a cleanup attempt, as one of those that wait for it sees it. *)
Verdicts == {"pending", "ok", "failed"}
(* error: the call answers, or is going to answer, a definite error; if not,  *)
(* it answers a receipt or "indeterminate", or it has been dropped.           *)
Call == [at : Phases, todo : SUBSET Sessions, on : Sessions \cup {NoSession},
         verdict : Verdicts, error : BOOLEAN, lease : BOOLEAN]
Session == [ended : BOOLEAN, clean : BOOLEAN, slot : BOOLEAN]
(* orphaned: the root has exited and something it started still runs.         *)
(* unheld: the command may run, and nobody in the manager can end it.         *)
Processes == {"none", "live", "orphaned", "unheld", "gone"}
Cleanup == [at : {"idle", "interrupt", "terminate", "finish", "report"}, ok : BOOLEAN]
Revoke == [at : {"idle", "listen", "check", "wait", "list", "stop", "stopping"},
           todo : SUBSET Sessions, failed : BOOLEAN,
           on : Sessions \cup {NoSession}, verdict : Verdicts]

IdleCall    == [at |-> "idle", todo |-> {}, on |-> NoSession, verdict |-> "pending",
                error |-> FALSE, lease |-> FALSE]
NewSession  == [ended |-> FALSE, clean |-> FALSE, slot |-> FALSE]
IdleCleanup == [at |-> "idle", ok |-> FALSE]
IdleRevoke  == [at |-> "idle", todo |-> {}, failed |-> FALSE, on |-> NoSession,
                verdict |-> "pending"]

(* Every variable has the type the code gives it. *)
TypeOK ==
  /\ accepting \in BOOLEAN
  /\ published \subseteq Sessions /\ unpublished \subseteq Sessions
  /\ starting \in Nat /\ running \in Nat /\ notified \in BOOLEAN
  /\ call \in [Sessions -> Call]
  /\ session \in [Sessions -> Session]
  /\ proc \in [Sessions -> Processes]
  /\ cleanup \in [Sessions -> Cleanup]
  /\ revoke \in Revoke /\ revoked \in {"no", "ok", "failed"}

Init ==
  /\ accepting = FALSE /\ published = {} /\ unpublished = {}
  /\ starting = 0 /\ running = 0 /\ notified = FALSE
  /\ call = [s \in Sessions |-> IdleCall]
  /\ session = [s \in Sessions |-> NewSession]
  /\ proc = [s \in Sessions |-> "none"]
  /\ cleanup = [s \in Sessions |-> IdleCleanup]
  /\ revoke = IdleRevoke /\ revoked = "no"
-----------------------------------------------------------------------------
(* gc, refresh_session and ensure_cleanup, called by every operation. *)

(* gc leaves at most MaxTerminal receipts, and drops only cleaned sessions. *)
Receipts == {s \in published : session[s].ended /\ session[s].clean}

Gc(kept) ==
  /\ kept \in SUBSET Receipts /\ Cardinality(kept) <= MaxTerminal
  /\ published' = (published \ Receipts) \cup kept

RootExited(s) == proc[s] \in {"orphaned", "gone"}

(* The session after a refresh, which sees whether the root has exited. *)
Refreshed(s) == [session[s] EXCEPT !.ended = @ \/ RootExited(s)]

NeedsAttempt(s) == ~session[s].clean /\ cleanup[s].at = "idle"

(* Start a cleanup attempt of s from its record r, or join the pending one. *)
EnsureCleanup(s, r) ==
  /\ session' = [session EXCEPT ![s] = r]
  /\ cleanup' = IF NeedsAttempt(s)
                THEN [cleanup EXCEPT ![s] = [IdleCleanup EXCEPT
                        !.at = IF r.ended THEN "terminate" ELSE "interrupt"]]
                ELSE cleanup

(* What a caller of ensure_cleanup has to wait for. *)
Awaited(s) == IF session[s].clean THEN "ok" ELSE "pending"
-----------------------------------------------------------------------------
(* start: reap what has ended, reserve, spawn, publish, attend. *)

BeginStart(s) ==
  /\ call[s].at = "idle"
  /\ \E kept \in SUBSET Receipts : Gc(kept)
  /\ call' = [call EXCEPT ![s] = [@ EXCEPT !.at = "reap",
                                           !.todo = {t \in published : ~session[t].ended}]]
  /\ UNCHANGED <<accepting, unpublished, slots, sessions, toggles>>

(* reap_newly_terminal_sessions: a session seen to end now is cleaned up; one *)
(* that still runs, has ended before or cannot be read is passed over.        *)
ReapOne(s) ==
  /\ call[s].at = "reap"
  /\ \E t \in call[s].todo :
       \/ /\ ~session[t].ended /\ RootExited(t)
          /\ EnsureCleanup(t, Refreshed(t))
          /\ call' = [call EXCEPT ![s] = [@ EXCEPT !.at = "reaping", !.on = t,
                                                   !.verdict = Awaited(t)]]
       \/ /\ call' = [call EXCEPT ![s].todo = @ \ {t}]
          /\ UNCHANGED <<session, cleanup>>
  /\ UNCHANGED <<registry, slots, proc, toggles>>

Reaped(s) ==
  /\ call[s].at = "reaping" /\ call[s].verdict # "pending"
  /\ call' = [call EXCEPT ![s] = [IdleCall EXCEPT !.at = "reap",
                                                  !.todo = call[s].todo \ {call[s].on}]]
  /\ UNCHANGED <<registry, slots, sessions, toggles>>

Answer(s, error) ==
  call' = [call EXCEPT ![s] = [IdleCall EXCEPT !.at = "done", !.error = error]]

(* Cancelled, disabled, or every slot taken. *)
ReserveRefused(s) ==
  /\ call[s].at = "reap" /\ call[s].todo = {}
  /\ Answer(s, TRUE)
  /\ UNCHANGED <<registry, slots, sessions, toggles>>

(* A fault: no starting lease is taken. *)
FaultyReserve(s) ==
  /\ call[s].at = "reap" /\ call[s].todo = {}
  /\ accepting /\ running < MaxRunning
  /\ running' = running + 1
  /\ call' = [call EXCEPT ![s] = [@ EXCEPT !.at = "spawn", !.lease = TRUE]]
  /\ session' = [session EXCEPT ![s].slot = TRUE]
  /\ UNCHANGED <<registry, starting, notified, proc, cleanup, toggles>>

(* Both counters move while the registry lock is held. *)
Reserve(s) ==
  /\ call[s].at = "reap" /\ call[s].todo = {}
  /\ accepting /\ running < MaxRunning
  /\ running' = running + 1 /\ starting' = starting + 1
  /\ call' = [call EXCEPT ![s] = [@ EXCEPT !.at = "spawn", !.lease = TRUE]]
  /\ session' = [session EXCEPT ![s].slot = TRUE]
  /\ UNCHANGED <<registry, notified, proc, cleanup, toggles>>

Advance(s, phase, error) ==
  call' = [call EXCEPT ![s] = [@ EXCEPT !.at = phase, !.error = error]]

(* The back end returned the process, or an error that hands it over; the     *)
(* reader thread of a returned one may fail to start.                         *)
SpawnOwned(s) ==
  /\ call[s].at = "spawn"
  /\ proc' = [proc EXCEPT ![s] = "live"]
  /\ Advance(s, "publish", FALSE) \/ Advance(s, "register", TRUE)
  /\ UNCHANGED <<registry, slots, session, cleanup, toggles>>

(* SlotLedger.changed reaches only a waiter that is registered. *)
Notify == notified' = (revoke.at \in {"check", "wait"})


(* The back end hands nothing over: both leases are dropped.  On Linux a      *)
(* start that fails with the command already sent waits a second for its host *)
(* and then gives up on the tree.                                             *)
SpawnFailed(s) ==
  /\ call[s].at = "spawn"
  /\ running' = running - 1 /\ starting' = starting - 1 /\ Notify
  /\ Answer(s, TRUE)
  /\ session' = [session EXCEPT ![s].slot = FALSE]
  /\ proc' \in {proc, [proc EXCEPT ![s] = "unheld"]}
  /\ UNCHANGED <<registry, cleanup, toggles>>

(* A fault: the drop of a starting lease wakes nobody. *)
FaultyReleaseStarting(s, phase) ==
  /\ starting' = starting - 1 /\ UNCHANGED <<running, notified>>
  /\ call' = [call EXCEPT ![s] = [@ EXCEPT !.at = phase, !.lease = FALSE]]

ReleaseStarting(s, phase) ==
  /\ starting' = starting - 1 /\ Notify /\ UNCHANGED running
  /\ call' = [call EXCEPT ![s] = [@ EXCEPT !.at = phase, !.lease = FALSE]]

Publish(s) ==
  /\ call[s].at = "publish"
  /\ accepting
  /\ published' = published \cup {s}
  /\ ReleaseStarting(s, "attend")
  /\ UNCHANGED <<accepting, unpublished, sessions, toggles>>

(* The startup handshake or the identifier failed, the call was cancelled,    *)
(* shells were disabled meanwhile, or the call's future was dropped.          *)
PublishRefused(s) ==
  /\ call[s].at = "publish"
  /\ \E error \in BOOLEAN : Advance(s, "register", error)
  /\ UNCHANGED <<registry, slots, sessions, toggles>>

(* settle_unpublished_start: registered before the starting lease is dropped. *)
Register(s) ==
  /\ call[s].at = "register"
  /\ unpublished' = unpublished \cup {s}
  /\ call' = [call EXCEPT ![s].at = "release"]
  /\ UNCHANGED <<accepting, published, slots, sessions, toggles>>

Release(s) ==
  /\ call[s].at = "release"
  /\ ReleaseStarting(s, "settle")
  /\ UNCHANGED <<registry, sessions, toggles>>

Settle(s) ==
  /\ call[s].at = "settle"
  /\ EnsureCleanup(s, session[s])
  /\ call' = [call EXCEPT ![s] = [@ EXCEPT !.at = "settling", !.on = s, !.verdict = Awaited(s)]]
  /\ UNCHANGED <<registry, slots, proc, toggles>>

Settled(s) ==
  /\ call[s].at = "settling" /\ call[s].verdict # "pending"
  /\ IF call[s].verdict = "ok"
     THEN unpublished' = unpublished \ {s} /\ Answer(s, call[s].error)
     ELSE UNCHANGED unpublished /\ Answer(s, FALSE)             \* indeterminate
  /\ UNCHANGED <<accepting, published, slots, sessions, toggles>>

(* wait_for_receipt of the start call: the yield elapses or the call is       *)
(* dropped; or it is cancelled, or the session has ended or cannot be read.   *)
Yield(s) ==
  /\ call[s].at = "attend"
  /\ Answer(s, FALSE)
  /\ UNCHANGED <<registry, slots, sessions, toggles>>

Attend(s) ==
  /\ call[s].at = "attend"
  /\ \E error \in BOOLEAN :
       /\ call' = [call EXCEPT ![s] = [@ EXCEPT !.at = "attending", !.error = error, !.on = s,
                                                !.verdict = Awaited(s)]]
       /\ \/ EnsureCleanup(s, session[s])
          \/ ~error /\ Refreshed(s).ended /\ EnsureCleanup(s, Refreshed(s))
  /\ UNCHANGED <<registry, slots, proc, toggles>>

Attended(s) ==
  /\ call[s].at = "attending" /\ call[s].verdict # "pending"
  /\ Answer(s, call[s].verdict = "ok" /\ call[s].error)
  /\ UNCHANGED <<registry, slots, sessions, toggles>>

StartStep(s) ==
  \/ ReapOne(s) \/ Reaped(s) \/ ReserveRefused(s) \/ Reserve(s)
  \/ SpawnOwned(s) \/ SpawnFailed(s) \/ Publish(s) \/ PublishRefused(s)
  \/ Register(s) \/ Release(s) \/ Settle(s) \/ Settled(s)
  \/ Yield(s) \/ Attend(s) \/ Attended(s)
-----------------------------------------------------------------------------
(* poll and stop: a poll that finds its session ended cleans it up (one that  *)
(* runs changes nothing); a stop, and a poll that cannot read the status,     *)
(* clean up whatever the state.                                               *)
PollOrStop(s) ==
  /\ \E kept \in SUBSET Receipts : Gc(kept) /\ s \in published'
  /\ \/ Refreshed(s).ended /\ EnsureCleanup(s, Refreshed(s))
     \/ EnsureCleanup(s, session[s])
  /\ UNCHANGED <<accepting, unpublished, slots, call, proc, toggles>>
-----------------------------------------------------------------------------
(* run_cleanup: one task per attempt. *)

(* The interrupt has been written and the root given its time to exit. *)
Interrupt(s) ==
  /\ cleanup[s].at = "interrupt"
  /\ session' = [session EXCEPT ![s] = Refreshed(s)]
  /\ cleanup' = [cleanup EXCEPT ![s].at = "terminate"]
  /\ UNCHANGED <<proc, slots, call, revoke>>

(* terminate_containment, and the kill of a root that has not exited yet, the *)
(* only step whose timeout ends the attempt at once.                          *)
Terminate(s) ==
  /\ cleanup[s].at = "terminate"
  /\ \/ /\ proc' = [proc EXCEPT ![s] = "gone"]
        /\ cleanup' = [cleanup EXCEPT ![s] = [@ EXCEPT !.at = "finish", !.ok = TRUE]]
     \/ /\ cleanup' = [cleanup EXCEPT ![s].at = "finish"]
        /\ UNCHANGED proc
     \/ /\ proc[s] = "live" /\ proc' = [proc EXCEPT ![s] = "orphaned"]
        /\ \E next \in {"finish", "report"} : cleanup' = [cleanup EXCEPT ![s].at = next]
     \/ /\ ~session[s].ended
        /\ cleanup' = [cleanup EXCEPT ![s].at = "report"]
        /\ UNCHANGED proc
  /\ UNCHANGED <<session, slots, call, revoke>>

Holding(s) == proc[s] \in {"live", "orphaned"}

(* A fault: the slot is given back by a failed attempt as well. *)
FaultyFinish(s) ==
  /\ cleanup[s].at = "finish"
  /\ \E ok \in {FALSE, cleanup[s].ok /\ RootExited(s)} :
       /\ cleanup' = [cleanup EXCEPT ![s] = [at |-> "report", ok |-> ok]]
       /\ session' = [session EXCEPT ![s] = [Refreshed(s) EXCEPT !.clean = ok, !.slot = FALSE]]
       /\ running' = running - 1 /\ Notify /\ UNCHANGED starting
  /\ UNCHANGED <<proc, call, revoke>>

(* Wait, reap, confirm, close, join the reader, any of which may fail or time *)
(* out, and record_cleanup: the slot is given back only by a successful       *)
(* attempt, before its callers hear of it.                                    *)
Finish(s) ==
  /\ cleanup[s].at = "finish"
  /\ \E ok \in {FALSE, cleanup[s].ok /\ RootExited(s)} :
       /\ cleanup' = [cleanup EXCEPT ![s] = [at |-> "report", ok |-> ok]]
       /\ session' = [session EXCEPT ![s] = IF ok THEN [Refreshed(s) EXCEPT !.clean = TRUE,
                                                                            !.slot = FALSE]
                                            ELSE Refreshed(s)]
       /\ IF ok THEN running' = running - 1 /\ Notify /\ UNCHANGED starting
                ELSE UNCHANGED slots
  /\ UNCHANGED <<proc, call, revoke>>

(* Every caller that joined this attempt hears its verdict. *)
ReportCleanup(s) ==
  /\ cleanup[s].at = "report"
  /\ LET verdict == IF cleanup[s].ok THEN "ok" ELSE "failed" IN
       /\ call' = [t \in Sessions |->
                    IF call[t].on = s /\ call[t].verdict = "pending"
                    THEN [call[t] EXCEPT !.verdict = verdict] ELSE call[t]]
       /\ revoke' = IF revoke.on = s /\ revoke.verdict = "pending"
                    THEN [revoke EXCEPT !.verdict = verdict] ELSE revoke
  /\ cleanup' = [cleanup EXCEPT ![s] = IdleCleanup]
  /\ UNCHANGED <<session, proc, slots>>

CleanupStep(s) ==
  /\ Interrupt(s) \/ Terminate(s) \/ Finish(s) \/ ReportCleanup(s)
  /\ UNCHANGED <<registry, revoked>>
-----------------------------------------------------------------------------
(* enable and disable_and_stop_all, which hold the lifecycle lock. *)

Enable ==
  /\ revoke.at = "idle" /\ ~accepting
  /\ \E kept \in SUBSET Receipts : Gc(kept)
  /\ accepting' = TRUE /\ revoked' = "no"
  /\ UNCHANGED <<unpublished, slots, call, sessions, revoke>>

BeginRevoke ==
  /\ revoke.at = "idle"
  /\ \E kept \in SUBSET Receipts : Gc(kept)
  /\ revoke' = [IdleRevoke EXCEPT !.at = "listen"]
  /\ revoked' = "no"
  /\ UNCHANGED <<accepting, unpublished, slots, call, sessions>>

(* The waiter is registered before the counter is read. *)
Listen ==
  /\ revoke.at = "listen"
  /\ notified' = FALSE
  /\ revoke' = [revoke EXCEPT !.at = "check"]
  /\ UNCHANGED <<registry, starting, running, call, sessions, revoked>>

(* A fault: the revocation does not wait for the start calls in flight. *)
FaultyCheckStarting ==
  /\ revoke.at = "check"
  /\ accepting' = FALSE
  /\ revoke' = [revoke EXCEPT !.at = "list"]
  /\ UNCHANGED <<published, unpublished, slots, call, sessions, revoked>>

CheckStarting ==
  /\ revoke.at = "check"
  /\ accepting' = FALSE
  /\ revoke' = [revoke EXCEPT !.at = IF starting > 0 THEN "wait" ELSE "list"]
  /\ UNCHANGED <<published, unpublished, slots, call, sessions, revoked>>

Wake ==
  /\ revoke.at = "wait" /\ notified
  /\ revoke' = [revoke EXCEPT !.at = "listen"]
  /\ UNCHANGED <<registry, slots, call, sessions, revoked>>

(* The published sessions, and then the unpublished ones: with no lease left  *)
(* and no start accepted, nothing enters either list between the two locks.   *)
ListSessions ==
  /\ revoke.at = "list"
  /\ revoke' = [revoke EXCEPT !.at = "stop",
                              !.todo = {s \in published : ~session[s].clean} \cup unpublished]
  /\ UNCHANGED <<registry, slots, call, sessions, revoked>>

StopNext ==
  /\ revoke.at = "stop"
  /\ \E s \in revoke.todo :
       /\ EnsureCleanup(s, session[s])
       /\ revoke' = [revoke EXCEPT !.at = "stopping", !.on = s, !.verdict = Awaited(s)]
  /\ UNCHANGED <<registry, slots, call, proc, revoked>>

StoppedOne ==
  /\ revoke.at = "stopping" /\ revoke.verdict # "pending"
  /\ revoke' = [IdleRevoke EXCEPT !.at = "stop", !.todo = revoke.todo \ {revoke.on},
                                  !.failed = revoke.failed \/ revoke.verdict = "failed"]
  /\ UNCHANGED <<registry, slots, call, sessions, revoked>>

EndRevoke ==
  /\ revoke.at = "stop" /\ revoke.todo = {}
  /\ unpublished' = {s \in unpublished : ~session[s].clean}
  /\ revoke' = IdleRevoke
  /\ revoked' = IF revoke.failed THEN "failed" ELSE "ok"
  /\ UNCHANGED <<accepting, published, slots, call, sessions>>

RevokeStep ==
  \/ Listen \/ CheckStarting \/ Wake \/ ListSessions \/ StopNext \/ StoppedOne \/ EndRevoke
-----------------------------------------------------------------------------
(* Processes end by themselves, the root before or with what it started.  The *)
(* host of an unheld tree, whose control channel is closed, ends all of it.   *)
ProcessesExit(s) ==
  /\ \/ proc[s] = "unheld" /\ proc' = [proc EXCEPT ![s] = "none"]
     \/ proc[s] = "live" /\ \E p \in {"orphaned", "gone"} : proc' = [proc EXCEPT ![s] = p]
     \/ proc[s] = "orphaned" /\ proc' = [proc EXCEPT ![s] = "gone"]
  /\ UNCHANGED <<registry, slots, call, session, cleanup, toggles>>

Next ==
  \/ \E s \in Sessions :
       BeginStart(s) \/ StartStep(s) \/ PollOrStop(s) \/ CleanupStep(s) \/ ProcessesExit(s)
  \/ Enable \/ BeginRevoke \/ RevokeStep

Spec == Init /\ [][Next]_vars
-----------------------------------------------------------------------------
(* Properties. *)

(* After disable_and_stop_all has returned Ok, and until shells are enabled   *)
(* again, no process is left of any session the manager was handed, however   *)
(* many start calls were in flight, dropped or half settled when it began.    *)
(* And a start call that was handed a process and reports a definite error    *)
(* leaves none behind; when the cleanup could not be confirmed it says        *)
(* indeterminate instead.  A tree nobody was handed is beyond both promises.  *)
GoneWhenSaid ==
  \A s \in Sessions :
    revoked = "ok" \/ (call[s].at = "done" /\ call[s].error) => ~Holding(s)

(* A session with a live process is always known to somebody who will stop it *)
(* - its start call, the registry or the unpublished sessions - and holds one *)
(* of the MaxRunning slots; the slot counter is exact, and no slot is lost: a *)
(* slot that is taken belongs to a start call or a session that can give it   *)
(* back.  A tree that nobody knows is one whose start call failed, and it     *)
(* never was a session of the registry.                                       *)
OwnedUntilGone ==
  /\ \A s \in Sessions :
       /\ Holding(s) => session[s].slot
       /\ session[s].slot => s \in published \cup unpublished \/ call[s].lease
       /\ proc[s] = "unheld" => /\ call[s].at = "done" /\ call[s].error
                               /\ s \notin published \cup unpublished
  /\ running = Cardinality({s \in Sessions : session[s].slot}) /\ running <= MaxRunning

(* No wake-up is lost: when the last starting lease is dropped between the    *)
(* moment a revocation reads the counter and the moment it begins to wait, or *)
(* at any later one, the revocation goes on.                                  *)
NoLostWakeup == revoke.at = "wait" /\ starting = 0 => notified
=============================================================================
