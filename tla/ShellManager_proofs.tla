------------------------ MODULE ShellManager_proofs -------------------------
(***************************************************************************)
(* Proofs about ShellManager, for every set of start calls and every limit *)
(* of slots and receipts: no session outlives what the manager says of it. *)
(***************************************************************************)
EXTENDS ShellManager, FiniteSetTheorems, TLAPS

\* The manager was handed the processes of s: it has, or had, what ends them.
Handed(s) == proc[s] \notin {"none", "unheld"}

(* The two counters of the slot ledger are exact.                             *)
Holders == {s \in Sessions : session[s].slot}
Leases  == {s \in Sessions : call[s].lease}
Counted ==
    /\ running = Cardinality(Holders) /\ running <= MaxRunning
    /\ starting = Cardinality(Leases)

(* A start call has its starting lease between reserve and publish or         *)
(* release, its process from spawn on, and waits for its own session only.    *)
Stage(s) ==
    /\ call[s].lease <=> call[s].at \in {"spawn", "publish", "register", "release"}
    /\ call[s].at \in {"idle", "reap", "reaping", "spawn"} => proc[s] = "none"
    /\ call[s].at \in {"publish", "register", "release", "settle", "settling",
                       "attend", "attending"} => Handed(s)
    /\ call[s].at \in {"settling", "attending"} => call[s].on = s
    /\ call[s].at = "done" /\ call[s].error => ~Holding(s)
    /\ proc[s] = "unheld" => call[s].at = "done" /\ call[s].error
Stages == \A s \in Sessions : Stage(s)

(* A session without a process is unknown to all but its start call; one that *)
(* has had a process holds its slot until it is clean, and clean means gone.  *)
Recorded(s) ==
    /\ ~Handed(s) => /\ session[s].slot <=> call[s].at = "spawn"
                     /\ ~session[s].clean /\ cleanup[s].at = "idle"
                     /\ s \notin published \cup unpublished
    /\ Handed(s) => (session[s].slot <=> ~session[s].clean)
    /\ session[s].clean => proc[s] = "gone"
Records == \A s \in Sessions : Recorded(s)

(* A cleanup attempt says ok of a tree that is gone, works on a session that  *)
(* is not clean, and reports what it has recorded.                            *)
Attempt(s) ==
    /\ cleanup[s].ok => cleanup[s].at \in {"finish", "report"} /\ proc[s] = "gone"
    /\ cleanup[s].at \in {"interrupt", "terminate", "finish"} => ~session[s].clean
    /\ cleanup[s].at = "report" /\ cleanup[s].ok => session[s].clean
Attempts == \A s \in Sessions : Attempt(s)

(* What waits for an attempt, a call or the revocation, knows only sessions   *)
(* that were spawned, and has heard ok only of clean ones.                    *)
Waits(w) ==
    /\ \A t \in w.todo : Handed(t)
    /\ w.on \in Sessions => Handed(w.on)
    /\ w.verdict = "ok" => w.on \in Sessions /\ session[w.on].clean
Waiting == Waits(revoke) /\ \A s \in Sessions : Waits(call[s])

(* Who holds a slot is listed or still has its lease, and is listed before    *)
(* the lease is dropped.                                                      *)
Owned ==
    \A s \in Sessions : session[s].slot =>
        /\ s \in published \cup unpublished \/ call[s].lease
        /\ call[s].at = "release" => s \in published \cup unpublished

(* From the moment a revocation has found no lease it sees every session      *)
(* there is, until shells are enabled again.                                  *)
Revoking ==
    /\ revoke.at \in {"wait", "list", "stop", "stopping"} \/ revoked = "ok" => ~accepting
    /\ revoke.at \in {"list", "stop", "stopping"} \/ revoked = "ok" =>
         \A s \in Sessions : ~call[s].lease
    /\ revoke.at \in {"stop", "stopping"} /\ ~revoke.failed =>
         \A s \in Sessions : Holding(s) => s \in revoke.todo
    /\ revoke.at = "stopping" => revoke.on \in Sessions
    /\ revoked = "ok" => revoke.at = "idle" /\ \A s \in Sessions : ~Holding(s)

(* The inductive invariant.  GoneWhenSaid alone is not one: that nothing is   *)
(* left when the revocation answers rests on who owns a session at each stage *)
(* of its start call, and that on the counters being exact.                   *)
IInv == TypeOK /\ Counted /\ Stages /\ Records /\ Attempts /\ Waiting /\ Owned
        /\ Revoking /\ NoLostWakeup

USE DEF Handed

-----------------------------------------------------------------------------
(* A counter of the ledger is positive while somebody holds what it counts.   *)
LEMMA LedgerCounts ==
    ASSUME TypeOK, Counted
    PROVE  /\ IsFiniteSet(Holders) /\ IsFiniteSet(Leases)
           /\ \A s \in Sessions : session[s].slot => running > 0
           /\ \A s \in Sessions : call[s].lease => starting > 0
           /\ starting = 0 => \A s \in Sessions : ~call[s].lease
<1>1. Holders \subseteq Sessions /\ Leases \subseteq Sessions
  BY DEF Holders, Leases
<1>2. IsFiniteSet(Holders) /\ IsFiniteSet(Leases)
  BY <1>1, SessionAssumption, FS_Subset
<1>3. Cardinality(Holders) = 0 <=> Holders = {}
  BY <1>2, FS_EmptySet
<1>4. Cardinality(Leases) = 0 <=> Leases = {}
  BY <1>2, FS_EmptySet
<1>5. running \in Nat /\ starting \in Nat
  BY DEF TypeOK
<1>6. ASSUME NEW s \in Sessions, session[s].slot PROVE running > 0
  BY <1>3, <1>5, <1>6 DEF Counted, Holders
<1>7. ASSUME NEW s \in Sessions, call[s].lease PROVE starting > 0
  BY <1>4, <1>5, <1>7 DEF Counted, Leases
<1> QED BY <1>2, <1>5, <1>6, <1>7

(* ensure_cleanup begins an attempt of a session that is not clean, and does  *)
(* nothing else but see whether the root has exited.                          *)
LEMMA Ensured ==
    ASSUME TypeOK, NEW s \in Sessions, NEW r \in {session[s], Refreshed(s)},
           EnsureCleanup(s, r)
    PROVE  /\ session' \in [Sessions -> Session] /\ cleanup' \in [Sessions -> Cleanup]
           /\ \A t \in Sessions :
                /\ session'[t].clean = session[t].clean
                /\ session'[t].slot = session[t].slot
                /\ \/ cleanup'[t] = cleanup[t]
                   \/ /\ t = s /\ ~session[t].clean
                      /\ cleanup'[t].at \in {"interrupt", "terminate"}
                      /\ ~cleanup'[t].ok
<1>1. r \in Session /\ r.clean = session[s].clean /\ r.slot = session[s].slot
  BY DEF TypeOK, Session, Refreshed, RootExited
<1>2. session' = [session EXCEPT ![s] = r]
  BY DEF EnsureCleanup
<1>3. session' \in [Sessions -> Session]
  BY <1>1, <1>2 DEF TypeOK
<1>4. \A t \in Sessions : /\ session'[t].clean = session[t].clean
                          /\ session'[t].slot = session[t].slot
  BY <1>1, <1>2 DEF TypeOK
<1>5. CASE cleanup' = cleanup
  BY <1>3, <1>4, <1>5 DEF TypeOK
<1>6. CASE cleanup' # cleanup
  <2>1. NeedsAttempt(s)
    BY <1>6 DEF EnsureCleanup
  <2>2. PICK a \in {"interrupt", "terminate"} :
          cleanup' = [cleanup EXCEPT ![s] = [IdleCleanup EXCEPT !.at = a]]
    <3>1. PICK a \in {"interrupt", "terminate"} :
            a = IF r.ended THEN "terminate" ELSE "interrupt"
      OBVIOUS
    <3> QED BY <2>1, <3>1 DEF EnsureCleanup
  <2> DEFINE begun == [IdleCleanup EXCEPT !.at = a]
  <2>3. begun \in Cleanup /\ begun.at = a /\ ~begun.ok
    BY DEF IdleCleanup, Cleanup
  <2> HIDE DEF begun
  <2>4. cleanup' = [cleanup EXCEPT ![s] = begun]
    BY <2>2 DEF begun
  <2> QED BY <1>3, <1>4, <2>1, <2>3, <2>4 DEF TypeOK, NeedsAttempt
<1> QED BY <1>5, <1>6

(* The steps that begin a cleanup attempt, or join one.                       *)
Ensures ==
    /\ proc' = proc
    /\ \E t \in Sessions : \E r \in {session[t], Refreshed(t)} :
         Handed(t) /\ EnsureCleanup(t, r)

(* What a step does to the sessions and their processes.                      *)
LEMMA SessionsMove ==
    ASSUME IInv, Next
    PROVE  \/ UNCHANGED sessions
           \/ Ensures
           \/ \E s \in Sessions : \/ Reserve(s) \/ SpawnOwned(s) \/ SpawnFailed(s)
                                  \/ CleanupStep(s) \/ ProcessesExit(s)
<1>1. ASSUME NEW s \in Sessions, ReapOne(s) PROVE UNCHANGED sessions \/ Ensures
  <2>1. proc' = proc
    BY <1>1 DEF ReapOne
  <2>2. PICK t \in call[s].todo :
          \/ RootExited(t) /\ EnsureCleanup(t, Refreshed(t))
          \/ UNCHANGED <<session, cleanup>>
    BY <1>1 DEF ReapOne
  <2>3. t \in Sessions /\ Handed(t)
    BY DEF IInv, Waiting, Waits, TypeOK, Call
  <2> QED BY <2>1, <2>2, <2>3 DEF Ensures, sessions
<1>2. ASSUME NEW s \in Sessions, Settle(s) \/ Attend(s) PROVE Ensures
  <2>1. proc' = proc
    BY <1>2 DEF Settle, Attend
  <2>2. Handed(s)
    BY <1>2 DEF Settle, Attend, IInv, Stages, Stage
  <2>3. EnsureCleanup(s, session[s]) \/ EnsureCleanup(s, Refreshed(s))
    BY <1>2 DEF Settle, Attend
  <2> QED BY <2>1, <2>2, <2>3 DEF Ensures
<1>3. ASSUME NEW s \in Sessions, PollOrStop(s) PROVE Ensures
  <2>1. proc' = proc
    BY <1>3 DEF PollOrStop
  <2>2. s \in published
    BY <1>3 DEF PollOrStop, Gc, Receipts
  <2>3. Handed(s)
    BY <2>2 DEF IInv, Records, Recorded
  <2>4. EnsureCleanup(s, session[s]) \/ EnsureCleanup(s, Refreshed(s))
    BY <1>3 DEF PollOrStop
  <2> QED BY <2>1, <2>3, <2>4 DEF Ensures
<1>4. CASE StopNext
  <2>1. PICK s \in revoke.todo : EnsureCleanup(s, session[s])
    BY <1>4 DEF StopNext
  <2>2. s \in Sessions /\ Handed(s) /\ proc' = proc
    BY <1>4 DEF IInv, Waiting, Waits, TypeOK, Revoke, StopNext
  <2> QED BY <2>1, <2>2 DEF Ensures
<1>5. CASE Enable \/ BeginRevoke
  BY <1>5 DEF Enable, BeginRevoke, sessions
<1>6. CASE RevokeStep
  BY <1>4, <1>6 DEF RevokeStep, Listen, CheckStarting, Wake, ListSessions, StoppedOne,
                    EndRevoke, sessions
<1>7. ASSUME NEW s \in Sessions, BeginStart(s) PROVE UNCHANGED sessions
  BY <1>7 DEF BeginStart, sessions
<1>8. ASSUME NEW s \in Sessions, StartStep(s), ~ReapOne(s), ~Settle(s), ~Attend(s),
             ~Reserve(s), ~SpawnOwned(s), ~SpawnFailed(s)
      PROVE  UNCHANGED sessions
  BY <1>8 DEF StartStep, Reaped, ReserveRefused, Publish, PublishRefused, Register,
              Release, Settled, Yield, Attended, sessions
<1> QED BY <1>1, <1>2, <1>3, <1>4, <1>5, <1>6, <1>7, <1>8 DEF Next

(* A session never loses its cleanliness, a spawned process stays spawned, a  *)
(* gone one gone, and only the back end's answer makes a process appear.      *)
LEMMA Onward ==
    ASSUME IInv, Next, NEW t \in Sessions
    PROVE  /\ session[t].clean => session'[t].clean
           /\ Handed(t) => Handed(t)'
           /\ proc[t] = "gone" => proc'[t] = "gone"
           /\ Holding(t)' => Holding(t) \/ SpawnOwned(t)
           /\ ~Handed(t) => ~Handed(t)' \/ SpawnOwned(t)
           /\ proc[t] = "none" => proc'[t] = "none" \/ SpawnOwned(t) \/ SpawnFailed(t)
           /\ proc'[t] = "unheld" => proc[t] = "unheld" \/ SpawnFailed(t)
<1> USE DEF Holding
<1>1. CASE UNCHANGED sessions
  BY <1>1 DEF sessions
<1>2. CASE Ensures
  BY <1>2, Ensured DEF Ensures, IInv
<1>0. session \in [Sessions -> Session] /\ proc \in [Sessions -> Processes]
  BY DEF IInv, TypeOK
<1>3. ASSUME NEW s \in Sessions, Reserve(s) \/ SpawnFailed(s)
      PROVE  /\ session'[t].clean = session[t].clean
             /\ \/ proc' = proc
                \/ /\ SpawnFailed(s) /\ proc[s] = "none"
                   /\ proc' = [proc EXCEPT ![s] = "unheld"]
  <2>0. SpawnFailed(s) => proc[s] = "none"
    BY DEF SpawnFailed, IInv, Stages, Stage
  <2>1. /\ \/ proc' = proc
           \/ SpawnFailed(s) /\ proc' = [proc EXCEPT ![s] = "unheld"]
        /\ \E slot \in BOOLEAN : session' = [session EXCEPT ![s].slot = slot]
    BY <1>3 DEF Reserve, SpawnFailed
  <2> QED BY <1>0, <2>0, <2>1 DEF Session
<1>4. ASSUME NEW s \in Sessions, SpawnOwned(s)
      PROVE  /\ session' = session /\ proc[s] = "none"
             /\ proc' = [proc EXCEPT ![s] = "live"]
  BY <1>4 DEF SpawnOwned, IInv, Stages, Stage
<1>5. ASSUME NEW s \in Sessions, ProcessesExit(s)
      PROVE  /\ session' = session
             /\ \/ /\ proc[s] \in {"live", "orphaned"}
                   /\ \E p \in {"orphaned", "gone"} : proc' = [proc EXCEPT ![s] = p]
                \/ proc[s] = "unheld" /\ proc' = [proc EXCEPT ![s] = "none"]
  BY <1>5 DEF ProcessesExit, sessions
<1>6. ASSUME NEW s \in Sessions, Terminate(s)
      PROVE  /\ session' = session /\ Handed(s)
             /\ \/ proc' = proc \/ proc' = [proc EXCEPT ![s] = "gone"]
                \/ proc[s] = "live" /\ proc' = [proc EXCEPT ![s] = "orphaned"]
  BY <1>6 DEF Terminate, IInv, Records, Recorded
<1>7. ASSUME NEW s \in Sessions, Interrupt(s) \/ Finish(s) \/ ReportCleanup(s)
      PROVE  proc' = proc /\ (session[t].clean => session'[t].clean)
  <2>1. CASE Interrupt(s)
    BY <1>0, <2>1 DEF Interrupt, Refreshed, Session
  <2>2. CASE Finish(s)
    <3>1. PICK ok \in BOOLEAN :
            session' = [session EXCEPT ![s] = IF ok THEN [Refreshed(s) EXCEPT !.clean = TRUE,
                                                                              !.slot = FALSE]
                                              ELSE Refreshed(s)]
      BY <1>0, <2>2 DEF Finish, IInv, TypeOK, Cleanup, RootExited
    <3> QED BY <1>0, <2>2, <3>1 DEF Finish, Refreshed, Session
  <2>3. CASE ReportCleanup(s)
    BY <2>3 DEF ReportCleanup
  <2> QED BY <1>7, <2>1, <2>2, <2>3
<1> QED BY <1>0, <1>1, <1>2, <1>3, <1>4, <1>5, <1>6, <1>7, SessionsMove
        DEF CleanupStep, Processes

-----------------------------------------------------------------------------
(* Types. *)

(* What a start call may change of its own record leaves it one.              *)
LEMMA CallTypes ==
    ASSUME TypeOK, NEW s \in Sessions
    PROVE  /\ \A p \in Phases : [call[s] EXCEPT !.at = p] \in Call
           /\ \A todo \in SUBSET Sessions : [call[s] EXCEPT !.todo = todo] \in Call
           /\ \A p \in Phases, todo \in SUBSET Sessions :
                /\ [call[s] EXCEPT !.at = p, !.todo = todo] \in Call
                /\ [IdleCall EXCEPT !.at = p, !.todo = todo] \in Call
           /\ \A p \in Phases, on \in Sessions, v \in Verdicts :
                [call[s] EXCEPT !.at = p, !.on = on, !.verdict = v] \in Call
           /\ \A p \in Phases, e \in BOOLEAN, on \in Sessions, v \in Verdicts :
                [call[s] EXCEPT !.at = p, !.error = e, !.on = on, !.verdict = v] \in Call
           /\ \A p \in Phases, e \in BOOLEAN :
                /\ [call[s] EXCEPT !.at = p, !.error = e] \in Call
                /\ [call[s] EXCEPT !.at = p, !.lease = e] \in Call
                /\ [IdleCall EXCEPT !.at = p, !.error = e] \in Call
<1>1. call[s] \in Call
  BY DEF TypeOK
<1>2. IdleCall \in Call
  BY DEF IdleCall, Call, Phases, Verdicts
<1> QED BY <1>1, <1>2 DEF Call

(* A call that begins afresh waits for nothing and has no lease.              *)
LEMMA AfreshFields ==
    ASSUME NEW p
    PROVE  /\ \A todo : LET again == [IdleCall EXCEPT !.at = p, !.todo = todo] IN
                /\ again.at = p /\ again.todo = todo /\ ~again.lease
                /\ again.on = NoSession /\ again.verdict = "pending"
           /\ \A e \in BOOLEAN : LET over == [IdleCall EXCEPT !.at = p, !.error = e] IN
                /\ over.at = p /\ over.todo = {} /\ ~over.lease /\ over.error = e
                /\ over.on = NoSession /\ over.verdict = "pending"
BY DEF IdleCall

(* What the three helpers of the start call leave in its record.              *)
LEMMA StepFields ==
    ASSUME TypeOK, NEW t \in Sessions
    PROVE  /\ \A p \in Phases, e \in BOOLEAN : Advance(t, p, e) =>
                /\ call'[t].at = p /\ call'[t].error = e
                /\ call'[t].lease = call[t].lease /\ call'[t].todo = call[t].todo
                /\ call'[t].on = call[t].on /\ call'[t].verdict = call[t].verdict
           /\ \A p \in Phases : ReleaseStarting(t, p) =>
                /\ call'[t].at = p /\ ~call'[t].lease /\ call'[t].todo = call[t].todo
                /\ call'[t].on = call[t].on /\ call'[t].verdict = call[t].verdict
           /\ \A e \in BOOLEAN : Answer(t, e) =>
                /\ call'[t].at = "done" /\ call'[t].error = e
                /\ ~call'[t].lease /\ call'[t].todo = {}
                /\ call'[t].on = NoSession /\ call'[t].verdict = "pending"
<1>1. call \in [Sessions -> Call] /\ call[t] \in Call
  BY DEF TypeOK
<1>2. ASSUME NEW p \in Phases, NEW e \in BOOLEAN, Advance(t, p, e)
      PROVE  /\ call'[t].at = p /\ call'[t].error = e
             /\ call'[t].lease = call[t].lease /\ call'[t].todo = call[t].todo
             /\ call'[t].on = call[t].on /\ call'[t].verdict = call[t].verdict
  <2>1. call'[t] = [call[t] EXCEPT !.at = p, !.error = e]
    BY <1>1, <1>2 DEF Advance
  <2> QED BY <1>1, <2>1 DEF Call
<1>3. ASSUME NEW p \in Phases, ReleaseStarting(t, p)
      PROVE  /\ call'[t].at = p /\ ~call'[t].lease /\ call'[t].todo = call[t].todo
             /\ call'[t].on = call[t].on /\ call'[t].verdict = call[t].verdict
  <2>1. call'[t] = [call[t] EXCEPT !.at = p, !.lease = FALSE]
    BY <1>1, <1>3 DEF ReleaseStarting
  <2> QED BY <1>1, <2>1 DEF Call
<1>4. ASSUME NEW e \in BOOLEAN, Answer(t, e)
      PROVE  /\ call'[t].at = "done" /\ call'[t].error = e
             /\ ~call'[t].lease /\ call'[t].todo = {}
             /\ call'[t].on = NoSession /\ call'[t].verdict = "pending"
  <2>1. call'[t] = [IdleCall EXCEPT !.at = "done", !.error = e]
    BY <1>1, <1>4 DEF Answer
  <2> QED BY <2>1, AfreshFields
<1> QED BY <1>2, <1>3, <1>4

LEMMA CallTyped == ASSUME IInv, Next PROVE call' \in [Sessions -> Call]
<1>1. TypeOK /\ call \in [Sessions -> Call]
  BY DEF IInv, TypeOK
<1>2. ASSUME NEW s \in Sessions, NEW c \in Call, call' = [call EXCEPT ![s] = c]
      PROVE  call' \in [Sessions -> Call]
  BY <1>1, <1>2
<1>3. ASSUME NEW s \in Sessions, BeginStart(s) PROVE call' \in [Sessions -> Call]
  <2>1. {t \in published : ~session[t].ended} \in SUBSET Sessions /\ "reap" \in Phases
    BY <1>1 DEF TypeOK, Phases
  <2> QED BY <1>1, <1>2, <1>3, <2>1, CallTypes DEF BeginStart
<1>4. ASSUME NEW s \in Sessions, ReapOne(s) PROVE call' \in [Sessions -> Call]
  <2>1. PICK t \in call[s].todo :
          \/ call' = [call EXCEPT ![s] = [@ EXCEPT !.at = "reaping", !.on = t,
                                                   !.verdict = Awaited(t)]]
          \/ call' = [call EXCEPT ![s].todo = @ \ {t}]
    BY <1>4 DEF ReapOne
  <2>2. t \in Sessions /\ call[s].todo \ {t} \in SUBSET Sessions
    BY <1>1 DEF Call
  <2>3. "reaping" \in Phases /\ Awaited(t) \in Verdicts
    BY DEF Phases, Verdicts, Awaited
  <2> QED BY <1>1, <1>2, <2>1, <2>2, <2>3, CallTypes
<1>5. ASSUME NEW s \in Sessions, Reaped(s) PROVE call' \in [Sessions -> Call]
  <2>1. call[s].todo \ {call[s].on} \in SUBSET Sessions /\ "reap" \in Phases
    BY <1>1 DEF Call, Phases
  <2> QED BY <1>1, <1>2, <1>5, <2>1, CallTypes DEF Reaped
<1>6. ASSUME NEW s \in Sessions, NEW e \in BOOLEAN, Answer(s, e)
      PROVE  call' \in [Sessions -> Call]
  BY <1>1, <1>2, <1>6, CallTypes DEF Answer, Phases
<1>7. ASSUME NEW s \in Sessions, Reserve(s) PROVE call' \in [Sessions -> Call]
  BY <1>1, <1>2, <1>7, CallTypes DEF Reserve, Phases
<1>8. ASSUME NEW s \in Sessions, NEW p \in Phases, NEW e \in BOOLEAN, Advance(s, p, e)
      PROVE  call' \in [Sessions -> Call]
  BY <1>1, <1>2, <1>8, CallTypes DEF Advance
<1>9. ASSUME NEW s \in Sessions, NEW p \in Phases, ReleaseStarting(s, p)
      PROVE  call' \in [Sessions -> Call]
  BY <1>1, <1>2, <1>9, CallTypes DEF ReleaseStarting
<1>10. ASSUME NEW s \in Sessions, Register(s) PROVE call' \in [Sessions -> Call]
  BY <1>1, <1>2, <1>10, CallTypes DEF Register, Phases
<1>11. ASSUME NEW s \in Sessions, Settle(s) \/ Attend(s) PROVE call' \in [Sessions -> Call]
  <2>1. Awaited(s) \in Verdicts /\ "settling" \in Phases /\ "attending" \in Phases
    BY DEF Phases, Verdicts, Awaited
  <2> QED BY <1>1, <1>2, <1>11, <2>1, CallTypes DEF Settle, Attend
<1>12. ASSUME NEW s \in Sessions, ReportCleanup(s) PROVE call' \in [Sessions -> Call]
  <2>1. PICK v \in Verdicts :
          call' = [t \in Sessions |-> IF call[t].on = s /\ call[t].verdict = "pending"
                                      THEN [call[t] EXCEPT !.verdict = v] ELSE call[t]]
    BY <1>12 DEF ReportCleanup, Verdicts
  <2>2. \A t \in Sessions : [call[t] EXCEPT !.verdict = v] \in Call
    BY <1>1 DEF Call
  <2> QED BY <1>1, <2>1, <2>2
<1>13. ASSUME NEW s \in Sessions, StartStep(s) PROVE call' \in [Sessions -> Call]
  <2>1. CASE \/ ReserveRefused(s) \/ SpawnFailed(s) \/ Yield(s)
    BY <1>6, <2>1 DEF ReserveRefused, SpawnFailed, Yield
  <2>2. CASE Settled(s) \/ Attended(s)
    <3>1. call[s].error \in BOOLEAN /\ (call[s].verdict = "ok" /\ call[s].error) \in BOOLEAN
      BY <1>1 DEF Call
    <3> QED BY <1>6, <2>2, <3>1 DEF Settled, Attended
  <2>3. CASE SpawnOwned(s) \/ PublishRefused(s)
    <3>1. "publish" \in Phases /\ "register" \in Phases
      BY DEF Phases
    <3> QED BY <1>8, <2>3, <3>1 DEF SpawnOwned, PublishRefused
  <2>4. CASE Publish(s) \/ Release(s)
    BY <1>9, <2>4 DEF Publish, Release, Phases
  <2> QED BY <1>4, <1>5, <1>7, <1>10, <1>11, <1>13, <2>1, <2>2, <2>3, <2>4 DEF StartStep
<1>14. ASSUME NEW s \in Sessions, \/ PollOrStop(s) \/ ProcessesExit(s) \/ Interrupt(s)
                                  \/ Terminate(s) \/ Finish(s)
       PROVE  call' = call
  BY <1>14 DEF PollOrStop, ProcessesExit, Interrupt, Terminate, Finish
<1>15. ASSUME Enable \/ BeginRevoke \/ RevokeStep PROVE call' = call
  BY <1>15 DEF Enable, BeginRevoke, RevokeStep, Listen, CheckStarting, Wake, ListSessions,
               StopNext, StoppedOne, EndRevoke
<1> QED BY <1>1, <1>3, <1>12, <1>13, <1>14, <1>15 DEF Next, CleanupStep

LEMMA SessionsTyped ==
    ASSUME IInv, Next
    PROVE  /\ session' \in [Sessions -> Session]
           /\ proc' \in [Sessions -> Processes]
           /\ cleanup' \in [Sessions -> Cleanup]
<1>1. /\ session \in [Sessions -> Session] /\ proc \in [Sessions -> Processes]
      /\ cleanup \in [Sessions -> Cleanup]
  BY DEF IInv, TypeOK
<1>2. CASE UNCHANGED sessions
  BY <1>1, <1>2 DEF sessions
<1>3. CASE Ensures
  BY <1>1, <1>3, Ensured DEF Ensures, IInv
<1>4. ASSUME NEW s \in Sessions, Reserve(s) \/ SpawnOwned(s) \/ SpawnFailed(s)
      PROVE  /\ session' \in [Sessions -> Session] /\ proc' \in [Sessions -> Processes]
             /\ cleanup' = cleanup
  <2>1. \A b \in BOOLEAN : [session[s] EXCEPT !.slot = b] \in Session
    BY <1>1 DEF Session
  <2>2. CASE Reserve(s) \/ SpawnFailed(s)
    <3>1. [proc EXCEPT ![s] = "unheld"] \in [Sessions -> Processes]
      BY <1>1 DEF Processes
    <3> QED BY <1>1, <2>1, <2>2, <3>1 DEF Reserve, SpawnFailed
  <2>3. CASE SpawnOwned(s)
    BY <1>1, <2>3 DEF SpawnOwned, Processes
  <2> QED BY <1>4, <2>2, <2>3
<1>5. ASSUME NEW s \in Sessions, ProcessesExit(s)
      PROVE  /\ session' = session /\ proc' \in [Sessions -> Processes]
             /\ cleanup' = cleanup
  BY <1>1, <1>5 DEF ProcessesExit, sessions, Processes
<1>6. \A s \in Sessions : Refreshed(s) \in Session
  BY <1>1 DEF Refreshed, RootExited, Session
<1>7. ASSUME NEW s \in Sessions, Terminate(s)
      PROVE  /\ session' = session /\ proc' \in [Sessions -> Processes]
             /\ cleanup' \in [Sessions -> Cleanup]
  <2>1. \A p \in Processes : [proc EXCEPT ![s] = p] \in [Sessions -> Processes]
    BY <1>1
  <2>2. /\ [cleanup[s] EXCEPT !.at = "finish", !.ok = TRUE] \in Cleanup
        /\ \A at \in {"finish", "report"} : [cleanup[s] EXCEPT !.at = at] \in Cleanup
    BY <1>1 DEF Cleanup
  <2> QED BY <1>1, <1>7, <2>1, <2>2 DEF Terminate, Processes
<1>8. ASSUME NEW s \in Sessions, Finish(s)
      PROVE  /\ session' \in [Sessions -> Session] /\ proc' = proc
             /\ cleanup' \in [Sessions -> Cleanup]
  <2>1. PICK ok \in BOOLEAN :
          /\ cleanup' = [cleanup EXCEPT ![s] = [at |-> "report", ok |-> ok]]
          /\ session' = [session EXCEPT ![s] = IF ok THEN [Refreshed(s) EXCEPT !.clean = TRUE,
                                                                               !.slot = FALSE]
                                               ELSE Refreshed(s)]
    BY <1>1, <1>8 DEF Finish, Cleanup, RootExited
  <2>2. [at |-> "report", ok |-> ok] \in Cleanup
    BY DEF Cleanup
  <2>3. [Refreshed(s) EXCEPT !.clean = TRUE, !.slot = FALSE] \in Session
    BY <1>6 DEF Session
  <2> QED BY <1>1, <1>6, <1>8, <2>1, <2>2, <2>3 DEF Finish
<1>9. ASSUME NEW s \in Sessions, Interrupt(s) \/ ReportCleanup(s)
      PROVE  /\ session' \in [Sessions -> Session] /\ proc' = proc
             /\ cleanup' \in [Sessions -> Cleanup]
  <2>1. [cleanup[s] EXCEPT !.at = "terminate"] \in Cleanup /\ IdleCleanup \in Cleanup
    BY <1>1 DEF Cleanup, IdleCleanup
  <2> QED BY <1>1, <1>6, <1>9, <2>1 DEF Interrupt, ReportCleanup
<1> QED BY <1>1, <1>2, <1>3, <1>4, <1>5, <1>7, <1>8, <1>9, SessionsMove DEF CleanupStep

-----------------------------------------------------------------------------
(* The slot ledger. *)

(* The running counter moves with the set of those that hold a slot.          *)
LEMMA RunningMoves ==
    ASSUME IInv, Next
    PROVE  \/ running' = running /\ Holders' = Holders
           \/ /\ running' = running + 1 /\ running < MaxRunning
              /\ \E s \in Sessions \ Holders : Holders' = Holders \cup {s}
           \/ /\ running' = running - 1
              /\ \E s \in Holders : Holders' = Holders \ {s}
<1>1. session \in [Sessions -> Session] /\ proc \in [Sessions -> Processes]
  BY DEF IInv, TypeOK
<1>2. ASSUME \A t \in Sessions : session'[t].slot = session[t].slot
      PROVE  Holders' = Holders
  BY <1>2 DEF Holders
<1>3. ASSUME NEW s \in Sessions, Reserve(s)
      PROVE  /\ running' = running + 1 /\ running < MaxRunning
             /\ \E t \in Sessions \ Holders : Holders' = Holders \cup {t}
  <2>1. /\ running' = running + 1 /\ running < MaxRunning /\ call[s].at = "reap"
        /\ session' = [session EXCEPT ![s].slot = TRUE]
    BY <1>3 DEF Reserve
  <2>2. ~session[s].slot
    BY <2>1 DEF IInv, Stages, Stage, Records, Recorded
  <2>3. Holders' = Holders \cup {s}
    BY <1>1, <2>1 DEF Holders, Session
  <2> QED BY <2>1, <2>2, <2>3 DEF Holders
<1>4. ASSUME NEW s \in Sessions, session[s].slot, running' = running - 1,
             ~session'[s].slot, \A t \in Sessions \ {s} : session'[t] = session[t]
      PROVE  running' = running - 1 /\ \E t \in Holders : Holders' = Holders \ {t}
  <2>1. Holders' = Holders \ {s} /\ s \in Holders
    BY <1>4 DEF Holders
  <2> QED BY <1>4, <2>1
<1>5. ASSUME NEW s \in Sessions, SpawnFailed(s)
      PROVE  running' = running - 1 /\ \E t \in Holders : Holders' = Holders \ {t}
  <2>1. /\ running' = running - 1 /\ call[s].at = "spawn"
        /\ session' = [session EXCEPT ![s].slot = FALSE]
    BY <1>5 DEF SpawnFailed
  <2>2. session[s].slot
    BY <2>1 DEF IInv, Stages, Stage, Records, Recorded
  <2> QED BY <1>1, <1>4, <2>1, <2>2 DEF Session
<1>6. ASSUME NEW s \in Sessions, Finish(s)
      PROVE  \/ running' = running /\ Holders' = Holders
             \/ running' = running - 1 /\ \E t \in Holders : Holders' = Holders \ {t}
  <2>1. PICK ok \in BOOLEAN :
          /\ session' = [session EXCEPT ![s] = IF ok THEN [Refreshed(s) EXCEPT !.clean = TRUE,
                                                                               !.slot = FALSE]
                                               ELSE Refreshed(s)]
          /\ IF ok THEN running' = running - 1 ELSE running' = running
    BY <1>1, <1>6 DEF Finish, IInv, TypeOK, Cleanup, RootExited, slots
  <2>2. Refreshed(s) \in Session /\ Refreshed(s).slot = session[s].slot
    BY <1>1 DEF Refreshed, RootExited, Session
  <2>3. CASE ~ok
    BY <1>1, <1>2, <2>1, <2>2, <2>3
  <2>4. CASE ok
    <3>1. Handed(s) /\ ~session[s].clean
      BY <1>6 DEF Finish, IInv, Attempts, Attempt, Records, Recorded
    <3>2. session[s].slot
      BY <3>1 DEF IInv, Records, Recorded
    <3>3. ~session'[s].slot /\ \A t \in Sessions \ {s} : session'[t] = session[t]
      BY <1>1, <2>1, <2>2, <2>4 DEF Session
    <3> QED BY <1>4, <2>1, <2>4, <3>2, <3>3
  <2> QED BY <2>3, <2>4
<1>7. ASSUME NEW s \in Sessions, Interrupt(s)
      PROVE  running' = running /\ Holders' = Holders
  BY <1>1, <1>2, <1>7 DEF Interrupt, Refreshed, Session, slots
<1>8. ASSUME NEW s \in Sessions, \/ Terminate(s) \/ ReportCleanup(s)
                                 \/ ProcessesExit(s) \/ SpawnOwned(s)
      PROVE  running' = running /\ Holders' = Holders
  BY <1>8 DEF Terminate, ReportCleanup, ProcessesExit, SpawnOwned, sessions, slots, Holders
<1>9. ASSUME Ensures \/ UNCHANGED sessions,
             ~(\E s \in Sessions : \/ Reserve(s) \/ SpawnOwned(s) \/ SpawnFailed(s)
                                   \/ CleanupStep(s) \/ ProcessesExit(s))
      PROVE  running' = running /\ Holders' = Holders
  <2>1. Holders' = Holders
    <3>1. CASE Ensures
      BY <1>2, <3>1, Ensured DEF Ensures, IInv
    <3>2. CASE UNCHANGED sessions
      BY <3>2 DEF sessions, Holders
    <3> QED BY <1>9, <3>1, <3>2
  <2>2. ASSUME NEW s \in Sessions, BeginStart(s) \/ PollOrStop(s) PROVE running' = running
    BY <2>2 DEF BeginStart, PollOrStop, slots
  <2>3. ASSUME NEW s \in Sessions, StartStep(s) PROVE running' = running
    BY <1>9, <2>3 DEF StartStep, ReapOne, Reaped, ReserveRefused, Publish, PublishRefused,
                      ReleaseStarting, Register, Release, Settle, Settled, Yield, Attend,
                      Attended, slots
  <2>4. ASSUME Enable \/ BeginRevoke \/ RevokeStep PROVE running' = running
    BY <2>4 DEF Enable, BeginRevoke, RevokeStep, Listen, CheckStarting, Wake, ListSessions,
                StopNext, StoppedOne, EndRevoke, slots
  <2> QED BY <1>9, <2>1, <2>2, <2>3, <2>4 DEF Next
<1> QED BY <1>3, <1>5, <1>6, <1>7, <1>8, <1>9, SessionsMove DEF CleanupStep

(* The starting counter moves with the set of those that have a lease.        *)
LEMMA StartingMoves ==
    ASSUME IInv, Next
    PROVE  \/ starting' = starting /\ Leases' = Leases
           \/ /\ starting' = starting + 1
              /\ \E s \in Sessions \ Leases : /\ Reserve(s)
                                              /\ Leases' = Leases \cup {s}
           \/ /\ starting' = starting - 1
              /\ notified' = (revoke.at \in {"check", "wait"})
              /\ \E s \in Leases : /\ SpawnFailed(s) \/ Publish(s) \/ Release(s)
                                   /\ Leases' = Leases \ {s}
<1>1. call \in [Sessions -> Call]
  BY DEF IInv, TypeOK
<1>2. ASSUME NEW s \in Sessions, NEW c, call' = [call EXCEPT ![s] = c],
             c.lease = call[s].lease
      PROVE  Leases' = Leases
  BY <1>1, <1>2 DEF Leases
<1>3. ASSUME NEW s \in Sessions, Reserve(s)
      PROVE  starting' = starting + 1 /\ s \notin Leases /\ Leases' = Leases \cup {s}
  <2>1. /\ starting' = starting + 1 /\ call[s].at = "reap"
        /\ call' = [call EXCEPT ![s] = [@ EXCEPT !.at = "spawn", !.lease = TRUE]]
    BY <1>3 DEF Reserve
  <2>2. ~call[s].lease
    BY <2>1 DEF IInv, Stages, Stage
  <2>3. Leases' = Leases \cup {s}
    BY <1>1, <2>1 DEF Leases, Call
  <2> QED BY <2>1, <2>2, <2>3 DEF Leases
<1>4. ASSUME NEW s \in Sessions, SpawnFailed(s) \/ Publish(s) \/ Release(s)
      PROVE  /\ starting' = starting - 1
             /\ notified' = (revoke.at \in {"check", "wait"})
             /\ s \in Leases /\ Leases' = Leases \ {s}
  <2>1. /\ starting' = starting - 1 /\ call[s].at \in {"spawn", "publish", "release"}
        /\ notified' = (revoke.at \in {"check", "wait"})
    BY <1>4 DEF SpawnFailed, Publish, Release, ReleaseStarting, Notify
  <2>2. ~call'[s].lease /\ \A t \in Sessions \ {s} : call'[t] = call[t]
    <3>1. CASE SpawnFailed(s)
      BY <1>1, <3>1, AfreshFields DEF SpawnFailed, Answer
    <3>2. CASE Publish(s) \/ Release(s)
      <4>1. PICK p \in Phases : call' = [call EXCEPT ![s] = [@ EXCEPT !.at = p,
                                                                     !.lease = FALSE]]
        BY <3>2 DEF Publish, Release, ReleaseStarting, Phases
      <4> QED BY <1>1, <4>1 DEF Call
    <3> QED BY <1>4, <3>1, <3>2
  <2>3. call[s].lease
    BY <2>1 DEF IInv, Stages, Stage
  <2>4. Leases' = Leases \ {s}
    BY <2>2 DEF Leases
  <2> QED BY <2>1, <2>3, <2>4 DEF Leases
<1>5. ASSUME NEW s \in Sessions, NEW e \in BOOLEAN, Answer(s, e), ~call[s].lease
      PROVE  Leases' = Leases
  <2>1. ~[IdleCall EXCEPT !.at = "done", !.error = e].lease
    BY DEF IdleCall
  <2>2. ~call'[s].lease /\ \A t \in Sessions \ {s} : call'[t] = call[t]
    BY <1>1, <1>5, <2>1 DEF Answer
  <2> QED BY <1>5, <2>2 DEF Leases
<1>6. ASSUME NEW s \in Sessions,
             ReserveRefused(s) \/ Settled(s) \/ Yield(s) \/ Attended(s)
      PROVE  Leases' = Leases
  <2>1. ~call[s].lease /\ call[s].error \in BOOLEAN
    BY <1>1, <1>6 DEF ReserveRefused, Settled, Yield, Attended, IInv, Stages, Stage, Call
  <2>2. PICK e \in BOOLEAN : Answer(s, e)
    BY <1>6, <2>1 DEF ReserveRefused, Settled, Yield, Attended
  <2> QED BY <1>5, <2>1, <2>2
<1>7. ASSUME NEW s \in Sessions, BeginStart(s) \/ Reaped(s)
      PROVE  Leases' = Leases
  <2>1. ~call[s].lease
    BY <1>7 DEF BeginStart, Reaped, IInv, Stages, Stage
  <2>2. ~call'[s].lease /\ \A t \in Sessions \ {s} : call'[t] = call[t]
    <3>1. CASE BeginStart(s)
      BY <1>1, <2>1, <3>1 DEF BeginStart, Call
    <3>2. CASE Reaped(s)
      BY <1>1, <3>2, AfreshFields DEF Reaped
    <3> QED BY <1>7, <3>1, <3>2
  <2> QED BY <2>1, <2>2 DEF Leases
<1>8. ASSUME NEW s \in Sessions, ReapOne(s) \/ Settle(s) \/ Attend(s)
      PROVE  Leases' = Leases
  <2>1. CASE ReapOne(s)
    <3>1. PICK t \in call[s].todo :
            \/ call' = [call EXCEPT ![s] = [@ EXCEPT !.at = "reaping", !.on = t,
                                                    !.verdict = Awaited(t)]]
            \/ call' = [call EXCEPT ![s].todo = @ \ {t}]
      BY <2>1 DEF ReapOne
    <3>2. /\ [call[s] EXCEPT !.todo = @ \ {t}].lease = call[s].lease
          /\ [call[s] EXCEPT !.at = "reaping", !.on = t, !.verdict = Awaited(t)].lease
               = call[s].lease
      BY <1>1 DEF Call
    <3> QED BY <1>1, <1>2, <3>1, <3>2
  <2>2. CASE Settle(s)
    BY <1>1, <2>2 DEF Settle, Leases, Call
  <2>3. CASE Attend(s)
    <3>1. PICK e \in BOOLEAN :
            call' = [call EXCEPT ![s] = [@ EXCEPT !.at = "attending", !.error = e,
                                                  !.on = s, !.verdict = Awaited(s)]]
      BY <2>3 DEF Attend
    <3>2. [call[s] EXCEPT !.at = "attending", !.error = e, !.on = s,
                          !.verdict = Awaited(s)].lease = call[s].lease
      BY <1>1 DEF Call
    <3> QED BY <1>1, <1>2, <3>1, <3>2
  <2> QED BY <1>8, <2>1, <2>2, <2>3
<1>9. ASSUME NEW s \in Sessions, SpawnOwned(s) \/ PublishRefused(s) \/ Register(s)
      PROVE  Leases' = Leases
  <2>1. CASE Register(s)
    BY <1>1, <2>1 DEF Register, Leases, Call
  <2>2. CASE SpawnOwned(s) \/ PublishRefused(s)
    <3>1. PICK p \in Phases, e \in BOOLEAN :
            call' = [call EXCEPT ![s] = [@ EXCEPT !.at = p, !.error = e]]
      BY <2>2 DEF SpawnOwned, PublishRefused, Advance, Phases
    <3>2. [call[s] EXCEPT !.at = p, !.error = e].lease = call[s].lease
      BY <1>1 DEF Call
    <3> QED BY <1>1, <1>2, <3>1, <3>2
  <2> QED BY <1>9, <2>1, <2>2
<1>10. ASSUME NEW s \in Sessions, ReportCleanup(s) PROVE Leases' = Leases
  BY <1>1, <1>10 DEF ReportCleanup, Leases, Call
<1>11. ASSUME NEW s \in Sessions, \/ PollOrStop(s) \/ ProcessesExit(s) \/ Interrupt(s)
                                  \/ Terminate(s) \/ Finish(s)
       PROVE  call' = call /\ starting' = starting
  BY <1>11 DEF PollOrStop, ProcessesExit, Interrupt, Terminate, Finish, slots
<1>12. ASSUME NEW s \in Sessions,
              \/ BeginStart(s) \/ ReapOne(s) \/ Reaped(s) \/ ReserveRefused(s) \/ SpawnOwned(s)
              \/ PublishRefused(s) \/ Register(s) \/ Settle(s) \/ Settled(s) \/ Yield(s)
              \/ Attend(s) \/ Attended(s) \/ ReportCleanup(s)
       PROVE  starting' = starting
  BY <1>12 DEF BeginStart, ReapOne, Reaped, ReserveRefused, SpawnOwned, PublishRefused,
               Register, Settle, Settled, Yield, Attend, Attended, ReportCleanup, slots
<1>13. ASSUME Enable \/ BeginRevoke \/ RevokeStep
       PROVE  call' = call /\ starting' = starting
  BY <1>13 DEF Enable, BeginRevoke, RevokeStep, Listen, CheckStarting, Wake, ListSessions,
               StopNext, StoppedOne, EndRevoke, slots
<1>14. call' = call => Leases' = Leases
  BY DEF Leases
<1> QED BY <1>3, <1>4, <1>6, <1>7, <1>8, <1>9, <1>10, <1>11, <1>12, <1>13, <1>14
        DEF Next, StartStep, CleanupStep, Leases

LEMMA CountedStep == ASSUME IInv, Next PROVE Counted' /\ starting' \in Nat /\ running' \in Nat
<1>1. /\ running = Cardinality(Holders) /\ starting = Cardinality(Leases)
      /\ running \in Nat /\ starting \in Nat /\ running <= MaxRunning
      /\ IsFiniteSet(Holders) /\ IsFiniteSet(Leases) /\ MaxRunning \in Nat
  BY LedgerCounts, LimitAssumption DEF IInv, Counted, TypeOK
<1>2. /\ running' = Cardinality(Holders') /\ running' <= MaxRunning /\ running' \in Nat
  <2>1. CASE running' = running /\ Holders' = Holders
    BY <1>1, <2>1
  <2>2. ASSUME running' = running + 1, running < MaxRunning, NEW s \in Sessions \ Holders,
               Holders' = Holders \cup {s}
        PROVE  /\ running' = Cardinality(Holders') /\ running' <= MaxRunning
               /\ running' \in Nat
    <3>1. Cardinality(Holders \cup {s}) = Cardinality(Holders) + 1
      BY <1>1, <2>2, FS_AddElement
    <3> QED BY <1>1, <2>2, <3>1
  <2>3. ASSUME running' = running - 1, NEW s \in Holders, Holders' = Holders \ {s}
        PROVE  /\ running' = Cardinality(Holders') /\ running' <= MaxRunning
               /\ running' \in Nat
    <3>1. running > 0
      BY <2>3, LedgerCounts DEF Holders, IInv
    <3>2. Cardinality(Holders \ {s}) = Cardinality(Holders) - 1
      BY <1>1, <2>3, FS_RemoveElement
    <3> QED BY <1>1, <2>3, <3>1, <3>2
  <2> QED BY <2>1, <2>2, <2>3, RunningMoves
<1>3. starting' = Cardinality(Leases') /\ starting' \in Nat
  <2>1. CASE starting' = starting /\ Leases' = Leases
    BY <1>1, <2>1
  <2>2. ASSUME starting' = starting + 1, NEW s \in Sessions \ Leases,
               Leases' = Leases \cup {s}
        PROVE  starting' = Cardinality(Leases') /\ starting' \in Nat
    <3>1. Cardinality(Leases \cup {s}) = Cardinality(Leases) + 1
      BY <1>1, <2>2, FS_AddElement
    <3> QED BY <1>1, <2>2, <3>1
  <2>3. ASSUME starting' = starting - 1, NEW s \in Leases, Leases' = Leases \ {s}
        PROVE  starting' = Cardinality(Leases') /\ starting' \in Nat
    <3>1. starting > 0
      BY <2>3, LedgerCounts DEF Leases, IInv
    <3>2. Cardinality(Leases \ {s}) = Cardinality(Leases) - 1
      BY <1>1, <2>3, FS_RemoveElement
    <3> QED BY <1>1, <2>3, <3>1, <3>2
  <2> QED BY <2>1, <2>2, <2>3, StartingMoves
<1> QED BY <1>2, <1>3 DEF Counted

(* Of the toggles and the registry.                                           *)
LEMMA RegistryTyped ==
    ASSUME IInv, Next
    PROVE  /\ accepting' \in BOOLEAN /\ published' \subseteq Sessions
           /\ unpublished' \subseteq Sessions /\ notified' \in BOOLEAN
           /\ revoke' \in Revoke /\ revoked' \in {"no", "ok", "failed"}
<1>1. /\ accepting \in BOOLEAN /\ published \subseteq Sessions
      /\ unpublished \subseteq Sessions /\ notified \in BOOLEAN
      /\ revoke \in Revoke /\ revoked \in {"no", "ok", "failed"}
  BY DEF IInv, TypeOK
<1>0. Notify => notified' \in BOOLEAN
  BY DEF Notify
<1>2. \A kept : Gc(kept) => published' \subseteq published
  BY DEF Gc, Receipts
<1>3. ASSUME NEW s \in Sessions, BeginStart(s) \/ PollOrStop(s) \/ ProcessesExit(s)
      PROVE  /\ accepting' = accepting /\ published' \subseteq published
             /\ unpublished' = unpublished /\ notified' = notified
             /\ revoke' = revoke /\ revoked' = revoked
  BY <1>2, <1>3 DEF BeginStart, PollOrStop, ProcessesExit, slots, registry, toggles
<1>4. ASSUME NEW s \in Sessions, StartStep(s)
      PROVE  /\ accepting' = accepting /\ published' \subseteq published \cup {s}
             /\ unpublished' \subseteq unpublished \cup {s} /\ notified' \in BOOLEAN
             /\ revoke' = revoke /\ revoked' = revoked
  <2>1. CASE SpawnFailed(s) \/ Publish(s) \/ Release(s)
    BY <1>1, <1>0, <2>1 DEF SpawnFailed, Publish, Release, ReleaseStarting, registry, toggles
  <2>2. CASE ~SpawnFailed(s) /\ ~Publish(s) /\ ~Release(s)
    BY <1>1, <1>4, <2>2 DEF StartStep, ReapOne, Reaped, ReserveRefused, Reserve, SpawnOwned,
                            PublishRefused, Register, Settle, Settled, Yield, Attend, Attended,
                            slots, registry, toggles
  <2> QED BY <2>1, <2>2
<1>5. ASSUME NEW s \in Sessions, CleanupStep(s)
      PROVE  /\ registry' = registry /\ notified' \in BOOLEAN
             /\ revoke' \in Revoke /\ revoked' = revoked
  <2>1. registry' = registry /\ revoked' = revoked
    BY <1>5 DEF CleanupStep
  <2>2. notified' \in BOOLEAN
    BY <1>1, <1>0, <1>5 DEF CleanupStep, Interrupt, Terminate, Finish, ReportCleanup, slots
  <2>3. CASE ReportCleanup(s)
    <3>1. \A v \in Verdicts : [revoke EXCEPT !.verdict = v] \in Revoke
      BY <1>1 DEF Revoke
    <3> QED BY <1>1, <2>1, <2>2, <2>3, <3>1 DEF ReportCleanup, Verdicts
  <2>4. CASE ~ReportCleanup(s)
    BY <1>1, <1>5, <2>1, <2>2, <2>4 DEF CleanupStep, Interrupt, Terminate, Finish
  <2> QED BY <2>3, <2>4
<1>6. ASSUME Enable \/ BeginRevoke
      PROVE  /\ accepting' \in BOOLEAN /\ published' \subseteq published
             /\ unpublished' = unpublished /\ notified' = notified
             /\ revoke' \in Revoke /\ revoked' = "no"
  <2>1. [IdleRevoke EXCEPT !.at = "listen"] \in Revoke
    BY DEF IdleRevoke, Revoke, Verdicts
  <2> QED BY <1>1, <1>2, <1>6, <2>1 DEF Enable, BeginRevoke, slots
<1>7. ASSUME RevokeStep
      PROVE  /\ accepting' \in BOOLEAN /\ published' = published
             /\ unpublished' \subseteq unpublished /\ notified' \in BOOLEAN
  BY <1>1, <1>7 DEF RevokeStep, Listen, CheckStarting, Wake, ListSessions, StopNext, StoppedOne,
                    EndRevoke, slots, registry
<1>8. ASSUME RevokeStep
      PROVE  revoke' \in Revoke /\ revoked' \in {"no", "ok", "failed"}
  <2>1. CASE Listen \/ CheckStarting \/ Wake
    BY <1>1, <2>1 DEF Listen, CheckStarting, Wake, Revoke
  <2>2. CASE ListSessions
    <3>1. {s \in published : ~session[s].clean} \cup unpublished \in SUBSET Sessions
      BY <1>1
    <3> QED BY <1>1, <2>2, <3>1 DEF ListSessions, Revoke
  <2>3. CASE StopNext
    <3>1. PICK s \in revoke.todo :
            revoke' = [revoke EXCEPT !.at = "stopping", !.on = s, !.verdict = Awaited(s)]
      BY <2>3 DEF StopNext
    <3>2. s \in Sessions /\ Awaited(s) \in Verdicts
      BY <1>1 DEF Revoke, Awaited, Verdicts
    <3> QED BY <1>1, <2>3, <3>1, <3>2 DEF StopNext, Revoke
  <2>4. CASE StoppedOne
    <3>1. /\ revoke.todo \ {revoke.on} \in SUBSET Sessions
          /\ (revoke.failed \/ revoke.verdict = "failed") \in BOOLEAN
      BY <1>1 DEF Revoke
    <3>2. \A todo \in SUBSET Sessions, failed \in BOOLEAN :
            [IdleRevoke EXCEPT !.at = "stop", !.todo = todo, !.failed = failed] \in Revoke
      BY DEF IdleRevoke, Revoke, Verdicts
    <3> QED BY <1>1, <2>4, <3>1, <3>2 DEF StoppedOne
  <2>5. CASE EndRevoke
    <3>1. IdleRevoke \in Revoke
      BY DEF IdleRevoke, Revoke, Verdicts
    <3> QED BY <2>5, <3>1 DEF EndRevoke
  <2> QED BY <1>8, <2>1, <2>2, <2>3, <2>4, <2>5 DEF RevokeStep
<1> QED BY <1>1, <1>3, <1>4, <1>5, <1>6, <1>7, <1>8 DEF Next, registry

LEMMA TypeStep == ASSUME IInv, Next PROVE TypeOK'
BY CallTyped, SessionsTyped, RegistryTyped, CountedStep DEF TypeOK

-----------------------------------------------------------------------------
(* The start calls. *)

(* A start call moves by its own steps; others only tell it a verdict.        *)
LEMMA CallsMove ==
    ASSUME IInv, Next, NEW t \in Sessions
    PROVE  \/ BeginStart(t) \/ StartStep(t)
           \/ call'[t] = call[t]
           \/ \E s \in Sessions :
                /\ ReportCleanup(s) /\ call[t].on = s
                /\ call'[t] = [call[t] EXCEPT !.verdict = IF cleanup[s].ok THEN "ok"
                                                          ELSE "failed"]
<1>1. call \in [Sessions -> Call]
  BY DEF IInv, TypeOK
<1>2. ASSUME NEW s \in Sessions, s # t, BeginStart(s) \/ StartStep(s)
      PROVE  call'[t] = call[t]
  <2>1. \E c : call' = [call EXCEPT ![s] = c]
    BY <1>2 DEF BeginStart, StartStep, ReapOne, Reaped, ReserveRefused, Reserve, SpawnOwned,
                SpawnFailed, Publish, PublishRefused, Register, Release, Settle, Settled, Yield,
                Attend, Attended, Answer, Advance, ReleaseStarting
  <2> QED BY <1>1, <1>2, <2>1
<1>3. ASSUME NEW s \in Sessions, ReportCleanup(s)
      PROVE  \/ call'[t] = call[t]
             \/ /\ call[t].on = s
                /\ call'[t] = [call[t] EXCEPT !.verdict = IF cleanup[s].ok THEN "ok"
                                                          ELSE "failed"]
  BY <1>1, <1>3 DEF ReportCleanup
<1>4. ASSUME NEW s \in Sessions, \/ PollOrStop(s) \/ ProcessesExit(s) \/ Interrupt(s)
                                 \/ Terminate(s) \/ Finish(s)
      PROVE  call' = call
  BY <1>4 DEF PollOrStop, ProcessesExit, Interrupt, Terminate, Finish
<1>5. ASSUME Enable \/ BeginRevoke \/ RevokeStep PROVE call' = call
  BY <1>5 DEF Enable, BeginRevoke, RevokeStep, Listen, CheckStarting, Wake, ListSessions,
              StopNext, StoppedOne, EndRevoke
<1> QED BY <1>2, <1>3, <1>4, <1>5 DEF Next, CleanupStep

(* A call that reaps passes a session over or waits for its cleanup.          *)
LEMMA ReapFields ==
    ASSUME TypeOK, NEW t \in Sessions, ReapOne(t)
    PROVE  /\ call[t].at = "reap" /\ call'[t].lease = call[t].lease
           /\ \/ /\ call'[t].at = "reap" /\ call'[t].todo \subseteq call[t].todo
                 /\ call'[t].on = call[t].on /\ call'[t].verdict = call[t].verdict
              \/ /\ call'[t].at = "reaping" /\ call'[t].todo = call[t].todo
                 /\ call'[t].on \in call[t].todo
                 /\ call'[t].verdict = Awaited(call'[t].on)
<1>1. call \in [Sessions -> Call] /\ call[t] \in Call
  BY DEF TypeOK
<1>2. PICK x \in call[t].todo :
        \/ call' = [call EXCEPT ![t] = [@ EXCEPT !.at = "reaping", !.on = x,
                                                !.verdict = Awaited(x)]]
        \/ call' = [call EXCEPT ![t].todo = @ \ {x}]
  BY DEF ReapOne
<1>3. CASE call' = [call EXCEPT ![t].todo = @ \ {x}]
  BY <1>1, <1>3 DEF ReapOne, Call
<1>4. CASE call' = [call EXCEPT ![t] = [@ EXCEPT !.at = "reaping", !.on = x,
                                               !.verdict = Awaited(x)]]
  <2>1. call'[t] = [call[t] EXCEPT !.at = "reaping", !.on = x, !.verdict = Awaited(x)]
    BY <1>1, <1>4
  <2> QED BY <1>1, <2>1 DEF ReapOne, Call
<1> QED BY <1>2, <1>3, <1>4

LEMMA StagesStep == ASSUME IInv, Next PROVE Stages'
<1> SUFFICES ASSUME NEW t \in Sessions PROVE Stage(t)'
  BY DEF Stages
<1>1. /\ call[t] \in Call /\ call \in [Sessions -> Call] /\ Stage(t)
      /\ proc \in [Sessions -> Processes]
  BY DEF IInv, TypeOK, Stages
<1>2. /\ Handed(t) => Handed(t)'
      /\ proc[t] = "none" => proc'[t] = "none" \/ SpawnOwned(t) \/ SpawnFailed(t)
      /\ proc'[t] = "unheld" => proc[t] = "unheld" \/ SpawnFailed(t)
      /\ Holding(t)' => Holding(t) \/ SpawnOwned(t)
  BY Onward
<1>3. /\ SpawnOwned(t) => call[t].at = "spawn" /\ call'[t].at \in {"publish", "register"}
      /\ SpawnFailed(t) => /\ call[t].at = "spawn" /\ call'[t].at = "done"
                           /\ call'[t].error
  BY StepFields DEF SpawnOwned, SpawnFailed, Phases, IInv
<1>4. ASSUME NEW e \in BOOLEAN, Answer(t, e), e => ~Holding(t), call[t].at # "done"
      PROVE  Stage(t)'
  <2>1. call'[t].at = "done" /\ call'[t].error = e /\ ~call'[t].lease
    BY <1>4, StepFields DEF IInv
  <2> QED BY <1>1, <1>2, <1>3, <1>4, <2>1 DEF Stage
<1>5. ASSUME NEW p \in {"attend", "settle"}, ReleaseStarting(t, p),
             call[t].at \in {"publish", "release"}
      PROVE  Stage(t)'
  <2>1. call'[t].at = p /\ ~call'[t].lease
    BY <1>5, StepFields DEF IInv, Phases
  <2> QED BY <1>1, <1>2, <1>5, <2>1 DEF Stage
<1>6. CASE call'[t] = call[t]
  BY <1>1, <1>2, <1>3, <1>6 DEF Stage
<1>7. ASSUME NEW v, call'[t] = [call[t] EXCEPT !.verdict = v] PROVE Stage(t)'
  BY <1>1, <1>2, <1>3, <1>7 DEF Stage, Call
<1>8. CASE BeginStart(t)
  BY <1>1, <1>2, <1>3, <1>8 DEF BeginStart, Stage, Call
<1>9. CASE StartStep(t)
  <2>1. CASE ReapOne(t)
    <3>1. call[t].at = "reap" /\ call'[t].at \in {"reap", "reaping"}
          /\ call'[t].lease = call[t].lease
      BY <2>1, ReapFields DEF IInv
    <3> QED BY <1>1, <1>2, <1>3, <3>1 DEF Stage
  <2>2. CASE Reaped(t)
    <3>1. call[t].at = "reaping" /\ call'[t].at = "reap" /\ ~call'[t].lease
      <4> DEFINE again == [IdleCall EXCEPT !.at = "reap",
                                           !.todo = call[t].todo \ {call[t].on}]
      <4>1. call[t].at = "reaping" /\ call'[t] = again
        BY <1>1, <2>2 DEF Reaped
      <4>2. again.at = "reap" /\ ~again.lease
        BY AfreshFields
      <4> QED BY <4>1, <4>2
    <3> QED BY <1>1, <1>2, <1>3, <3>1 DEF Stage
  <2>3. CASE ReserveRefused(t)
    BY <1>1, <1>4, <2>3 DEF ReserveRefused, Stage, Holding
  <2>4. CASE Reserve(t)
    BY <1>1, <1>2, <1>3, <2>4 DEF Reserve, Stage, Call
  <2>5. CASE SpawnOwned(t)
    <3>1. proc'[t] = "live" /\ call[t].at = "spawn"
      BY <1>1, <2>5 DEF SpawnOwned
    <3>2. call'[t].at \in {"publish", "register"} /\ call'[t].lease = call[t].lease
      BY <2>5, StepFields DEF SpawnOwned, Phases, IInv
    <3> QED BY <1>1, <3>1, <3>2 DEF Stage
  <2>6. CASE SpawnFailed(t)
    BY <1>1, <1>4, <2>6 DEF SpawnFailed, Stage, Holding
  <2>7. CASE Publish(t) \/ Release(t)
    BY <1>5, <2>7 DEF Publish, Release
  <2>8. CASE PublishRefused(t) \/ Register(t)
    <3>1. /\ call[t].at \in {"publish", "register"} /\ call'[t].at \in {"register", "release"}
          /\ call'[t].lease = call[t].lease
      <4>1. CASE PublishRefused(t)
        BY <4>1, StepFields DEF PublishRefused, Phases, IInv
      <4>2. CASE Register(t)
        BY <1>1, <4>2 DEF Register, Call
      <4> QED BY <2>8, <4>1, <4>2
    <3> QED BY <1>1, <1>2, <3>1 DEF Stage
  <2>9. CASE Settle(t)
    BY <1>1, <1>2, <1>3, <2>9 DEF Settle, Stage, Call
  <2>10. CASE Yield(t)
    BY <1>4, <2>10 DEF Yield
  <2>11. CASE Attend(t)
    BY <1>1, <1>2, <1>3, <2>11 DEF Attend, Stage, Call
  <2>12. ASSUME call[t].at \in {"settling", "attending"}, call[t].verdict = "ok"
         PROVE  ~Holding(t)
    BY <1>1, <2>12 DEF Stage, IInv, Waiting, Waits, Records, Recorded, Holding
  <2>13. CASE Settled(t) \/ Attended(t)
    <3>1. call[t].at \in {"settling", "attending"} /\ call[t].error \in BOOLEAN
      BY <1>1, <2>13 DEF Settled, Attended, Call
    <3>2. CASE call[t].verdict = "ok"
      <4>1. \A e \in BOOLEAN : Answer(t, e) => Stage(t)'
        BY <1>4, <2>12, <3>1, <3>2
      <4>2. Answer(t, call[t].error) \/ Answer(t, call[t].verdict = "ok" /\ call[t].error)
        BY <2>13, <3>2 DEF Settled, Attended
      <4> QED BY <3>1, <4>1, <4>2
    <3>3. CASE call[t].verdict # "ok"
      <4>1. \/ Answer(t, FALSE) \/ Answer(t, call[t].verdict = "ok" /\ call[t].error)
        BY <2>13, <3>3 DEF Settled, Attended
      <4>2. (call[t].verdict = "ok" /\ call[t].error) = FALSE
        BY <3>3
      <4> QED BY <1>4, <3>1, <4>1, <4>2
    <3> QED BY <3>2, <3>3
  <2> QED BY <1>9, <2>1, <2>2, <2>3, <2>4, <2>5, <2>6, <2>7, <2>8, <2>9, <2>10, <2>11,
             <2>13 DEF StartStep
<1> QED BY <1>6, <1>7, <1>8, <1>9, CallsMove

-----------------------------------------------------------------------------
(* The sessions, the lists and the cleanup attempts. *)

(* A session is listed by its own start call, and only a clean one is dropped.*)
LEMMA ListsMove ==
    ASSUME IInv, Next, NEW t \in Sessions
    PROVE  /\ t \in published' \cup unpublished' =>
                t \in published \cup unpublished \/ Publish(t) \/ Register(t)
           /\ t \in published \cup unpublished /\ ~session[t].clean =>
                t \in published' \cup unpublished'
           /\ Publish(t) \/ Register(t) => t \in published' \cup unpublished'
<1>1. \A kept : Gc(kept) => /\ published' \subseteq published
                            /\ t \in published /\ ~session[t].clean => t \in published'
  BY DEF Gc, Receipts
<1>2. ASSUME NEW s \in Sessions, BeginStart(s) \/ PollOrStop(s) \/ ProcessesExit(s)
      PROVE  /\ published' \subseteq published /\ unpublished' = unpublished
             /\ t \in published /\ ~session[t].clean => t \in published'
  BY <1>1, <1>2 DEF BeginStart, PollOrStop, ProcessesExit, registry
<1>3. ASSUME NEW s \in Sessions, Settled(s)
      PROVE  /\ published' = published /\ unpublished' \subseteq unpublished
             /\ ~session[t].clean => (t \in unpublished' <=> t \in unpublished)
  <2>1. call[s].verdict = "ok" => session[s].clean
    BY <1>3 DEF Settled, IInv, Waiting, Waits, Stages, Stage
  <2> QED BY <1>3, <2>1 DEF Settled
<1>4. ASSUME NEW s \in Sessions, Publish(s)
      PROVE  published' = published \cup {s} /\ unpublished' = unpublished
  BY <1>4 DEF Publish
<1>5. ASSUME NEW s \in Sessions, Register(s)
      PROVE  published' = published /\ unpublished' = unpublished \cup {s}
  BY <1>5 DEF Register
<1>6. ASSUME NEW s \in Sessions, StartStep(s), ~Settled(s), ~Publish(s), ~Register(s)
      PROVE  registry' = registry
  BY <1>6 DEF StartStep, ReapOne, Reaped, ReserveRefused, Reserve, SpawnOwned, SpawnFailed,
              PublishRefused, Release, Settle, Yield, Attend, Attended, registry
<1>7. ASSUME NEW s \in Sessions, CleanupStep(s) PROVE registry' = registry
  BY <1>7 DEF CleanupStep
<1>8. ASSUME Enable \/ BeginRevoke
      PROVE  /\ published' \subseteq published /\ unpublished' = unpublished
             /\ t \in published /\ ~session[t].clean => t \in published'
  BY <1>1, <1>8 DEF Enable, BeginRevoke
<1>9. ASSUME RevokeStep
      PROVE  /\ published' = published /\ unpublished' \subseteq unpublished
             /\ ~session[t].clean => (t \in unpublished' <=> t \in unpublished)
  BY <1>9 DEF RevokeStep, Listen, CheckStarting, Wake, ListSessions, StopNext, StoppedOne,
              EndRevoke, registry
<1> QED BY <1>2, <1>3, <1>4, <1>5, <1>6, <1>7, <1>8, <1>9 DEF Next, registry

(* Into and out of the spawn phase.                                           *)
LEMMA SpawnPhase ==
    ASSUME IInv, Next, NEW t \in Sessions
    PROVE  \/ Reserve(t) \/ SpawnOwned(t) \/ SpawnFailed(t)
           \/ call'[t].at = "spawn" <=> call[t].at = "spawn"
<1>1. call \in [Sessions -> Call] /\ call[t] \in Call
  BY DEF IInv, TypeOK
<1>2. ASSUME NEW v, call'[t] = [call[t] EXCEPT !.verdict = v]
      PROVE  call'[t].at = call[t].at
  BY <1>1, <1>2 DEF Call
<1>3. ASSUME NEW e \in BOOLEAN, Answer(t, e) PROVE call'[t].at = "done"
  BY <1>3, StepFields DEF IInv
<1>4. CASE BeginStart(t)
  BY <1>1, <1>4 DEF BeginStart, Call
<1>5. CASE StartStep(t)
  <2>1. CASE ReapOne(t)
    BY <2>1, ReapFields DEF IInv
  <2>2. CASE Reaped(t)
    <3>1. call[t].at = "reaping"
          /\ call'[t] = [IdleCall EXCEPT !.at = "reap",
                                         !.todo = call[t].todo \ {call[t].on}]
      BY <1>1, <2>2 DEF Reaped
    <3> QED BY <3>1, AfreshFields
  <2>3. CASE ReserveRefused(t) \/ Yield(t)
    BY <1>3, <2>3 DEF ReserveRefused, Yield
  <2>4. CASE Publish(t) \/ Release(t)
    BY <2>4, StepFields DEF Publish, Release, Phases, IInv
  <2>5. CASE PublishRefused(t) \/ Register(t)
    <3>1. CASE PublishRefused(t)
      BY <3>1, StepFields DEF PublishRefused, Phases, IInv
    <3>2. CASE Register(t)
      BY <1>1, <3>2 DEF Register, Call
    <3> QED BY <2>5, <3>1, <3>2
  <2>6. CASE Settle(t) \/ Attend(t)
    <3>1. CASE Settle(t)
      BY <1>1, <3>1 DEF Settle, Call
    <3>2. CASE Attend(t)
      BY <1>1, <3>2 DEF Attend, Call
    <3> QED BY <2>6, <3>1, <3>2
  <2>7. CASE Settled(t) \/ Attended(t)
    <3>1. call[t].at \in {"settling", "attending"} /\ call[t].error \in BOOLEAN
          /\ (call[t].verdict = "ok" /\ call[t].error) \in BOOLEAN
      BY <1>1, <2>7 DEF Settled, Attended, Call
    <3> QED BY <1>3, <2>7, <3>1 DEF Settled, Attended
  <2> QED BY <1>5, <2>1, <2>2, <2>3, <2>4, <2>5, <2>6, <2>7 DEF StartStep
<1> QED BY <1>2, <1>4, <1>5, CallsMove

(* What the attempt of a session does to it.                                  *)
LEMMA AttemptMoves ==
    ASSUME IInv, NEW s \in Sessions, CleanupStep(s)
    PROVE  /\ \A t \in Sessions \ {s} : /\ session'[t] = session[t] /\ proc'[t] = proc[t]
                                        /\ cleanup'[t] = cleanup[t]
           /\ cleanup[s].at # "idle" /\ Handed(s)
           /\ \/ /\ session'[s].clean = session[s].clean /\ session'[s].slot = session[s].slot
                 /\ Handed(s)' /\ (proc[s] = "gone" => proc'[s] = "gone")
                 /\ cleanup'[s].ok => cleanup'[s].at = "finish" /\ proc'[s] = "gone"
                 /\ cleanup'[s].at # "idle" =>
                      cleanup[s].at \in {"interrupt", "terminate", "finish"}
              \/ /\ session'[s].clean /\ ~session'[s].slot
                 /\ proc' = proc /\ proc[s] = "gone"
                 /\ cleanup[s].at = "finish" /\ cleanup'[s].at = "report"
<1>1. /\ session \in [Sessions -> Session] /\ proc \in [Sessions -> Processes]
      /\ cleanup \in [Sessions -> Cleanup] /\ cleanup[s] \in Cleanup
  BY DEF IInv, TypeOK
<1>2. cleanup[s].at # "idle"
  BY DEF CleanupStep, Interrupt, Terminate, Finish, ReportCleanup
<1>3. Handed(s) /\ Attempt(s)
  BY <1>2 DEF IInv, Records, Recorded, Attempts
<1>4. /\ Refreshed(s) \in Session /\ Refreshed(s).clean = session[s].clean
      /\ Refreshed(s).slot = session[s].slot
  BY <1>1 DEF Refreshed, RootExited, Session
<1>5. CASE Interrupt(s)
  BY <1>1, <1>2, <1>3, <1>4, <1>5 DEF Interrupt, Attempt, Cleanup
<1>6. CASE Terminate(s)
  <2>1. CASE /\ proc' = [proc EXCEPT ![s] = "gone"]
             /\ cleanup' = [cleanup EXCEPT ![s] = [@ EXCEPT !.at = "finish", !.ok = TRUE]]
    BY <1>1, <1>2, <1>3, <1>6, <2>1 DEF Terminate, Attempt, Cleanup
  <2>2. ASSUME NEW at \in {"finish", "report"}, cleanup' = [cleanup EXCEPT ![s].at = at]
        PROVE  /\ cleanup'[s].at = at /\ cleanup'[s].ok = cleanup[s].ok
               /\ \A t \in Sessions \ {s} : cleanup'[t] = cleanup[t]
    BY <1>1, <2>2 DEF Cleanup
  <2>3. ~cleanup[s].ok /\ cleanup[s].at = "terminate" /\ session' = session
    BY <1>3, <1>6 DEF Terminate, Attempt
  <2> QED BY <1>1, <1>2, <1>3, <1>6, <2>1, <2>2, <2>3 DEF Terminate
<1>7. CASE Finish(s)
  <2>1. PICK ok \in {FALSE, cleanup[s].ok /\ RootExited(s)} :
          /\ cleanup' = [cleanup EXCEPT ![s] = [at |-> "report", ok |-> ok]]
          /\ session' = [session EXCEPT ![s] = IF ok THEN [Refreshed(s) EXCEPT !.clean = TRUE,
                                                                               !.slot = FALSE]
                                               ELSE Refreshed(s)]
    BY <1>7 DEF Finish
  <2>2. proc' = proc /\ cleanup[s].at = "finish"
    BY <1>7 DEF Finish
  <2>3. cleanup'[s].at = "report" /\ (cleanup'[s].ok <=> ok)
    BY <1>1, <2>1
  <2>4. CASE ok
    BY <1>1, <1>3, <1>4, <2>1, <2>2, <2>3, <2>4 DEF Attempt, Session
  <2>5. CASE ~ok
    BY <1>1, <1>3, <1>4, <2>1, <2>2, <2>3, <2>5 DEF Attempt, Session
  <2> QED BY <2>4, <2>5
<1>8. CASE ReportCleanup(s)
  <2>1. IdleCleanup.at = "idle" /\ ~IdleCleanup.ok
    BY DEF IdleCleanup
  <2> QED BY <1>1, <1>2, <1>3, <1>8, <2>1 DEF ReportCleanup
<1> QED BY <1>5, <1>6, <1>7, <1>8 DEF CleanupStep

LEMMA RecordsStep == ASSUME IInv, Next PROVE Records' /\ Attempts'
<1> SUFFICES ASSUME NEW t \in Sessions PROVE Recorded(t)' /\ Attempt(t)'
  BY DEF Records, Attempts
<1>1. /\ session \in [Sessions -> Session] /\ proc \in [Sessions -> Processes]
      /\ cleanup \in [Sessions -> Cleanup] /\ call \in [Sessions -> Call]
      /\ Stage(t) /\ Recorded(t) /\ Attempt(t)
  BY DEF IInv, TypeOK, Stages, Records, Attempts
<1>2. \/ t \notin published' \cup unpublished' \/ t \in published \cup unpublished
      \/ Handed(t)
  <2>1. Publish(t) \/ Register(t) => Handed(t)
    BY <1>1 DEF Publish, Register, Stage
  <2> QED BY <2>1, ListsMove
<1>3. Handed(t) => Handed(t)'
  BY Onward
<1>4. Reserve(t) \/ SpawnOwned(t) \/ SpawnFailed(t) => proc[t] = "none"
  BY <1>1 DEF Reserve, SpawnOwned, SpawnFailed, Stage
<1>5. ASSUME proc'[t] = proc[t] \/ (~Handed(t) /\ ~Handed(t)'), session'[t].clean = session[t].clean,
             session'[t].slot = session[t].slot,
             ~Reserve(t), ~SpawnOwned(t), ~SpawnFailed(t),
             \/ cleanup'[t] = cleanup[t]
             \/ /\ Handed(t) /\ ~session[t].clean
                /\ cleanup'[t].at \in {"interrupt", "terminate"} /\ ~cleanup'[t].ok
      PROVE  Recorded(t)' /\ Attempt(t)'
  BY <1>1, <1>2, <1>5, SpawnPhase DEF Recorded, Attempt
<1>6. CASE Reserve(t)
  <2>1. /\ call[t].at = "reap" /\ call'[t].at = "spawn" /\ session'[t].slot
        /\ session'[t].clean = session[t].clean /\ proc' = proc /\ cleanup' = cleanup
    BY <1>1, <1>6 DEF Reserve, Session, Call
  <2> QED BY <1>1, <1>2, <1>4, <1>6, <2>1 DEF Recorded, Attempt
<1>7. CASE SpawnOwned(t)
  <2>1. /\ call[t].at = "spawn" /\ proc'[t] = "live" /\ session' = session
        /\ cleanup' = cleanup
    BY <1>1, <1>7 DEF SpawnOwned
  <2> QED BY <1>1, <1>4, <1>7, <2>1 DEF Recorded, Attempt
<1>8. CASE SpawnFailed(t)
  <2>1. /\ ~session'[t].slot /\ session'[t].clean = session[t].clean
        /\ ~Handed(t)' /\ cleanup' = cleanup
    BY <1>1, <1>4, <1>8 DEF SpawnFailed, Session
  <2>2. call'[t].at = "done"
    BY <1>8, StepFields DEF SpawnFailed, IInv
  <2> QED BY <1>1, <1>2, <1>4, <1>8, <2>1, <2>2 DEF Recorded, Attempt
<1>9. CASE ~Reserve(t) /\ ~SpawnOwned(t) /\ ~SpawnFailed(t)
  <2>1. CASE UNCHANGED sessions
    BY <1>5, <1>9, <2>1 DEF sessions
  <2>2. CASE Ensures
    <3>0. PICK x \in Sessions : \E r \in {session[x], Refreshed(x)} :
            Handed(x) /\ EnsureCleanup(x, r)
      BY <2>2 DEF Ensures
    <3>1. PICK r \in {session[x], Refreshed(x)} : Handed(x) /\ EnsureCleanup(x, r)
      BY <3>0
    <3>2. proc' = proc
      BY <2>2 DEF Ensures
    <3>3. /\ session'[t].clean = session[t].clean /\ session'[t].slot = session[t].slot
          /\ \/ cleanup'[t] = cleanup[t]
             \/ /\ t = x /\ ~session[t].clean
                /\ cleanup'[t].at \in {"interrupt", "terminate"} /\ ~cleanup'[t].ok
      BY <3>1, Ensured DEF IInv
    <3> QED BY <1>5, <1>9, <3>1, <3>2, <3>3
  <2>3. ASSUME NEW s \in Sessions, s # t, Reserve(s) \/ SpawnOwned(s) \/ SpawnFailed(s)
        PROVE  Recorded(t)' /\ Attempt(t)'
    BY <1>1, <1>5, <1>9, <2>3 DEF Reserve, SpawnOwned, SpawnFailed
  <2>4. ASSUME NEW s \in Sessions, ProcessesExit(s)
        PROVE  Recorded(t)' /\ Attempt(t)'
    <3>1. /\ session' = session /\ cleanup' = cleanup
          /\ \/ proc'[t] = proc[t] \/ (~Handed(t) /\ ~Handed(t)')
             \/ proc[t] \in {"live", "orphaned"} /\ proc'[t] \in {"orphaned", "gone"}
      BY <1>1, <2>4 DEF ProcessesExit, sessions
    <3>2. CASE proc'[t] = proc[t] \/ (~Handed(t) /\ ~Handed(t)')
      BY <1>5, <1>9, <3>1, <3>2
    <3>3. CASE proc[t] \in {"live", "orphaned"} /\ proc'[t] \in {"orphaned", "gone"}
      BY <1>1, <3>1, <3>3 DEF Recorded, Attempt
    <3> QED BY <3>1, <3>2, <3>3
  <2>5. ASSUME NEW s \in Sessions, s # t, CleanupStep(s)
        PROVE  Recorded(t)' /\ Attempt(t)'
    BY <1>5, <1>9, <2>5, AttemptMoves
  <2>6. CASE CleanupStep(t)
    BY <1>1, <1>3, <2>6, AttemptMoves DEF Recorded, Attempt
  <2> QED BY <1>9, <2>1, <2>2, <2>3, <2>4, <2>5, <2>6, SessionsMove
<1> QED BY <1>6, <1>7, <1>8, <1>9

-----------------------------------------------------------------------------
(* What waits, and who owns. *)

(* What was known of the sessions somebody waits for stays so.                *)
LEMMA WaitsOn ==
    ASSUME IInv, Next, NEW w, Waits(w), w.todo \subseteq Sessions,
           w.on \in Sessions \cup {NoSession},
           NEW v, v.todo \subseteq w.todo, v.on \in {w.on, NoSession},
           v.verdict = "ok" => w.verdict = "ok" /\ v.on = w.on
    PROVE  /\ \A x \in v.todo : Handed(x)'
           /\ v.on \in Sessions => Handed(v.on)'
           /\ v.verdict = "ok" => v.on \in Sessions /\ session'[v.on].clean
<1>1. \A x \in Sessions : /\ Handed(x) => Handed(x)'
                          /\ session[x].clean => session'[x].clean
  BY Onward
<1> QED BY <1>1, SessionAssumption DEF Waits

(* A verdict that is reported is the truth about the session.                 *)
LEMMA VerdictsTrue ==
    ASSUME IInv, NEW s \in Sessions, ReportCleanup(s)
    PROVE  /\ session' = session /\ proc' = proc
           /\ cleanup[s].ok => session[s].clean
BY DEF ReportCleanup, IInv, Attempts, Attempt

(* Nobody hears ok in advance unless the session is clean already.            *)
LEMMA AwaitedTrue == \A s \in Sessions : Awaited(s) = "ok" => session[s].clean
BY DEF Awaited

LEMMA WaitingStep == ASSUME IInv, Next PROVE Waiting'
<1>1. /\ call \in [Sessions -> Call] /\ revoke \in Revoke
      /\ published \subseteq Sessions /\ unpublished \subseteq Sessions
  BY DEF IInv, TypeOK
<1>2. \A x \in Sessions : /\ Handed(x) => Handed(x)'
                          /\ session[x].clean => session'[x].clean
  BY Onward
<1>3. \A x \in published \cup unpublished : Handed(x)
  BY <1>1 DEF IInv, Records, Recorded
<1>4. ASSUME NEW t \in Sessions
      PROVE  /\ \A x \in call'[t].todo : Handed(x)'
             /\ call'[t].on \in Sessions => proc'[call'[t].on] \notin {"none", "unheld"}
             /\ call'[t].verdict = "ok" =>
                  call'[t].on \in Sessions /\ session'[call'[t].on].clean
  <2>1. /\ call[t] \in Call /\ call[t].todo \subseteq Sessions
        /\ call[t].on \in Sessions \cup {NoSession} /\ Waits(call[t]) /\ Stage(t)
    BY <1>1 DEF Call, IInv, Waiting, Stages
  <2>2. CASE /\ call'[t].todo \subseteq call[t].todo
             /\ \/ call'[t].on = call[t].on /\ call'[t].verdict = call[t].verdict
                \/ call'[t].on = NoSession /\ call'[t].verdict = "pending"
    BY <2>1, <2>2, WaitsOn
  <2>3. ASSUME NEW s \in Sessions, ReportCleanup(s), call[t].on = s,
               call'[t] = [call[t] EXCEPT !.verdict = IF cleanup[s].ok THEN "ok" ELSE "failed"]
        PROVE  /\ \A x \in call'[t].todo : Handed(x)'
               /\ call'[t].on \in Sessions => proc'[call'[t].on] \notin {"none", "unheld"}
               /\ call'[t].verdict = "ok" =>
                    call'[t].on \in Sessions /\ session'[call'[t].on].clean
    <3>1. /\ call'[t].todo = call[t].todo /\ call'[t].on = s
          /\ call'[t].verdict = "ok" => cleanup[s].ok
      BY <2>1, <2>3 DEF Call
    <3> QED BY <1>2, <2>1, <2>3, <3>1, VerdictsTrue DEF Waits
  <2>4. CASE BeginStart(t)
    <3>1. /\ call'[t].todo \subseteq published /\ call'[t].on = call[t].on
          /\ call'[t].verdict = call[t].verdict
      <4>1. call'[t] = [call[t] EXCEPT !.at = "reap",
                                       !.todo = {x \in published : ~session[x].ended}]
        BY <1>1, <2>4 DEF BeginStart
      <4> QED BY <2>1, <4>1 DEF Call
    <3> QED BY <1>1, <1>2, <1>3, <2>1, <3>1 DEF Waits
  <2>5. CASE StartStep(t)
    <3>1. CASE ReapOne(t)
      <4>1. CASE /\ call'[t].todo \subseteq call[t].todo
                 /\ call'[t].on = call[t].on /\ call'[t].verdict = call[t].verdict
        BY <2>2, <4>1
      <4>2. CASE /\ call'[t].todo = call[t].todo /\ call'[t].on \in call[t].todo
                 /\ call'[t].verdict = Awaited(call'[t].on)
        BY <1>2, <2>1, <4>2, AwaitedTrue DEF Waits
      <4> QED BY <3>1, <4>1, <4>2, ReapFields DEF IInv
    <3>2. CASE Reaped(t)
      <4> DEFINE again == [IdleCall EXCEPT !.at = "reap",
                                           !.todo = call[t].todo \ {call[t].on}]
      <4>1. call'[t] = again
        BY <1>1, <3>2 DEF Reaped
      <4>2. /\ again.todo = call[t].todo \ {call[t].on} /\ again.on = NoSession
            /\ again.verdict = "pending"
        BY AfreshFields
      <4> HIDE DEF again
      <4> QED BY <2>2, <4>1, <4>2
    <3>3. ASSUME NEW e \in BOOLEAN, Answer(t, e)
          PROVE  /\ \A x \in call'[t].todo : Handed(x)'
                 /\ call'[t].on \in Sessions => proc'[call'[t].on] \notin {"none", "unheld"}
                 /\ call'[t].verdict = "ok" =>
                      call'[t].on \in Sessions /\ session'[call'[t].on].clean
      BY <2>2, <3>3, StepFields DEF IInv
    <3>4. CASE \/ ReserveRefused(t) \/ SpawnFailed(t) \/ Yield(t)
      BY <3>3, <3>4 DEF ReserveRefused, SpawnFailed, Yield
    <3>5. CASE Settled(t) \/ Attended(t)
      <4>1. call[t].error \in BOOLEAN /\ (call[t].verdict = "ok" /\ call[t].error) \in BOOLEAN
        BY <2>1 DEF Call
      <4> QED BY <3>3, <3>5, <4>1 DEF Settled, Attended
    <3>6. CASE SpawnOwned(t) \/ PublishRefused(t)
      BY <2>2, <3>6, StepFields DEF SpawnOwned, PublishRefused, Phases, IInv
    <3>7. CASE Publish(t) \/ Release(t)
      BY <2>2, <3>7, StepFields DEF Publish, Release, Phases, IInv
    <3>8. CASE Reserve(t)
      BY <1>1, <2>1, <2>2, <3>8 DEF Reserve, Call
    <3>9. CASE Register(t)
      BY <1>1, <2>1, <2>2, <3>9 DEF Register, Call
    <3>10. CASE Settle(t) \/ Attend(t)
      <4>1. /\ call'[t].todo = call[t].todo /\ call'[t].on = t
            /\ call'[t].verdict = Awaited(t)
        <5>1. CASE Settle(t)
          BY <1>1, <2>1, <5>1 DEF Settle, Call
        <5>2. CASE Attend(t)
          BY <1>1, <2>1, <5>2 DEF Attend, Call
        <5> QED BY <3>10, <5>1, <5>2
      <4>2. Handed(t)
        BY <2>1, <3>10 DEF Settle, Attend, Stage
      <4> QED BY <1>2, <2>1, <4>1, <4>2, AwaitedTrue DEF Waits
    <3> QED BY <2>5, <3>1, <3>2, <3>4, <3>5, <3>6, <3>7, <3>8, <3>9, <3>10 DEF StartStep
  <2>6. CASE call'[t] = call[t]
    BY <2>2, <2>6
  <2> QED BY <2>3, <2>4, <2>5, <2>6, CallsMove
<1>5. /\ \A x \in revoke'.todo : Handed(x)'
      /\ revoke'.on \in Sessions => proc'[revoke'.on] \notin {"none", "unheld"}
      /\ revoke'.verdict = "ok" => revoke'.on \in Sessions /\ session'[revoke'.on].clean
  <2>1. /\ revoke.todo \subseteq Sessions /\ revoke.on \in Sessions \cup {NoSession}
        /\ Waits(revoke)
    BY <1>1 DEF Revoke, IInv, Waiting
  <2>2. CASE /\ revoke'.todo \subseteq revoke.todo
             /\ \/ revoke'.on = revoke.on /\ revoke'.verdict = revoke.verdict
                \/ revoke'.on = NoSession /\ revoke'.verdict = "pending"
    BY <2>1, <2>2, WaitsOn
  <2>3. CASE revoke' = revoke
    BY <2>2, <2>3
  <2>4. ASSUME NEW s \in Sessions, ReportCleanup(s), revoke' # revoke
        PROVE  /\ \A x \in revoke'.todo : Handed(x)'
               /\ revoke'.on \in Sessions => proc'[revoke'.on] \notin {"none", "unheld"}
               /\ revoke'.verdict = "ok" =>
                    revoke'.on \in Sessions /\ session'[revoke'.on].clean
    <3>1. PICK v \in {"ok", "failed"} :
            /\ revoke' = [revoke EXCEPT !.verdict = v] /\ revoke.on = s
            /\ v = "ok" => cleanup[s].ok
      BY <2>4 DEF ReportCleanup
    <3>2. /\ revoke'.todo = revoke.todo /\ revoke'.on = revoke.on
          /\ revoke'.verdict = v
      BY <1>1, <3>1 DEF Revoke
    <3>3. /\ session' = session /\ proc' = proc
          /\ v = "ok" => session[s].clean
      BY <2>4, <3>1, VerdictsTrue
    <3>4. /\ \A x \in revoke.todo : Handed(x)
          /\ Handed(s)
      BY <2>1, <3>1 DEF Waits
    <3> QED BY <3>1, <3>2, <3>3, <3>4
  <2>5. ASSUME NEW s \in Sessions, CleanupStep(s), ~ReportCleanup(s) PROVE revoke' = revoke
    BY <2>5 DEF CleanupStep, Interrupt, Terminate, Finish
  <2>6. ASSUME NEW s \in Sessions,
               BeginStart(s) \/ StartStep(s) \/ PollOrStop(s) \/ ProcessesExit(s)
        PROVE  revoke' = revoke
    BY <2>6 DEF BeginStart, PollOrStop, ProcessesExit, StartStep, ReapOne, Reaped,
                ReserveRefused, Reserve, SpawnOwned, SpawnFailed, Publish, PublishRefused,
                Register, Release, Settle, Settled, Yield, Attend, Attended, toggles
  <2>7. CASE Enable
    BY <2>3, <2>7 DEF Enable
  <2>8. CASE BeginRevoke \/ EndRevoke
    <3>1. revoke'.todo = {} /\ revoke'.on = NoSession /\ revoke'.verdict = "pending"
      BY <2>8 DEF BeginRevoke, EndRevoke, IdleRevoke
    <3> QED BY <2>2, <3>1
  <2>9. CASE Listen \/ CheckStarting \/ Wake
    <3>1. revoke'.todo = revoke.todo /\ revoke'.on = revoke.on
          /\ revoke'.verdict = revoke.verdict
      BY <1>1, <2>9 DEF Listen, CheckStarting, Wake, Revoke
    <3> QED BY <2>2, <3>1
  <2>10. CASE ListSessions
    <3>1. /\ revoke'.todo \subseteq published \cup unpublished
          /\ revoke'.on = revoke.on /\ revoke'.verdict = revoke.verdict
      BY <1>1, <2>10 DEF ListSessions, Revoke
    <3> QED BY <1>1, <1>2, <1>3, <2>1, <3>1 DEF Waits
  <2>11. CASE StopNext
    <3>1. PICK s \in revoke.todo :
            revoke' = [revoke EXCEPT !.at = "stopping", !.on = s, !.verdict = Awaited(s)]
      BY <2>11 DEF StopNext
    <3>2. /\ revoke'.todo = revoke.todo /\ revoke'.on = s /\ revoke'.verdict = Awaited(s)
      BY <1>1, <3>1 DEF Revoke
    <3> QED BY <1>2, <2>1, <3>2, AwaitedTrue DEF Waits
  <2>12. CASE StoppedOne
    <3>1. revoke'.todo = revoke.todo \ {revoke.on} /\ revoke'.on = NoSession
          /\ revoke'.verdict = "pending"
      BY <2>12 DEF StoppedOne, IdleRevoke
    <3> QED BY <2>2, <3>1
  <2> QED BY <2>3, <2>4, <2>5, <2>6, <2>7, <2>8, <2>9, <2>10, <2>11, <2>12
          DEF Next, CleanupStep, RevokeStep
<1> QED BY <1>4, <1>5 DEF Waiting, Waits

LEMMA OwnedStep == ASSUME IInv, Next PROVE Owned'
<1> SUFFICES ASSUME NEW t \in Sessions, session'[t].slot
             PROVE  /\ t \in published' \cup unpublished' \/ call'[t].lease
                    /\ call'[t].at = "release" => t \in published' \cup unpublished'
  BY DEF Owned
<1>1. call \in [Sessions -> Call] /\ call[t] \in Call /\ Stage(t)
  BY DEF IInv, TypeOK, Stages
<1>2. Stages' /\ Records'
  BY StagesStep, RecordsStep
<1>3. Stage(t)' /\ Recorded(t)'
  BY <1>2 DEF Stages, Records
<1>4. CASE Reserve(t) \/ SpawnOwned(t) \/ SpawnFailed(t)
  <2>1. CASE Reserve(t)
    BY <1>1, <2>1 DEF Reserve, Call
  <2>2. CASE SpawnOwned(t)
    BY <1>1, <2>2, StepFields DEF SpawnOwned, Stage, Phases, IInv
  <2>3. CASE SpawnFailed(t)
    <3>1. ~session'[t].slot
      BY <2>3 DEF SpawnFailed, IInv, TypeOK, Session
    <3> QED BY <3>1
  <2> QED BY <1>4, <2>1, <2>2, <2>3
<1>5. CASE ~Reserve(t) /\ ~SpawnOwned(t) /\ ~SpawnFailed(t)
  <2>1. call'[t].at = "spawn" <=> call[t].at = "spawn"
    BY <1>5, SpawnPhase
  <2>2. CASE call[t].at = "spawn"
    BY <1>3, <2>1, <2>2 DEF Stage
  <2>3. CASE call[t].at # "spawn"
    <3>1. Handed(t)' /\ ~session'[t].clean
      BY <1>3, <2>1, <2>3 DEF Recorded
    <3>2. Handed(t) /\ ~session[t].clean /\ session[t].slot
      BY <1>5, <3>1, Onward DEF IInv, Records, Recorded
    <3>3. CASE t \in published \cup unpublished
      BY <3>2, <3>3, ListsMove
    <3>4. CASE t \notin published \cup unpublished
      <4>1. call[t].lease /\ call[t].at \in {"publish", "register"}
        BY <1>1, <2>3, <3>2, <3>4 DEF IInv, Owned, Stage
      <4>2. CASE Publish(t) \/ Register(t)
        BY <4>2, ListsMove
      <4>3. CASE PublishRefused(t)
        BY <4>1, <4>3, StepFields DEF PublishRefused, Phases, IInv
      <4>4. CASE ~Publish(t) /\ ~Register(t) /\ ~PublishRefused(t)
        <5>1. ~BeginStart(t) /\ ~StartStep(t)
          BY <1>5, <4>1, <4>4, Zenon DEF BeginStart, StartStep, ReapOne, Reaped, ReserveRefused,
                                  Release, Settle, Settled, Yield, Attend, Attended
        <5>2. call[t] \in Call
          BY <1>1
        <5>3. \A v : [call[t] EXCEPT !.verdict = v].at = call[t].at
          BY <5>2 DEF Call
        <5>4. call'[t].at = call[t].at
          <6>1. \/ call'[t] = call[t]
                \/ \E v : call'[t] = [call[t] EXCEPT !.verdict = v]
            BY <1>1, <5>1, CallsMove
          <6> QED BY <5>3, <6>1
        <5> QED BY <1>3, <4>1, <5>4 DEF Stage
      <4> QED BY <4>2, <4>3, <4>4
    <3> QED BY <3>3, <3>4
  <2> QED BY <2>2, <2>3
<1> QED BY <1>4, <1>5

-----------------------------------------------------------------------------
(* The revocation. *)

(* What the steps of everybody else leave to a revocation.                    *)
LEMMA RevokeMoves ==
    ASSUME IInv, Next
    PROVE  \/ Enable \/ BeginRevoke \/ RevokeStep
           \/ /\ accepting' = accepting /\ revoked' = revoked
              /\ revoke'.at = revoke.at /\ revoke'.todo = revoke.todo
              /\ revoke'.failed = revoke.failed /\ revoke'.on = revoke.on
<1>1. revoke \in Revoke
  BY DEF IInv, TypeOK
<1>2. ASSUME NEW s \in Sessions,
             BeginStart(s) \/ StartStep(s) \/ PollOrStop(s) \/ ProcessesExit(s)
      PROVE  accepting' = accepting /\ revoked' = revoked /\ revoke' = revoke
  BY <1>2 DEF BeginStart, PollOrStop, ProcessesExit, StartStep, ReapOne, Reaped,
              ReserveRefused, Reserve, SpawnOwned, SpawnFailed, Publish, PublishRefused,
              Register, Release, Settle, Settled, Yield, Attend, Attended, registry, toggles
<1>3. ASSUME NEW s \in Sessions, CleanupStep(s)
      PROVE  /\ accepting' = accepting /\ revoked' = revoked
             /\ revoke' = revoke \/ \E v \in Verdicts : revoke' = [revoke EXCEPT !.verdict = v]
  BY <1>3 DEF CleanupStep, Interrupt, Terminate, Finish, ReportCleanup, registry, Verdicts
<1>4. ASSUME NEW v \in Verdicts, revoke' = [revoke EXCEPT !.verdict = v]
      PROVE  /\ revoke'.at = revoke.at /\ revoke'.todo = revoke.todo
             /\ revoke'.failed = revoke.failed /\ revoke'.on = revoke.on
  BY <1>1, <1>4 DEF Revoke
<1> QED BY <1>2, <1>3, <1>4 DEF Next

(* Only the end of a revocation or a successful attempt wakes, and only the   *)
(* revocation itself forgets that it was woken.                               *)
LEMMA NotifiedMoves ==
    ASSUME IInv, Next
    PROVE  Listen \/ notified' = notified \/ Notify
<1>1. ASSUME NEW s \in Sessions,
             BeginStart(s) \/ StartStep(s) \/ PollOrStop(s) \/ ProcessesExit(s)
      PROVE  notified' = notified \/ Notify
  BY <1>1 DEF BeginStart, PollOrStop, ProcessesExit, StartStep, ReapOne, Reaped,
              ReserveRefused, Reserve, SpawnOwned, SpawnFailed, Publish, PublishRefused,
              Register, Release, ReleaseStarting, Settle, Settled, Yield, Attend, Attended, slots
<1>2. ASSUME NEW s \in Sessions, CleanupStep(s)
      PROVE  notified' = notified \/ Notify
  BY <1>2 DEF CleanupStep, Interrupt, Terminate, Finish, ReportCleanup, slots
<1>3. ASSUME Enable \/ BeginRevoke \/ RevokeStep
      PROVE  Listen \/ notified' = notified
  BY <1>3 DEF Enable, BeginRevoke, RevokeStep, CheckStarting, Wake, ListSessions,
              StopNext, StoppedOne, EndRevoke, slots
<1> QED BY <1>1, <1>2, <1>3 DEF Next

LEMMA RevokingStep == ASSUME IInv, Next PROVE Revoking'
<1>1. /\ revoke \in Revoke /\ Revoking /\ starting \in Nat
      /\ \A s \in Sessions : Stage(s) /\ Recorded(s)
  BY DEF IInv, TypeOK, Stages, Records
<1>2. ASSUME ~accepting, \A s \in Sessions : ~call[s].lease
      PROVE  /\ \A s \in Sessions : ~call'[s].lease
             /\ \A s \in Sessions : Holding(s)' => Holding(s)
  <2>1. Leases = {}
    BY <1>2 DEF Leases
  <2>2. ~(\E s \in Sessions : Reserve(s))
    BY <1>2 DEF Reserve
  <2>3. Leases' = {}
    BY <2>1, <2>2, StartingMoves
  <2>4. \A s \in Sessions : ~SpawnOwned(s)
    BY <1>1, <1>2 DEF SpawnOwned, Stage
  <2> QED BY <2>3, <2>4, Onward DEF Leases
<1>3. CASE /\ accepting' = accepting /\ revoked' = revoked
           /\ revoke'.at = revoke.at /\ revoke'.todo = revoke.todo
           /\ revoke'.failed = revoke.failed /\ revoke'.on = revoke.on
  BY <1>1, <1>2, <1>3 DEF Revoking
<1>4. CASE Enable
  BY <1>4 DEF Enable, Revoking
<1>5. CASE BeginRevoke
  <2>1. revoke'.at = "listen" /\ revoked' = "no"
    BY <1>5 DEF BeginRevoke, IdleRevoke
  <2> QED BY <2>1 DEF Revoking
<1>6. CASE RevokeStep
  <2>1. call' = call /\ (\A s \in Sessions : Holding(s)' <=> Holding(s))
    <3>1. call' = call /\ proc' = proc
      BY <1>6 DEF RevokeStep, Listen, CheckStarting, Wake, ListSessions, StopNext, StoppedOne,
                  EndRevoke, sessions
    <3> QED BY <3>1 DEF Holding
  <2>2. revoke.at # "idle" /\ revoked # "ok"
    BY <1>1, <1>6 DEF RevokeStep, Listen, CheckStarting, Wake, ListSessions, StopNext,
                      StoppedOne, EndRevoke, Revoking
  <2>3. CASE Listen
    <3>1. revoke'.at = "check" /\ revoked' = revoked
      BY <1>1, <2>3 DEF Listen, Revoke
    <3> QED BY <2>2, <3>1 DEF Revoking
  <2>4. CASE CheckStarting
    <3>1. /\ ~accepting' /\ revoked' = revoked
          /\ revoke' = [revoke EXCEPT !.at = IF starting > 0 THEN "wait" ELSE "list"]
      BY <2>4 DEF CheckStarting
    <3>2. revoke'.at = "wait" \/ (revoke'.at = "list" /\ starting = 0)
      <4>1. revoke'.at = IF starting > 0 THEN "wait" ELSE "list"
        BY <1>1, <3>1 DEF Revoke
      <4> QED BY <1>1, <4>1
    <3>3. starting = 0 => \A s \in Sessions : ~call[s].lease
      BY LedgerCounts DEF IInv
    <3> QED BY <2>1, <2>2, <3>1, <3>2, <3>3 DEF Revoking
  <2>5. CASE Wake
    <3>1. revoke'.at = "listen" /\ revoked' = revoked
      BY <1>1, <2>5 DEF Wake, Revoke
    <3> QED BY <2>2, <3>1 DEF Revoking
  <2>6. CASE ListSessions
    <3>1. /\ revoke.at = "list" /\ accepting' = accepting /\ revoked' = revoked
          /\ revoke'.at = "stop"
          /\ revoke'.todo = {s \in published : ~session[s].clean} \cup unpublished
      BY <1>1, <2>6 DEF ListSessions, Revoke, registry
    <3>2. ASSUME NEW s \in Sessions, Holding(s) PROVE s \in revoke'.todo
      <4>1. session[s].slot /\ ~session[s].clean
        BY <1>1, <3>2 DEF Recorded, Holding
      <4>2. s \in published \cup unpublished
        BY <1>1, <3>1, <4>1 DEF IInv, Owned, Revoking
      <4> QED BY <3>1, <4>1, <4>2
    <3> QED BY <1>1, <2>1, <2>2, <3>1, <3>2 DEF Revoking
  <2>7. CASE StopNext
    <3>1. PICK s \in revoke.todo :
            revoke' = [revoke EXCEPT !.at = "stopping", !.on = s, !.verdict = Awaited(s)]
      BY <2>7 DEF StopNext
    <3>2. /\ revoke.at = "stop" /\ accepting' = accepting /\ revoked' = revoked
          /\ revoke'.at = "stopping" /\ revoke'.todo = revoke.todo
          /\ revoke'.failed = revoke.failed /\ revoke'.on \in Sessions
      BY <1>1, <2>7, <3>1 DEF StopNext, Revoke, registry
    <3> QED BY <1>1, <2>1, <2>2, <3>2 DEF Revoking
  <2>8. CASE StoppedOne
    <3>1. /\ revoke.at = "stopping" /\ accepting' = accepting /\ revoked' = revoked
          /\ revoke.verdict # "pending" /\ revoke'.at = "stop"
          /\ revoke'.todo = revoke.todo \ {revoke.on}
      BY <2>8 DEF StoppedOne, IdleRevoke, registry
    <3>2. ~revoke'.failed => ~revoke.failed /\ revoke.verdict # "failed"
      <4>1. revoke' = [IdleRevoke EXCEPT !.at = "stop", !.todo = revoke.todo \ {revoke.on},
                         !.failed = revoke.failed \/ revoke.verdict = "failed"]
        BY <2>8 DEF StoppedOne
      <4>2. revoke'.failed = (revoke.failed \/ revoke.verdict = "failed")
        BY <4>1 DEF IdleRevoke
      <4> QED BY <4>2
    <3>3. revoke.verdict = "ok" => ~Holding(revoke.on)
      BY <1>1 DEF IInv, Waiting, Waits, Recorded, Holding
    <3>4. revoke.verdict \in {"pending", "ok", "failed"}
      BY <1>1 DEF Revoke, Verdicts
    <3> QED BY <1>1, <2>1, <2>2, <3>1, <3>2, <3>3, <3>4 DEF Revoking
  <2>9. CASE EndRevoke
    <3>1. /\ revoke.at = "stop" /\ revoke.todo = {} /\ accepting' = accepting
          /\ revoke' = IdleRevoke /\ (revoked' = "ok" => ~revoke.failed)
      BY <2>9 DEF EndRevoke
    <3>2. revoke'.at = "idle"
      BY <3>1 DEF IdleRevoke
    <3> QED BY <1>1, <2>1, <3>1, <3>2 DEF Revoking
  <2> QED BY <1>6, <2>3, <2>4, <2>5, <2>6, <2>7, <2>8, <2>9 DEF RevokeStep
<1> QED BY <1>3, <1>4, <1>5, <1>6, RevokeMoves

LEMMA WakeupStep == ASSUME IInv, Next PROVE NoLostWakeup'
<1> SUFFICES ASSUME revoke'.at = "wait", starting' = 0 PROVE notified'
  BY DEF NoLostWakeup
<1>1. revoke \in Revoke /\ starting \in Nat
  BY DEF IInv, TypeOK
<1>2. CASE revoke.at = "wait"
  <2>1. ~Listen
    BY <1>2 DEF Listen
  <2>2. (notified' = (revoke.at \in {"check", "wait"})) => notified'
    <3>1. revoke.at \in {"check", "wait"}
      BY <1>2
    <3> QED BY <3>1, Zenon
  <2>3. CASE starting' = starting
    BY <1>2, <2>1, <2>2, <2>3, NotifiedMoves DEF IInv, NoLostWakeup, Notify
  <2>4. CASE starting' = starting + 1
    BY <1>1, <2>4
  <2>5. CASE notified' = (revoke.at \in {"check", "wait"})
    BY <2>2, <2>5, Zenon
  <2> QED BY <2>3, <2>4, <2>5, StartingMoves
<1>3. CASE revoke.at # "wait"
  <2>1. CheckStarting
    <3>1. ~Enable /\ ~BeginRevoke
      BY DEF Enable, BeginRevoke, IdleRevoke
    <3>2. ~Listen /\ ~Wake /\ ~ListSessions
      BY <1>1 DEF Listen, Wake, ListSessions, Revoke
    <3>3. ~StoppedOne /\ ~EndRevoke
      <4>1. ASSUME NEW x, NEW y, revoke' = [IdleRevoke EXCEPT !.at = "stop", !.todo = x,
                                                              !.failed = y]
            PROVE  FALSE
        BY <4>1 DEF IdleRevoke
      <4>2. ~EndRevoke
        BY DEF EndRevoke, IdleRevoke
      <4> QED BY <4>1, <4>2 DEF StoppedOne
    <3>4. ~StopNext
      <4>1. ASSUME NEW s, revoke' = [revoke EXCEPT !.at = "stopping", !.on = s,
                                                   !.verdict = Awaited(s)]
            PROVE  FALSE
        BY <1>1, <4>1 DEF Revoke
      <4> QED BY <4>1 DEF StopNext
    <3> QED BY <1>3, <3>1, <3>2, <3>3, <3>4, RevokeMoves DEF RevokeStep
  <2>2. /\ revoke' = [revoke EXCEPT !.at = IF starting > 0 THEN "wait" ELSE "list"]
        /\ starting' = starting
    BY <2>1 DEF CheckStarting, slots
  <2> QED BY <1>1, <2>2 DEF Revoke
<1> QED BY <1>2, <1>3

-----------------------------------------------------------------------------
(* The inductive invariant. *)

LEMMA InvariantInit == Init => IInv
<1> SUFFICES ASSUME Init PROVE IInv
  OBVIOUS
<1>1. /\ IdleCall \in Call /\ IdleCall.at = "idle" /\ ~IdleCall.lease
      /\ IdleCall.todo = {} /\ IdleCall.on = NoSession /\ IdleCall.verdict = "pending"
  BY DEF IdleCall, Call, Phases, Verdicts
<1>2. NewSession \in Session /\ ~NewSession.slot /\ ~NewSession.clean
  BY DEF NewSession, Session
<1>3. IdleCleanup \in Cleanup /\ IdleCleanup.at = "idle" /\ ~IdleCleanup.ok
  BY DEF IdleCleanup, Cleanup
<1>4. /\ IdleRevoke \in Revoke /\ IdleRevoke.at = "idle" /\ IdleRevoke.todo = {}
      /\ IdleRevoke.on = NoSession /\ IdleRevoke.verdict = "pending"
  BY DEF IdleRevoke, Revoke, Verdicts
<1>5. TypeOK
  BY <1>1, <1>2, <1>3, <1>4 DEF Init, TypeOK, Processes
<1>6. Counted
  <2>1. Holders = {} /\ Leases = {}
    BY <1>1, <1>2 DEF Init, Holders, Leases
  <2> QED BY <2>1, FS_EmptySet, LimitAssumption DEF Init, Counted
<1>7. Stages /\ Records /\ Attempts /\ Owned
  BY <1>1, <1>2, <1>3 DEF Init, Stages, Stage, Records, Recorded, Attempts, Attempt, Owned,
                          Holding
<1>8. Waiting
  BY <1>1, <1>4, SessionAssumption DEF Init, Waiting, Waits
<1>9. Revoking /\ NoLostWakeup
  BY <1>4 DEF Init, Revoking, NoLostWakeup
<1> QED BY <1>5, <1>6, <1>7, <1>8, <1>9 DEF IInv

LEMMA InvariantStep == IInv /\ [Next]_vars => IInv'
<1> SUFFICES ASSUME IInv, [Next]_vars PROVE IInv'
  OBVIOUS
<1>1. CASE Next
  BY <1>1, TypeStep, CountedStep, StagesStep, RecordsStep, WaitingStep, OwnedStep,
     RevokingStep, WakeupStep DEF IInv
<1>2. CASE UNCHANGED vars
  BY <1>2 DEF vars, registry, slots, sessions, toggles, IInv, TypeOK, Counted, Holders, Leases,
              Stages, Stage, Records, Recorded, Attempts, Attempt, Waiting, Waits, Owned,
              Revoking, NoLostWakeup, Holding
<1> QED BY <1>1, <1>2

LEMMA Invariance == Spec => []IInv
BY InvariantInit, InvariantStep, PTL DEF Spec

-----------------------------------------------------------------------------
(* The theorems. *)

(* Every variable of the manager keeps its type, and the counters of the slot *)
(* ledger never go below zero.                                                *)
THEOREM TypeCorrect == Spec => []TypeOK
<1>1. IInv => TypeOK
  BY DEF IInv
<1> QED BY <1>1, Invariance, PTL

(* Whoever has a live process holds one of the MaxRunning slots, and whoever  *)
(* holds one is known to its start call or to the registry; the slot counter  *)
(* is exact; a tree nobody knows belongs to a start call that has failed.     *)
THEOREM OwnersKnown == Spec => []OwnedUntilGone
<1>1. IInv => OwnedUntilGone
  <2> SUFFICES ASSUME IInv PROVE OwnedUntilGone
    OBVIOUS
  <2>1. ASSUME NEW s \in Sessions, Holding(s) PROVE session[s].slot
    BY <2>1 DEF IInv, Records, Recorded, Holding
  <2>2. ASSUME NEW s \in Sessions, proc[s] = "unheld"
        PROVE  /\ call[s].at = "done" /\ call[s].error
               /\ s \notin published \cup unpublished
    BY <2>2 DEF IInv, Stages, Stage, Records, Recorded
  <2> QED BY <2>1, <2>2 DEF IInv, Owned, Counted, Holders, OwnedUntilGone
<1> QED BY <1>1, Invariance, PTL

(* When disable_and_stop_all answers Ok, and until shells are enabled again,  *)
(* and when a start call answers a definite error, nothing is left running of *)
(* what the manager was handed.                                               *)
THEOREM NothingLeftBehind == Spec => []GoneWhenSaid
<1>1. IInv => GoneWhenSaid
  BY DEF IInv, Revoking, Stages, Stage, GoneWhenSaid
<1> QED BY <1>1, Invariance, PTL

(* A revocation that waits for start calls in flight is woken when the last   *)
(* of them has let go, even between its look at the counter and its wait.     *)
THEOREM WakeupsArrive == Spec => []NoLostWakeup
<1>1. IInv => NoLostWakeup
  BY DEF IInv
<1> QED BY <1>1, Invariance, PTL
=============================================================================
