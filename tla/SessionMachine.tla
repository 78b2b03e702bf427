--------------------------- MODULE SessionMachine ---------------------------
(***************************************************************************)
(* The session machine of minimax-core (core/src/session.rs): a pure       *)
(* state machine fed with the records of the runtime journal.              *)
(*                                                                         *)
(* A machine is a value, not a variable: the journal writer keeps one in   *)
(* memory, a restart rebuilds one from the journal, and a preview clone    *)
(* validates every command.  Accepts(m, r) says that apply_record takes    *)
(* record r in machine m, After(m, r) is the machine it then leaves, and   *)
(* Issues(m, r) adds the guard of the SessionCommand that builds r.        *)
(*                                                                         *)
(* Simplifications.  Record ids, times, bindings, receipts and texts are   *)
(* left out: the driver draws every id afresh and the properties do not    *)
(* look inside a text.  Turn ids are drawn afresh too, so one function     *)
(* holds the turns of every session.  SessionStatus is Active exactly for  *)
(* active_session_id: both are only ever written together.  A tool result  *)
(* is its status; its code is abstracted to "some code that makes the      *)
(* status legal".  TraceStored records change no session and are left out. *)
(*                                                                         *)
(* Definitions named Faulty... are not the code: each is a plausible slip  *)
(* in the definition that follows it, and some property must notice it.    *)
(***************************************************************************)
EXTENDS Naturals, FiniteSets

CONSTANTS
    SessionIds,     \* ids a session may be given
    TurnIds,        \* ids a turn may be given
    CallIds,        \* tool call ids the provider may choose within a turn
    ShellCalls,     \* the calls among them that name a shell tool
    NoSession,      \* active_session_id = None
    NoTurn          \* compaction = None

ASSUME ShellCallsAssumption == ShellCalls \subseteq CallIds
ASSUME TurnIdsAssumption == IsFiniteSet(TurnIds)
ASSUME NoneAssumption == NoSession \notin SessionIds /\ NoTurn \notin TurnIds

Terminal == {"Completed", "Failed", "Interrupted", "Stopped"}
TurnStatus == {"absent", "Running"} \cup Terminal
ToolTerminalStatus ==
    {"Succeeded", "Failed", "Rejected", "Cancelled", "Indeterminate"}

\* ToolInvocationRecord; "none" stands for the None of an Option.
Call == [ requested : BOOLEAN,
          decision  : {"none", "Approved", "Rejected"},
          started   : BOOLEAN,
          result    : {"none"} \cup ToolTerminalStatus ]

\* TurnRecord: the session that owns the turn, its index there, whether the
\* assistant said something visible, and its tool invocations.
Turn == [ status  : TurnStatus,
          session : SessionIds \cup {NoSession},
          pos     : Nat,
          spoke   : BOOLEAN,
          calls   : [CallIds -> Call] ]

Machine == [ known   : SUBSET SessionIds,
             active  : SessionIds \cup {NoSession},
             turns   : [TurnIds -> Turn],
             covered : [SessionIds -> TurnIds \cup {NoTurn}] ]

NoCall == [requested |-> FALSE, decision |-> "none",
           started |-> FALSE, result |-> "none"]
AbsentTurn == [status |-> "absent", session |-> NoSession, pos |-> 0,
               spoke |-> FALSE, calls |-> [c \in CallIds |-> NoCall]]

\* SessionMachine::new
EmptyMachine == [known |-> {}, active |-> NoSession,
                 turns |-> [t \in TurnIds |-> AbsentTurn],
                 covered |-> [s \in SessionIds |-> NoTurn]]

-----------------------------------------------------------------------------
(* Queries on a machine. *)

Running(m, t) == m.turns[t].status = "Running"
HasRunningTurn(m) == \E t \in TurnIds : Running(m, t)
TurnsOf(m, s) == {t \in TurnIds : /\ m.turns[t].status # "absent"
                                  /\ m.turns[t].session = s}
Open(call) == call.requested /\ call.result = "none"
HasOpenCall(turn) == \E c \in CallIds : Open(turn.calls[c])

\* An exchange the compactor may summarise: a completed turn whose assistant
\* message is whole.
Exchange(m, t) == m.turns[t].status = "Completed" /\ m.turns[t].spoke

-----------------------------------------------------------------------------
(* The journal records. *)

SessionCreated(s)       == [kind |-> "SessionCreated", session |-> s]
SessionActivated(s)     == [kind |-> "SessionActivated", session |-> s]
TurnStarted(s, t)       == [kind |-> "TurnStarted", session |-> s, turn |-> t]
TurnDelta(s, t)         == [kind |-> "TurnDelta", session |-> s, turn |-> t]
ToolRequested(s, t, c)  ==
    [kind |-> "ToolRequested", session |-> s, turn |-> t, call |-> c]
ToolDecided(s, t, c, d) ==
    [kind |-> "ToolDecisionRecorded", session |-> s, turn |-> t, call |-> c,
     decision |-> d]
ToolStarted(s, t, c)    ==
    [kind |-> "ToolStarted", session |-> s, turn |-> t, call |-> c]
ToolTerminal(s, t, c, r) ==
    [kind |-> "ToolTerminal", session |-> s, turn |-> t, call |-> c,
     result |-> r]
\* TurnTerminal and RecoveryApplied go through the same apply_terminal.
TurnTerminal(s, t, o)   ==
    [kind |-> "TurnTerminal", session |-> s, turn |-> t, outcome |-> o]
RecoveryApplied(s, t)   ==
    [kind |-> "RecoveryApplied", session |-> s, turn |-> t,
     outcome |-> "Interrupted"]
CompactionStored(s, t)  ==
    [kind |-> "CompactionStored", session |-> s, turn |-> t]

Record ==
    { SessionCreated(s) : s \in SessionIds }
    \cup { SessionActivated(s) : s \in SessionIds }
    \cup { TurnStarted(s, t) : s \in SessionIds, t \in TurnIds }
    \cup { TurnDelta(s, t) : s \in SessionIds, t \in TurnIds }
    \cup { ToolRequested(s, t, c) :
             s \in SessionIds, t \in TurnIds, c \in CallIds }
    \cup { ToolDecided(s, t, c, d) :
             s \in SessionIds, t \in TurnIds, c \in CallIds,
             d \in {"Approved", "Rejected"} }
    \cup { ToolStarted(s, t, c) :
             s \in SessionIds, t \in TurnIds, c \in CallIds }
    \cup { ToolTerminal(s, t, c, r) :
             s \in SessionIds, t \in TurnIds, c \in CallIds,
             r \in ToolTerminalStatus }
    \cup { TurnTerminal(s, t, o) :
             s \in SessionIds, t \in TurnIds, o \in Terminal }
    \cup { RecoveryApplied(s, t) : s \in SessionIds, t \in TurnIds }
    \cup { CompactionStored(s, t) : s \in SessionIds, t \in TurnIds }

-----------------------------------------------------------------------------
(* apply_record: which records the machine takes, and what they do to it.  *)

\* A result is taken whether or not the call was started.
FaultyTerminalIsLegal(call, c, result) ==
    result = "Rejected" => call.decision # "Approved" \/ c \in ShellCalls

\* terminal_is_legal, with terminal_is_legal_after_start for started calls: a
\* shell tool may reject or cancel late, other tools may not.
TerminalIsLegal(call, c, result) ==
    IF call.started
    THEN \/ result \in {"Succeeded", "Failed", "Indeterminate"}
         \/ c \in ShellCalls
    ELSE \/ result \in {"Failed", "Cancelled"}
         \/ result = "Rejected" /\ call.decision # "Approved"

AcceptsTool(call, r) ==
    \/ /\ r.kind = "ToolRequested"
       /\ ~call.requested
    \/ /\ r.kind = "ToolDecisionRecorded"
       /\ call.requested
       /\ call.decision = "none" /\ ~call.started /\ call.result = "none"
    \/ /\ r.kind = "ToolStarted"
       /\ call.requested
       /\ call.decision = "Approved" /\ ~call.started /\ call.result = "none"
    \/ /\ r.kind = "ToolTerminal"
       /\ call.requested
       /\ call.result = "none"
       /\ TerminalIsLegal(call, r.call, r.result)

ToolKinds ==
    {"ToolRequested", "ToolDecisionRecorded", "ToolStarted", "ToolTerminal"}
TerminalKinds == {"TurnTerminal", "RecoveryApplied"}
TurnKinds == {"TurnDelta"} \cup ToolKinds \cup TerminalKinds

\* A finished turn goes on taking records.
FaultyAcceptsInTurn(turn, r) ==
    /\ turn.status # "absent" /\ turn.session = r.session
    /\ r.kind \in ToolKinds => AcceptsTool(turn.calls[r.call], r)
    /\ r.kind \in TerminalKinds => ~HasOpenCall(turn)

\* The records that need their turn Running; apply_terminal also wants every
\* tool invocation to have its result.
AcceptsInTurn(turn, r) ==
    /\ turn.status = "Running" /\ turn.session = r.session
    /\ r.kind \in ToolKinds => AcceptsTool(turn.calls[r.call], r)
    /\ r.kind \in TerminalKinds => ~HasOpenCall(turn)

AcceptsCompaction(m, r) ==
    /\ r.turn \in TurnsOf(m, r.session)
    /\ m.turns[r.turn].status = "Completed"
    /\ LET previous == m.covered[r.session] IN
       previous # NoTurn => m.turns[previous].pos < m.turns[r.turn].pos

Accepts(m, r) ==
    CASE r.kind = "SessionCreated"   -> r.session \notin m.known
      [] r.kind = "SessionActivated" -> r.session \in m.known
      [] r.kind = "TurnStarted"      -> /\ r.session \in m.known
                                        /\ m.turns[r.turn].status = "absent"
      [] r.kind \in TurnKinds        -> AcceptsInTurn(m.turns[r.turn], r)
      [] r.kind = "CompactionStored" -> AcceptsCompaction(m, r)
      [] OTHER                       -> FALSE

\* The result is written over the decision.
FaultyAfterTool(call, r) ==
    CASE r.kind = "ToolRequested"        -> [call EXCEPT !.requested = TRUE]
      [] r.kind = "ToolDecisionRecorded" -> [call EXCEPT !.decision = r.decision]
      [] r.kind = "ToolStarted"          -> [call EXCEPT !.started = TRUE]
      [] r.kind = "ToolTerminal"         -> [call EXCEPT !.decision = r.result]

AfterTool(call, r) ==
    CASE r.kind = "ToolRequested"        -> [call EXCEPT !.requested = TRUE]
      [] r.kind = "ToolDecisionRecorded" -> [call EXCEPT !.decision = r.decision]
      [] r.kind = "ToolStarted"          -> [call EXCEPT !.started = TRUE]
      [] r.kind = "ToolTerminal"         -> [call EXCEPT !.result = r.result]

AfterInTurn(turn, r) ==
    CASE r.kind = "TurnDelta"       -> [turn EXCEPT !.spoke = TRUE]
      [] r.kind \in ToolKinds       ->
             [turn EXCEPT !.calls[r.call] = AfterTool(@, r)]
      [] r.kind \in TerminalKinds   -> [turn EXCEPT !.status = r.outcome]

NewTurn(m, s) == [AbsentTurn EXCEPT !.status = "Running", !.session = s,
                                    !.pos = Cardinality(TurnsOf(m, s))]

After(m, r) ==
    CASE r.kind = "SessionCreated"   ->
             [m EXCEPT !.known = @ \cup {r.session}, !.active = r.session]
      [] r.kind = "SessionActivated" -> [m EXCEPT !.active = r.session]
      [] r.kind = "TurnStarted"      ->
             [m EXCEPT !.turns[r.turn] = NewTurn(m, r.session)]
      [] r.kind \in TurnKinds        ->
             [m EXCEPT !.turns[r.turn] = AfterInTurn(@, r)]
      [] r.kind = "CompactionStored" ->
             [m EXCEPT !.covered[r.session] = r.turn]

-----------------------------------------------------------------------------
(* SessionMachine::apply: what the commands ask before they build a record. *)

\* start_turn does not look for a running turn.
FaultyIssues(m, r) ==
    /\ Accepts(m, r)
    /\ CASE r.kind = "SessionActivated" -> ~HasRunningTurn(m)
         [] r.kind = "TurnStarted"      -> r.session = m.active
         [] r.kind \in {"CompactionStored", "RecoveryApplied"} -> FALSE
         [] OTHER                       -> TRUE

\* Create has no guard of its own; Resume, Continue and Retry refuse while a
\* turn runs anywhere; start_turn wants the active session; the recording
\* commands look the running turn up (running_session_for).
Issues(m, r) ==
    /\ Accepts(m, r)
    /\ CASE r.kind = "SessionActivated" -> ~HasRunningTurn(m)
         [] r.kind = "TurnStarted"      -> /\ ~HasRunningTurn(m)
                                           /\ r.session = m.active
         [] r.kind = "CompactionStored" ->
                \* compact_active: the newest exchange of the active session.
                /\ r.session = m.active
                /\ Exchange(m, r.turn)
                /\ \A t \in TurnsOf(m, r.session) :
                     Exchange(m, t) => m.turns[t].pos <= m.turns[r.turn].pos
         [] r.kind = "RecoveryApplied"  -> FALSE    \* only a restart issues it
         [] OTHER                       -> TRUE

\* recover_abandoned_invocations, then recover_abandoned_turns: the records a
\* restart appends for what the previous process left unfinished.
OpenCalls(m) == {p \in TurnIds \X CallIds : Open(m.turns[p[1]].calls[p[2]])}
\* Recovery presumes that whatever was not finished failed.
FaultyRecoverCall(m, t, c) ==
    ToolTerminal(m.turns[t].session, t, c, "Failed")

RecoverCall(m, t, c) ==
    ToolTerminal(m.turns[t].session, t, c,
                 IF m.turns[t].calls[c].started THEN "Indeterminate"
                                                ELSE "Cancelled")
\* Turns are closed although a call of theirs is still open.
RecoveryRecords(m) ==
    IF OpenCalls(m) # {}
    THEN {RecoverCall(m, p[1], p[2]) : p \in OpenCalls(m)}
    ELSE {RecoveryApplied(m.turns[t].session, t) :
             t \in {u \in TurnIds : Running(m, u)}}

-----------------------------------------------------------------------------
(* What a well-formed machine looks like. *)

\* At most one turn runs, whatever session it belongs to.
OneRunning(m) ==
    \A t, u \in TurnIds : Running(m, t) /\ Running(m, u) => t = u

\* A call went through its states in order: nothing happens to a call that was
\* not requested, a start rests on an approval, a result that reports an effect
\* rests on a start, and a late refusal comes from a shell tool only.
CallSound(call, c) ==
    /\ ~call.requested => call = NoCall
    /\ call.started => call.decision = "Approved"
    /\ call.result \in {"Succeeded", "Indeterminate"} => call.started
    /\ (call.started /\ call.result \in {"Rejected", "Cancelled"})
         => c \in ShellCalls

\* The calls of every turn are sound, and a turn that is over has none open.
TurnSound(turn) ==
    /\ \A c \in CallIds : CallSound(turn.calls[c], c)
    /\ turn.status \in Terminal => ~HasOpenCall(turn)
    /\ turn.status = "absent" => turn = AbsentTurn

\* A session's summary covers one of its own completed turns.
CoverageSound(m) ==
    \A s \in SessionIds :
        m.covered[s] # NoTurn =>
            /\ m.turns[m.covered[s]].session = s
            /\ m.turns[m.covered[s]].status = "Completed"

MachineSound(m) ==
    /\ m.active # NoSession => m.active \in m.known
    /\ \A t \in TurnIds : m.turns[t].status # "absent"
                            => m.turns[t].session \in m.known
    /\ \A t \in TurnIds : TurnSound(m.turns[t])
    /\ CoverageSound(m)
=============================================================================
