----------------------------- MODULE AgentTurn -----------------------------
(***************************************************************************)
(* One turn of the chat driver (cli/src/driver.rs) with the two machines   *)
(* it drives: RunMachine (core/src/runtime.rs), which follows the provider *)
(* stream, and InvocationMachine (core/src/tool.rs), which takes one tool  *)
(* call from request to result.  Both answer an input with a list of       *)
(* effects; the driver carries the effects out one by one, and every one   *)
(* that reaches the journal is a step of its own here, so a crash may fall *)
(* between any two.                                                        *)
(*                                                                         *)
(* Simplifications.  The store is a session machine that outlives a crash: *)
(* DurableSession, which RuntimeStore is shown to implement.  A record it  *)
(* refuses ends the run with an error (RecordRefused).  The tools may be   *)
(* anything with the interface ToolPort.  The elapsed-time budget may run  *)
(* out at any look at it.  An append that fails leaves nothing behind      *)
(* (RuntimeStore has the other cases).  A tool result is its status, and a *)
(* result over the byte budget is the Failed one.  PublishTerminal only    *)
(* hands the result back to the loop.                                      *)
(***************************************************************************)
EXTENDS SessionMachine, Sequences

CONSTANTS
    MaxRounds,      \* AgentLimits::max_provider_rounds
    MaxToolCalls,   \* AgentLimits::max_tool_calls
    StoreErrors,    \* whether an append may fail while the process lives on
    MaxCrashes      \* bound on the number of crashes

ASSUME LimitsAssumption == /\ MaxRounds \in Nat \ {0}
                           /\ MaxToolCalls \in Nat \ {0}
                           /\ StoreErrors \in BOOLEAN /\ MaxCrashes \in Nat

VARIABLES
    store,          \* the sessions, as the journal has them
    pc,             \* where the driver is
    mode,           \* PermissionMode, fixed while a run borrows the driver
    cancelled,      \* the process-wide cancellation token
    run,            \* what the run keeps in memory: lost with the process
    failed,         \* the process has returned an error from a run
    consent,        \* history: the calls of this turn the user approved
    entered,        \* history: how often the adapter was entered, per call
    crashes

vars == <<store, pc, mode, cancelled, run, failed, consent, entered, crashes>>

\* The ToolEffects: records to append, or the two things to do.
RequestApproval == [kind |-> "RequestApproval"]
Execute         == [kind |-> "Execute"]
Effects         == Record \cup {RequestApproval, Execute}

\* RunState and the locals of drive_agent_request: the calls of the round and
\* the one being completed, its InvocationState, the effects still to carry out
\* and the two counters of AgentBudget.
Run == [ agent   : BOOLEAN,
         turn    : TurnIds \cup {NoTurn},
         pending : Seq(CallIds),
         at      : Nat,
         inv     : {"none", "Requested", "AwaitingDecision", "Approved",
                    "Started", "Terminal"},
         queue   : Seq(Effects),
         rounds  : Nat,
         used    : Nat ]
NoRun == [ agent |-> FALSE, turn |-> NoTurn, pending |-> << >>, at |-> 0,
           inv |-> "none", queue |-> << >>, rounds |-> 0, used |-> 0 ]

Busy == pc \in {"round", "streaming", "call", "executing"}

Current    == run.pending[run.at]
Effect     == Head(run.queue)
HasEffect(kinds) == pc = "call" /\ run.queue # << >> /\ Effect.kind \in kinds

Init ==
    /\ store = EmptyMachine
    /\ pc = "down" /\ mode = "Confirm" /\ cancelled = FALSE
    /\ run = NoRun /\ failed = FALSE
    /\ consent = {} /\ entered = [t \in TurnIds |-> [c \in CallIds |-> 0]]
    /\ crashes = 0

\* A record goes through apply_command or append.
Journal(r) == Issues(store, r) /\ store' = After(store, r)

\* A `?` in the run: the error goes to the caller and the run is forgotten. The
\* turn it was driving stays as it is.
Abort ==
    /\ pc' = "idle" /\ run' = NoRun /\ failed' = TRUE
    /\ UNCHANGED <<store, mode, cancelled, consent, entered, crashes>>

\* An interrupted run leaves without its terminal record.
FaultyFinish(outcome) ==
    /\ outcome = "Interrupted" \/ Journal(TurnTerminal(store.active, run.turn, outcome))
    /\ outcome = "Interrupted" => UNCHANGED store
    /\ pc' = "idle" /\ run' = NoRun
    /\ UNCHANGED <<mode, cancelled, failed, consent, entered, crashes>>

\* RunMachine::finish through apply_runtime_input: the terminal record, then Ok.
Finish(outcome) ==
    /\ Journal(TurnTerminal(store.active, run.turn, outcome))
    /\ pc' = "idle" /\ run' = NoRun
    /\ UNCHANGED <<mode, cancelled, failed, consent, entered, crashes>>

\* The run moves on without touching anything else.
Go(where, next) ==
    /\ pc' = where /\ run' = next
    /\ UNCHANGED <<mode, cancelled, failed, entered, crashes>>

-----------------------------------------------------------------------------
(* Between runs. *)

\* run_agent_with, and run_prompt_with or retry_turn: these two offer no tools.
\* The driver refuses while a turn is Running, and then nothing changes.
Begin(t, agent) ==
    /\ pc = "idle" /\ store.active # NoSession
    /\ Journal(TurnStarted(store.active, t))
    /\ consent' = {}
    /\ Go(IF agent THEN "round" ELSE "streaming",
          [NoRun EXCEPT !.agent = agent, !.turn = t])

NewSession(s) == /\ pc = "idle" /\ Journal(SessionCreated(s))
                 /\ Go("idle", NoRun) /\ UNCHANGED consent
ResumeSession(s) == /\ pc = "idle" /\ Journal(SessionActivated(s))
                    /\ Go("idle", NoRun) /\ UNCHANGED consent
CompactActive(t) == /\ pc = "idle" /\ store.active # NoSession
                    /\ Journal(CompactionStored(store.active, t))
                    /\ Go("idle", NoRun) /\ UNCHANGED consent

\* set_permission_mode, with the tools' transition succeeding; when it fails
\* the mode is Confirm all the same.
SetPermissionMode(m) ==
    /\ pc = "idle"
    /\ mode' = m
    /\ UNCHANGED <<store, pc, cancelled, run, failed, consent, entered, crashes>>

\* Somebody uses the token: Ctrl-C, at any moment. Nothing resets it.
Cancel ==
    /\ pc # "down" /\ ~cancelled
    /\ cancelled' = TRUE
    /\ UNCHANGED <<store, pc, mode, run, failed, consent, entered, crashes>>

-----------------------------------------------------------------------------
(* The provider round. *)

\* The head of the loop in drive_agent_request: first the token, then the
\* budget, then the provider.
InterruptRound == pc = "round" /\ cancelled /\ Finish("Interrupted")
ExhaustRounds == pc = "round" /\ ~cancelled /\ Finish("Failed")
\* The count is compared after the round is begun.
OpenRound ==
    /\ pc = "round" /\ ~cancelled /\ run.rounds < MaxRounds
    /\ Go("streaming", [run EXCEPT !.rounds = @ + 1])
    /\ UNCHANGED <<store, consent>>

VisibleTextDelta ==
    /\ pc = "streaming"
    /\ Journal(TurnDelta(store.active, run.turn))
    /\ Go(pc, run) /\ UNCHANGED consent

\* A complete tool call arrives. Nobody offered tools in a prompt run.
ToolCallFragments(c) ==
    /\ pc = "streaming" /\ run.agent
    /\ \A i \in DOMAIN run.pending : run.pending[i] # c
    /\ Go(pc, [run EXCEPT !.pending = Append(@, c)])
    /\ UNCHANGED <<store, consent>>
UnofferedToolCall == pc = "streaming" /\ ~run.agent /\ Finish("Failed")
\* Incomplete or malformed arguments, an unknown tool, or an id that this round
\* has already: provider_event returns an error.
BadToolCallFragments == pc = "streaming" /\ run.agent /\ Abort

\* The stream ends with calls to make.
BeginTools ==
    /\ pc = "streaming" /\ run.pending # << >>
    /\ Go("call", [run EXCEPT !.at = 1])
    /\ UNCHANGED <<store, consent>>
\* The stream ends the turn. Calls seen so far are dropped unless it completed;
\* an end of file without a terminal event counts as a failure.
FinishStream(outcome) ==
    /\ pc = "streaming"
    /\ outcome = "Completed" => run.pending = << >>
    /\ outcome = "Interrupted" => cancelled
    /\ Finish(outcome)

-----------------------------------------------------------------------------
(* complete_invocation: one call of the round. *)

Requested(c) == store.turns[run.turn].calls[c].requested

\* InvocationRegistry::register: ids seen before in this run are an error. Each
\* registration is followed by ToolRequested, so the turn knows them too.
DuplicateCall ==
    /\ pc = "call" /\ run.inv = "none" /\ run.at <= Len(run.pending)
    /\ Requested(Current)
    /\ Abort
RegisterCall ==
    /\ pc = "call" /\ run.inv = "none" /\ run.at <= Len(run.pending)
    /\ ~Requested(Current)
    /\ Go(pc, [run EXCEPT !.inv = "Requested",
                          !.queue = <<ToolRequested(store.active, run.turn, Current)>>])
    /\ UNCHANGED <<store, consent>>

Result(status) == ToolTerminal(store.active, run.turn, Current, status)
Decision(d)    == ToolDecided(store.active, run.turn, Current, d)

\* The effects of InvocationMachine::apply join the queue behind the one that
\* is being carried out.
Transition(inv, effects) ==
    [run EXCEPT !.inv = inv,
                !.queue = (IF @ = << >> THEN @ ELSE Tail(@)) \o effects]

Preflighting == pc = "call" /\ run.inv = "Requested" /\ run.queue = << >>
CancelRequested ==
    /\ Preflighting /\ cancelled
    /\ Go(pc, Transition("Terminal", <<Result("Cancelled")>>))
    /\ UNCHANGED <<store, consent>>
\* normalize_preflight_result makes a failure of a success and lets the rest pass.
PreflightDenied(status) ==
    /\ Preflighting /\ ~cancelled
    /\ LET passed == IF status = "Succeeded" THEN "Failed" ELSE status IN
         Go(pc, Transition("Terminal", <<Result(passed)>>))
    /\ UNCHANGED <<store, consent>>
\* Shell tools are let through with a mode that was never checked.
FaultyPreflightAllowed ==
    /\ Preflighting /\ ~cancelled
    /\ Go(pc, IF mode = "Confirm" /\ Current \notin ShellCalls
              THEN Transition("AwaitingDecision", <<RequestApproval>>)
              ELSE Transition("Approved", <<Decision("Approved")>>))
    /\ UNCHANGED <<store, consent>>

PreflightAllowed ==
    /\ Preflighting /\ ~cancelled
    /\ Current \in ShellCalls => mode = "FullAccess"
    /\ Go(pc, IF mode = "Confirm"
              THEN Transition("AwaitingDecision", <<RequestApproval>>)
              ELSE Transition("Approved", <<Decision("Approved")>>))
    /\ UNCHANGED <<store, consent>>

\* The user answers, or the token is used while the question stands; with both
\* ready the select! may take either.
UserApproves ==
    /\ HasEffect({"RequestApproval"})
    /\ consent' = consent \cup {Current}
    /\ Go(pc, Transition("Approved", <<Decision("Approved")>>))
    /\ UNCHANGED store
UserRejects ==
    /\ HasEffect({"RequestApproval"})
    /\ Go(pc, Transition("Terminal", <<Decision("Rejected"), Result("Rejected")>>))
    /\ UNCHANGED <<store, consent>>
\* The question is not raced against the token.
FaultyCancelApproval ==
    /\ HasEffect({"RequestApproval"}) /\ cancelled
    /\ UNCHANGED vars

CancelApproval ==
    /\ HasEffect({"RequestApproval"}) /\ cancelled
    /\ Go(pc, Transition("Terminal", <<Decision("Rejected"), Result("Cancelled")>>))
    /\ UNCHANGED <<store, consent>>

\* PersistRequested, a rejecting PersistDecision, PersistStarted and
\* PersistTerminal.
Persist ==
    /\ HasEffect(ToolKinds)
    /\ Effect.kind = "ToolDecisionRecorded" => run.inv # "Approved"
    /\ Journal(Effect)
    /\ Go(pc, [run EXCEPT !.queue = Tail(@)])
    /\ UNCHANGED consent

\* The session machine does not take the record: the command returns an error.
RecordRefused == HasEffect(ToolKinds) /\ ~Issues(store, Effect) /\ Abort

\* An approving PersistDecision asks the budget in the same breath.
Approving == HasEffect({"ToolDecisionRecorded"}) /\ run.inv = "Approved"
\* The adapter is entered before its start is on disk.
FaultyStartApproved ==
    /\ Approving /\ run.used < MaxToolCalls
    /\ Journal(Effect)
    /\ Go(pc, [Transition("Started",
                          <<Execute, ToolStarted(store.active, run.turn, Current)>>)
                 EXCEPT !.used = @ + 1])
    /\ UNCHANGED consent

StartApproved ==
    /\ Approving /\ run.used < MaxToolCalls
    /\ Journal(Effect)
    /\ Go(pc, [Transition("Started",
                          <<ToolStarted(store.active, run.turn, Current), Execute>>)
                 EXCEPT !.used = @ + 1])
    /\ UNCHANGED consent
OverBudget ==
    /\ Approving
    /\ Journal(Effect)
    /\ Go(pc, Transition("Terminal", <<Result("Failed")>>))
    /\ UNCHANGED consent

\* Execute: the token is looked at once more before the adapter is entered.
CancelStarted ==
    /\ HasEffect({"Execute"}) /\ cancelled
    /\ Go(pc, Transition("Terminal", <<Result("Indeterminate")>>))
    /\ UNCHANGED <<store, consent>>
EnterTool ==
    /\ HasEffect({"Execute"}) /\ ~cancelled
    /\ pc' = "executing"
    /\ entered' = [entered EXCEPT ![run.turn][Current] = @ + 1]
    /\ UNCHANGED <<store, mode, cancelled, run, failed, consent, crashes>>

\* The adapter returns. What terminate_started does not take is an error of the
\* run: a tool that is not a shell tool and rejects or cancels only now.
LegalNow(status) ==
    TerminalIsLegal(store.turns[run.turn].calls[Current], Current, status)
\* A cancelled tool is reported as if it had never begun.
FaultyToolReturns(status) ==
    /\ pc = "executing" /\ LegalNow(status)
    /\ Go("call", Transition("Terminal",
             <<Result(IF cancelled THEN "Cancelled" ELSE status)>>))
    /\ UNCHANGED <<store, consent>>

ToolReturns(status) ==
    /\ pc = "executing" /\ LegalNow(status)
    /\ Go("call", Transition("Terminal", <<Result(status)>>))
    /\ UNCHANGED <<store, consent>>
ToolReturnsIllegal(status) ==
    pc = "executing" /\ ~LegalNow(status) /\ Abort

\* The result joins those of the round and the next call is taken up...
NextCall ==
    /\ pc = "call" /\ run.inv = "Terminal" /\ run.queue = << >>
    /\ Go(pc, [run EXCEPT !.inv = "none", !.at = @ + 1])
    /\ UNCHANGED <<store, consent>>
\* ...or the provider is asked again with all of them.
ContinueAfterTools ==
    /\ pc = "call" /\ run.inv = "none" /\ run.at > Len(run.pending)
    /\ Go("round", [run EXCEPT !.pending = << >>, !.at = 0])
    /\ UNCHANGED <<store, consent>>

\* An append of the run, or of one of its traces, returns an I/O error.
JournalFails == StoreErrors /\ pc \in {"round", "streaming", "call"} /\ Abort

-----------------------------------------------------------------------------
(* The end of the process, and ConversationDriver::open. *)

\* Memory is lost: the run, the token, the permission mode.
Crash ==
    /\ pc # "down" /\ crashes < MaxCrashes
    /\ crashes' = crashes + 1
    /\ pc' = "down" /\ run' = NoRun
    /\ mode' = "Confirm" /\ cancelled' = FALSE /\ failed' = FALSE
    /\ UNCHANGED <<store, consent, entered>>

Recover ==
    /\ pc = "down"
    /\ \E r \in RecoveryRecords(store) : store' = After(store, r)
    /\ UNCHANGED <<pc, mode, cancelled, run, failed, consent, entered, crashes>>
\* The driver opens before recovery is done.
FaultyOpenDriver ==
    /\ pc = "down"
    /\ Go("opening", NoRun) /\ UNCHANGED <<store, consent>>

OpenDriver ==
    /\ pc = "down" /\ RecoveryRecords(store) = {}
    /\ Go("opening", NoRun) /\ UNCHANGED <<store, consent>>
\* A driver without an active session creates one, and so it does if the active
\* one is finalized, which it may be once it has a turn.
EnsureSession ==
    /\ pc = "opening"
    /\ \/ store.active # NoSession /\ UNCHANGED store
       \/ /\ store.active # NoSession => TurnsOf(store, store.active) # {}
          /\ \E s \in SessionIds : Journal(SessionCreated(s))
    /\ Go("idle", NoRun) /\ UNCHANGED consent

-----------------------------------------------------------------------------
(* What the driver, the provider and the adapters do by themselves. *)
RoundStep == InterruptRound \/ ExhaustRounds \/ OpenRound
StreamEnd == \/ BeginTools \/ UnofferedToolCall \/ BadToolCallFragments
             \/ \E outcome \in Terminal : FinishStream(outcome)
CallStep ==
    \/ DuplicateCall \/ RegisterCall
    \/ CancelRequested \/ PreflightAllowed
    \/ \E status \in ToolTerminalStatus : PreflightDenied(status)
    \/ CancelApproval
    \/ Persist \/ RecordRefused \/ StartApproved \/ OverBudget
    \/ CancelStarted \/ EnterTool
    \/ NextCall \/ ContinueAfterTools
ToolStep == \E status \in ToolTerminalStatus :
                ToolReturns(status) \/ ToolReturnsIllegal(status)
RunStep == RoundStep \/ StreamEnd \/ CallStep \/ ToolStep

Between ==
    \/ \E t \in TurnIds, agent \in BOOLEAN : Begin(t, agent)
    \/ \E t \in TurnIds : CompactActive(t)
    \/ \E s \in SessionIds : NewSession(s) \/ ResumeSession(s)
    \/ \E m \in {"Confirm", "FullAccess"} : SetPermissionMode(m)

Next == \/ Between \/ Cancel \/ RunStep \/ JournalFails
        \/ VisibleTextDelta \/ (\E c \in CallIds : ToolCallFragments(c))
        \/ UserApproves \/ UserRejects
        \/ Crash \/ Recover \/ OpenDriver \/ EnsureSession

Spec == Init /\ [][Next]_vars

\* The driver goes on, the provider's deadline ends every stream, and tools
\* return. Nobody makes an append fail, and nobody makes the user answer, press
\* Ctrl-C or start the program.
FairSpec == Spec /\ WF_vars(RunStep)

-----------------------------------------------------------------------------
(* Type correctness of the driver. *)
TypeOK ==
    /\ store \in Machine
    /\ pc \in {"down", "opening", "idle", "round", "streaming", "call", "executing"}
    /\ mode \in {"Confirm", "FullAccess"}
    /\ cancelled \in BOOLEAN /\ failed \in BOOLEAN
    /\ run \in Run
    /\ consent \subseteq CallIds
    /\ entered \in [TurnIds -> [CallIds -> Nat]]
    /\ crashes \in Nat

(* InvocationMachine and the session machine judge by rules written twice     *)
(* (tool.rs apply against session.rs apply_record).  They disagree on one     *)
(* record only: tool.rs:285 lets a preflight answer Indeterminate, and        *)
(* session.rs:943 refuses that of a call that was never started.  Every other *)
(* record the driver is about to append is taken, and so is the terminal of   *)
(* the turn whenever the run may end.                                         *)
UnknownUnstarted ==
    /\ Effect = Result("Indeterminate")
    /\ ~store.turns[run.turn].calls[Current].started
StoreAgrees ==
    /\ HasEffect(ToolKinds) => (Issues(store, Effect) <=> ~UnknownUnstarted)
    /\ pc \in {"round", "streaming"} =>
         \A outcome \in Terminal :
            Issues(store, TurnTerminal(store.active, run.turn, outcome))

(* A tool is entered at most once per call, crashes and restarts included,    *)
(* and only with its start on disk (D-306, D-308).                            *)
EffectsRecorded ==
    \A t \in TurnIds, c \in CallIds :
        /\ entered[t][c] <= 1
        /\ entered[t][c] = 1 => store.turns[t].calls[c].started

(* The durable result of a call does not lie about the tool: a success means  *)
(* it was entered, a rejection or a cancellation that it was not, except for  *)
(* the shell tools, which may refuse late.                                    *)
ResultsTruthful ==
    \A t \in TurnIds, c \in CallIds :
        LET result == store.turns[t].calls[c].result IN
        /\ result = "Succeeded" => entered[t][c] = 1
        /\ result \in {"Rejected", "Cancelled"} /\ c \notin ShellCalls
             => entered[t][c] = 0

(* The calls of a round are completed one after another, in the order of the  *)
(* stream: those before the current one have their durable result, those      *)
(* after it have not been touched in this round (D-304).  No turn enters more *)
(* tools or asks the provider more often than its limits.  And a run that     *)
(* ends with Ok has left a durable terminal turn behind: unless a run failed  *)
(* in this process, an idle driver has no Running turn.                       *)
OneCallAtATime ==
    /\ pc \in {"call", "executing"} =>
         LET calls == store.turns[run.turn].calls IN
         /\ \A i \in 1..(run.at - 1) : calls[run.pending[i]].result # "none"
         /\ \A c \in CallIds :
              Open(calls[c]) => run.at <= Len(run.pending) /\ c = Current
    /\ pc \in {"round", "streaming"} => ~HasOpenCall(store.turns[run.turn])
WithinBudget ==
    /\ run.rounds <= MaxRounds
    /\ \A t \in TurnIds :
         Cardinality({c \in CallIds : entered[t][c] > 0}) <= MaxToolCalls
OkMeansDurable == pc = "idle" /\ ~failed => ~HasRunningTurn(store)
RunDiscipline == OneCallAtATime /\ WithinBudget /\ OkMeansDurable

(* In Confirm mode a tool is entered only after the user approved this very   *)
(* call in this turn; a shell tool only with full access.                     *)
ConsentGate ==
    [][ \A t \in TurnIds, c \in CallIds :
          entered'[t][c] # entered[t][c] =>
              \/ mode = "FullAccess"
              \/ c \notin ShellCalls /\ c \in consent ]_vars

(* A run ends by itself unless it waits for the user's approval, and then the *)
(* token ends it: nothing else can hold a turn open.                          *)
RunEnds == Busy ~> (~Busy \/ (HasEffect({"RequestApproval"}) /\ ~cancelled))

(* Every turn ends with one durable outcome before the driver is idle again.  *)
EveryRunEndsDurably == pc = "idle" => ~HasRunningTurn(store)

-----------------------------------------------------------------------------
(* The driver uses the store as the ledger wants to be used: whatever it      *)
(* writes is one command of DurableSession at a time, and only an open driver *)
(* writes any.                                                                *)
Ledger == INSTANCE DurableSession WITH view <- store, serving <- (pc # "down")
ImplementsLedger == Ledger!LedgerSpec
=============================================================================
