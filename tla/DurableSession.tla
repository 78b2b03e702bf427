--------------------------- MODULE DurableSession ---------------------------
(***************************************************************************)
(* What the runtime store promises to its caller, without a journal: one   *)
(* session machine that survives crashes.  A command that was acknowledged *)
(* stays; a crash may let the one command in flight happen or not; before  *)
(* the store serves again, everything left unfinished has been closed by   *)
(* recovery records, and by nothing else.                                  *)
(***************************************************************************)
EXTENDS SessionMachine

VARIABLES
    view,       \* the session machine the store stands for
    serving     \* whether a process has it open

ledgerVars == <<view, serving>>

LedgerInit == view = EmptyMachine /\ serving = FALSE

LedgerCommit ==
    /\ serving
    /\ \E r \in Record : Issues(view, r) /\ view' = After(view, r)
    /\ UNCHANGED serving

LedgerCrash ==
    /\ serving /\ serving' = FALSE
    /\ \/ UNCHANGED view
       \/ \E r \in Record : Issues(view, r) /\ view' = After(view, r)

LedgerRecover ==
    /\ ~serving
    /\ \E r \in RecoveryRecords(view) : view' = After(view, r)
    /\ UNCHANGED serving

LedgerServe ==
    /\ ~serving /\ RecoveryRecords(view) = {}
    /\ serving' = TRUE
    /\ UNCHANGED view

LedgerNext == LedgerCommit \/ LedgerCrash \/ LedgerRecover \/ LedgerServe
LedgerSpec == LedgerInit /\ [][LedgerNext]_ledgerVars

-----------------------------------------------------------------------------
(* Type correctness of the ledger. *)
LedgerTypeOK == view \in Machine /\ serving \in BOOLEAN

(* Every machine a client or a restart can see is sound: a result that        *)
(* reports an effect rests on a start, a start on an approval, a finished     *)
(* turn has no open call, a summary covers a completed turn (session.rs       *)
(* apply_record).                                                             *)
Sound == MachineSound(view)

(* At most one turn runs over all sessions, crash or not.                     *)
OneRunningTurn == OneRunning(view)

(* A turn that is over never changes again: no command, crash or recovery     *)
(* reopens it, rewrites its calls or moves it.                                *)
TerminalTurnsFrozen ==
    [][ \A t \in TurnIds :
          view.turns[t].status \in Terminal => view'.turns[t] = view.turns[t] ]_ledgerVars
=============================================================================
