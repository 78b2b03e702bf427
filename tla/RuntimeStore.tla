---------------------------- MODULE RuntimeStore ----------------------------
(***************************************************************************)
(* The runtime store of minimax-vault (vault/src/runtime): a session       *)
(* machine kept in memory, in front of an append-only JSONL journal.  One  *)
(* process at a time owns the store: the operating system's lock on        *)
(* writer.lock is taken before the journal is touched and dies with its    *)
(* process, so the model has one store that is opened, crashes and is      *)
(* opened again.                                                           *)
(*                                                                         *)
(* Disk: the complete lines of sessions.jsonl, the unterminated fragment   *)
(* that may follow them, the fragments quarantined under repairs/ by the   *)
(* length of the journal in front of them, and the finalization markers.   *)
(* A line written behind a fragment joins it into one malformed line.      *)
(* Lengths are counted in lines.  The derived index is rebuilt from these  *)
(* and is left out.                                                        *)
(***************************************************************************)
EXTENDS SessionMachine, Sequences

CONSTANTS
    Fragments,      \* what a write cut short may leave behind the last line
    NoFragment,     \* nothing is left: the journal ends in a newline
    Garbled,        \* the fragments cut inside a character, or too long
    IOErrors,       \* whether an append may fail and the process live on
    MaxLines,       \* bound: commands stop at this length of the journal
    MaxCrashes      \* bound on the number of crashes

ASSUME FragmentAssumption == NoFragment \notin Fragments /\ Garbled \subseteq Fragments
ASSUME BoundsAssumption == /\ IOErrors \in BOOLEAN
                           /\ MaxLines \in Nat /\ MaxCrashes \in Nat

VARIABLES
    lines,          \* the complete lines of sessions.jsonl
    tail,           \* the unterminated end of sessions.jsonl
    repairs,        \* the files repairs/final-fragment-<at>.partial
    finalized,      \* the sessions with a finalization marker
    phase,          \* how far the owning process is
    cursor,         \* lines replayed so far while loading
    mem,            \* RuntimeStore::machine
    crashes,        \* crashes so far
    hist            \* history: hist[i+1] is what the first i lines replay to

disk  == <<lines, tail, repairs, finalized, hist>>
vars  == <<disk, phase, cursor, mem, crashes>>

Bad        == [kind |-> "malformed"]
HasBadLine == \E i \in DOMAIN lines : lines[i] = Bad
Durable    == hist[Len(hist)]

\* Some line of the journal cannot be parsed, or the machine refuses it.
Unreadable == \E i \in DOMAIN lines : ~Accepts(hist[i], lines[i])

\* The quarantine files for a fragment behind the lines that are there now: at
\* most one; "incomplete" is a copy that was cut short.
Quarantined == {q.text : q \in {p \in repairs : p.at = Len(lines)}}

Init ==
    /\ lines = << >> /\ tail = NoFragment /\ finalized = {}
    /\ repairs = {}
    /\ phase = "closed" /\ cursor = 0 /\ crashes = 0
    /\ mem = EmptyMachine /\ hist = <<EmptyMachine>>

-----------------------------------------------------------------------------
(* Writing one record: RuntimeJournal::append. *)

\* The whole line reaches the file.  Behind a fragment it is unreadable.
WriteLine(r) ==
    /\ lines' = Append(lines, IF tail = NoFragment THEN r ELSE Bad)
    /\ tail' = NoFragment
    /\ hist' = Append(hist, IF tail = NoFragment /\ Accepts(Durable, r)
                            THEN After(Durable, r) ELSE Durable)
    /\ UNCHANGED <<repairs, finalized>>

\* Part of the line reaches the file. Bytes that are no text stay so, whatever
\* is written behind them.
TearLine ==
    /\ tail' \in IF tail \in Garbled THEN Garbled ELSE Fragments
    /\ UNCHANGED <<lines, repairs, finalized, hist>>

\* The process dies, or `open` returns its error, and releases the lease.
Die ==
    /\ crashes < MaxCrashes
    /\ crashes' = crashes + 1
    /\ phase' = "closed" /\ mem' = EmptyMachine /\ cursor' = 0

\* The line is written but the machine in memory is not moved on.
FaultyAcknowledge(r) ==
    /\ WriteLine(r)
    /\ UNCHANGED <<mem, phase, cursor, crashes>>

\* The three ends of an append: written, synced and applied; cut short by a
\* crash; or failed in a process that goes on (write_all or sync_all returned
\* an error, the memory is left as it was).
Acknowledge(r) ==
    /\ WriteLine(r)
    /\ mem' = After(mem, r)
    /\ UNCHANGED <<phase, cursor, crashes>>
CrashInside(r) ==
    /\ WriteLine(r) \/ TearLine
    /\ Die
FailInside(r) ==
    /\ IOErrors
    /\ WriteLine(r) \/ TearLine
    /\ UNCHANGED <<phase, cursor, mem, crashes>>

\* The finalization marker is not looked at.
FaultyPut(r) ==
    /\ phase = "open" /\ Len(lines) < MaxLines
    /\ Issues(mem, r)
    /\ Acknowledge(r) \/ CrashInside(r) \/ FailInside(r)

\* RuntimeStore::apply_command and append: the command is tried on a preview of
\* the machine, a finalized session takes no record, then the line is written.
Put(r) ==
    /\ phase = "open" /\ Len(lines) < MaxLines
    /\ r.session \notin finalized
    /\ Issues(mem, r)
    /\ Acknowledge(r) \/ CrashInside(r) \/ FailInside(r)

\* The driver draws session and turn ids afresh, also after a failed attempt.
CreateSession(s)         == s \notin Durable.known /\ Put(SessionCreated(s))
Resume(s)                == Put(SessionActivated(s))
\* Continue, and Retry of a turn that is over: only the user text differs.
Continue(t)              == /\ mem.active # NoSession
                            /\ Durable.turns[t].status = "absent"
                            /\ Put(TurnStarted(mem.active, t))
RecordDelta(t)           == /\ Running(mem, t)
                            /\ Put(TurnDelta(mem.turns[t].session, t))
RecordToolRequested(t, c) ==
    Running(mem, t) /\ Put(ToolRequested(mem.turns[t].session, t, c))
RecordToolDecision(t, c, d) ==
    Running(mem, t) /\ Put(ToolDecided(mem.turns[t].session, t, c, d))
RecordToolStarted(t, c)  ==
    Running(mem, t) /\ Put(ToolStarted(mem.turns[t].session, t, c))
RecordToolTerminal(t, c, r) ==
    Running(mem, t) /\ Put(ToolTerminal(mem.turns[t].session, t, c, r))
FinalizeTurn(t, o)       ==
    Running(mem, t) /\ Put(TurnTerminal(mem.turns[t].session, t, o))
CompactActive(t)         == /\ mem.active # NoSession
                            /\ Put(CompactionStored(mem.active, t))

\* finalize_session: judges the journal on disk, not the machine in memory.
\* The evidence files behind the marker are the subject of Finalization.
FinalizeSession ==
    LET s == mem.active IN
    /\ phase = "open"
    /\ s # NoSession /\ s \notin finalized
    /\ tail = NoFragment /\ ~Unreadable
    /\ TurnsOf(Durable, s) # {}
    /\ \A t \in TurnsOf(Durable, s) : ~Running(Durable, t)
    /\ finalized' = finalized \cup {s}
    /\ UNCHANGED <<lines, tail, repairs, hist, phase, cursor, mem, crashes>>

-----------------------------------------------------------------------------
(* RuntimeStore::open. *)

\* load looks at the length and the encoding of a line before it misses the
\* newline: with a garbled fragment `open` returns its error and changes nothing.
Torn == phase = "closed" /\ tail \in Fragments \ Garbled /\ ~HasBadLine

\* quarantine_and_trim copies the fragment into a file it must create...
Quarantine ==
    /\ Torn /\ Quarantined = {}
    /\ \/ /\ repairs' = repairs \cup {[at |-> Len(lines), text |-> tail]}
          /\ UNCHANGED crashes
       \/ /\ crashes < MaxCrashes        \* killed while copying
          /\ crashes' = crashes + 1
          /\ repairs' = repairs \cup {[at |-> Len(lines), text |-> "incomplete"]}
    /\ UNCHANGED <<lines, tail, finalized, hist, phase, cursor, mem>>

\* ...and cuts the journal back, also when the file holds this very fragment.
Trim ==
    /\ Torn /\ Quarantined = {tail}
    /\ tail' = NoFragment
    /\ UNCHANGED <<lines, repairs, finalized, hist, phase, cursor, mem, crashes>>

BeginLoad ==
    /\ phase = "closed" /\ tail = NoFragment /\ ~HasBadLine
    /\ phase' = "loading" /\ cursor' = 0 /\ mem' = EmptyMachine
    /\ UNCHANGED <<disk, crashes>>

\* SessionMachine::replay, one record at a time; a record the machine does not
\* take makes `open` fail.
LoadLine ==
    /\ phase = "loading" /\ cursor < Len(lines)
    /\ IF Accepts(mem, lines[cursor + 1])
       THEN /\ mem' = After(mem, lines[cursor + 1])
            /\ cursor' = cursor + 1
            /\ UNCHANGED phase
       ELSE phase' = "closed" /\ mem' = EmptyMachine /\ cursor' = 0
    /\ UNCHANGED <<disk, crashes>>

EndLoad ==
    /\ phase = "loading" /\ cursor = Len(lines)
    /\ phase' = "recovering"
    /\ UNCHANGED <<disk, cursor, mem, crashes>>

\* What the dead process left open is closed, one journal record after another.
RecoverOne ==
    /\ phase = "recovering"
    /\ \E r \in RecoveryRecords(mem) : Acknowledge(r)
CrashInRecovery ==
    /\ phase = "recovering"
    /\ \E r \in RecoveryRecords(mem) : CrashInside(r)

\* The store is handed out before recovery is done.
FaultyServe ==
    /\ phase = "recovering"
    /\ phase' = "open"
    /\ UNCHANGED <<disk, cursor, mem, crashes>>

Serve ==
    /\ phase = "recovering" /\ RecoveryRecords(mem) = {}
    /\ phase' = "open"
    /\ UNCHANGED <<disk, cursor, mem, crashes>>

\* The process ends between two operations.
Crash == phase # "closed" /\ Die /\ UNCHANGED disk

-----------------------------------------------------------------------------
Commands ==
    \/ \E s \in SessionIds : CreateSession(s) \/ Resume(s)
    \/ \E t \in TurnIds :
         \/ Continue(t) \/ RecordDelta(t) \/ CompactActive(t)
         \/ \E o \in Terminal : FinalizeTurn(t, o)
         \/ \E c \in CallIds :
              \/ RecordToolRequested(t, c) \/ RecordToolStarted(t, c)
              \/ \E d \in {"Approved", "Rejected"} : RecordToolDecision(t, c, d)
              \/ \E r \in ToolTerminalStatus : RecordToolTerminal(t, c, r)
    \/ FinalizeSession

Reopen == Quarantine \/ Trim \/ BeginLoad \/ LoadLine \/ EndLoad
          \/ RecoverOne \/ Serve

Next == Commands \/ Reopen \/ CrashInRecovery \/ Crash

Spec == Init /\ [][Next]_vars

\* Somebody starts the program again after a crash, and a started `open` goes
\* on; no user has to type anything.
FairSpec == Spec /\ WF_vars(Reopen)

-----------------------------------------------------------------------------
(* Type correctness of the store. *)
TypeOK ==
    /\ lines \in Seq(Record \cup {Bad})
    /\ tail \in Fragments \cup {NoFragment}
    /\ repairs \subseteq [at : Nat, text : Fragments \cup {"incomplete"}]
    /\ finalized \subseteq SessionIds
    /\ phase \in {"closed", "loading", "recovering", "open"}
    /\ cursor \in Nat /\ crashes \in Nat
    /\ mem \in Machine
    /\ hist \in Seq(Machine) /\ Len(hist) = Len(lines) + 1

(* The store's own view of its sessions: what a client reads while it is      *)
(* open, and what the journal holds while it is not.                          *)
View == IF phase = "open" THEN mem ELSE Durable

(* Through commands, crashes, replay and recovery the machine stays sound;    *)
(* and while the store serves, at most one turn runs over all its sessions,   *)
(* although replay (session.rs TurnStarted) does not check it: only the       *)
(* commands and the recovery that comes before them do.                       *)
MemorySound ==
    /\ MachineSound(mem)
    /\ phase = "open" => OneRunning(mem)

(* With no failed write, the machine in memory is exactly what a restart      *)
(* would rebuild from the bytes on disk: nothing acknowledged is lost, and    *)
(* nothing is served that is not durable.  And every journal a crash can      *)
(* leave replays to the end: loading meets no record the machine refuses.     *)
Replayed[n \in Nat] == IF n = 0 THEN EmptyMachine
                       ELSE After(Replayed[n - 1], lines[n])
JournalIsTruth ==
    ~IOErrors =>
        /\ phase = "open" => mem = Replayed[Len(lines)]
        /\ phase = "loading" /\ cursor < Len(lines) => Accepts(mem, lines[cursor + 1])

(* A call whose start is durable when its process dies is never run again and *)
(* never guessed a success: all it can get from recovery is Indeterminate     *)
(* (D-308).                                                                   *)
StartedStaysUnknown ==
    [][ phase # "open" =>
        \A t \in TurnIds, c \in CallIds :
            LET before == Durable.turns[t].calls[c]
                after  == Durable'.turns[t].calls[c]
            IN after # before =>
                 IF before.started THEN after = [before EXCEPT !.result = "Indeterminate"]
                 ELSE after = [before EXCEPT !.result = "Cancelled"] ]_vars

(* Once a session has its finalization marker no journal line of that session *)
(* is ever written, not even by the recovery that bypasses the marker check.  *)
LinesOf(s) == {i \in DOMAIN lines : lines[i] # Bad /\ lines[i].session = s}
FinalizedFrozen ==
    [][ \A s \in finalized : LinesOf(s)' = LinesOf(s) ]_vars

(* The quarantine file for this length of the journal holds something else:   *)
(* every `open` from here on fails with Recovery.                             *)
Unrepairable == tail # NoFragment /\ Quarantined \notin {{}, {tail}}

(* The fragment is no text, or too long for a record: every `open` from here  *)
(* on fails, by intent (02-02-PLAN: invalid UTF-8 fails closed), although no  *)
(* more than a crash inside an append is needed for it.                       *)
Undecodable == tail \in Garbled

(* A torn final line that is text never meets a quarantine file with other    *)
(* bytes: it is moved away and the store goes on (02-SPEC edge table).        *)
TornTailIsRepairable == ~Unrepairable

(* A failed append never costs the records around it: what is on disk can     *)
(* still be read back.                                                        *)
JournalStaysReadable == ~Unreadable

(* A closed store opens again and then has no unfinished turn, unless its     *)
(* journal has a line that cannot be read, or ends in a fragment that is no   *)
(* text or that the quarantine refuses: a crash at any byte of an append,     *)
(* also of one that recovery makes, leads to one of these and to nothing else.*)
ReopensRecovered ==
    phase = "closed" ~>
        \/ phase = "open" /\ ~HasRunningTurn(mem)
        \/ Unrepairable \/ Undecodable \/ Unreadable

-----------------------------------------------------------------------------
(* The journal implements the session ledger of DurableSession: journalling,  *)
(* torn lines, quarantine and line-by-line replay are invisible behind it.    *)
Ledger == INSTANCE DurableSession WITH view <- View, serving <- (phase = "open")
ImplementsLedger == Ledger!LedgerSpec
=============================================================================
