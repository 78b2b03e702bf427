------------------------ MODULE DurableSession_proofs -----------------------
(***************************************************************************)
(* What one journal record may do to a session machine, and what follows   *)
(* for DurableSession, for every set of sessions, turns and calls.  The    *)
(* lemmas on records do not depend on who keeps the machine: the store     *)
(* (RuntimeStore) and the driver (AgentTurn) rest on the same ones.        *)
(***************************************************************************)
EXTENDS DurableSession, FiniteSetTheorems, TLAPS

Kinds == {"SessionCreated", "SessionActivated", "TurnStarted",
          "CompactionStored"} \cup TurnKinds

-----------------------------------------------------------------------------
(* The fields of a record have the types its kind asks for. *)
LEMMA RecordFields ==
    ASSUME NEW r \in Record
    PROVE  /\ r.kind \in Kinds
           /\ r.session \in SessionIds
           /\ r.kind \notin {"SessionCreated", "SessionActivated"}
                => r.turn \in TurnIds
           /\ r.kind \in ToolKinds => r.call \in CallIds
           /\ r.kind = "ToolDecisionRecorded"
                => r.decision \in {"Approved", "Rejected"}
           /\ r.kind = "ToolTerminal" => r.result \in ToolTerminalStatus
           /\ r.kind \in TerminalKinds => r.outcome \in Terminal
BY DEF Record, Kinds, TurnKinds, ToolKinds, TerminalKinds, Terminal, SessionCreated, SessionActivated,
       TurnStarted, TurnDelta, ToolRequested, ToolDecided, ToolStarted,
       ToolTerminal, TurnTerminal, RecoveryApplied, CompactionStored

(* A call record leaves a call of the right type, and a sound one sound. *)
LEMMA ToolRecordStep ==
    ASSUME NEW r \in Record, r.kind \in ToolKinds, NEW call \in Call,
           AcceptsTool(call, r)
    PROVE  /\ AfterTool(call, r) \in Call
           /\ CallSound(call, r.call) => CallSound(AfterTool(call, r), r.call)
           /\ AfterTool(call, r).requested
<1>1. /\ r.kind = "ToolDecisionRecorded"
             => r.decision \in {"Approved", "Rejected"}
      /\ r.kind = "ToolTerminal" => r.result \in ToolTerminalStatus
      /\ r.call \in CallIds
  BY RecordFields DEF ToolKinds
<1>2. CASE r.kind = "ToolRequested"
  BY <1>2 DEF AcceptsTool, AfterTool, Call, CallSound, NoCall
<1>3. CASE r.kind = "ToolDecisionRecorded"
  BY <1>1, <1>3 DEF AcceptsTool, AfterTool, Call, CallSound, NoCall
<1>4. CASE r.kind = "ToolStarted"
  BY <1>4 DEF AcceptsTool, AfterTool, Call, CallSound, NoCall
<1>5. CASE r.kind = "ToolTerminal"
  BY <1>1, <1>5 DEF AcceptsTool, AfterTool, Call, CallSound, NoCall,
                    TerminalIsLegal, ToolTerminalStatus
<1> QED BY <1>2, <1>3, <1>4, <1>5 DEF ToolKinds

-----------------------------------------------------------------------------
(* The empty machine is a sound machine in which nothing runs. *)
LEMMA EmptyIsSound ==
    EmptyMachine \in Machine /\ MachineSound(EmptyMachine) /\ OneRunning(EmptyMachine)
<1>1. NoCall \in Call
  BY DEF NoCall, Call
<1>2. AbsentTurn \in Turn
  BY <1>1 DEF AbsentTurn, Turn, TurnStatus
<1>3. EmptyMachine \in Machine
  BY <1>2 DEF EmptyMachine, Machine
<1>4. \A t \in TurnIds : EmptyMachine.turns[t] = AbsentTurn
  BY DEF EmptyMachine
<1>5. TurnSound(AbsentTurn)
  BY DEF TurnSound, AbsentTurn, CallSound, NoCall, Open, Terminal
<1>6. MachineSound(EmptyMachine)
  <2>1. EmptyMachine.active = NoSession
    BY DEF EmptyMachine
  <2>2. \A t \in TurnIds : EmptyMachine.turns[t].status = "absent"
    BY <1>4 DEF AbsentTurn
  <2>3. CoverageSound(EmptyMachine)
    BY DEF EmptyMachine, CoverageSound
  <2> QED BY <2>1, <2>2, <2>3, <1>4, <1>5 DEF MachineSound
<1>7. OneRunning(EmptyMachine)
  BY <1>4 DEF OneRunning, Running, AbsentTurn
<1> QED BY <1>3, <1>6, <1>7

(* A started turn is a turn. *)
LEMMA NewTurnType ==
    ASSUME NEW m \in Machine, NEW s \in SessionIds
    PROVE  NewTurn(m, s) \in Turn
<1>1. IsFiniteSet(TurnsOf(m, s))
  BY TurnIdsAssumption, FS_Subset DEF TurnsOf
<1>2. Cardinality(TurnsOf(m, s)) \in Nat
  BY <1>1, FS_CardinalityType
<1>3. NoCall \in Call
  BY DEF NoCall, Call
<1> QED
  BY <1>2, <1>3 DEF NewTurn, AbsentTurn, Turn, TurnStatus

(* A record inside a running turn leaves a turn of the same session that has  *)
(* begun, and a sound one sound.                                              *)
LEMMA TurnStep ==
    ASSUME NEW r \in Record, r.kind \in TurnKinds, NEW turn \in Turn,
           AcceptsInTurn(turn, r)
    PROVE  /\ AfterInTurn(turn, r) \in Turn
           /\ AfterInTurn(turn, r).session = turn.session
           /\ AfterInTurn(turn, r).status \in Terminal \cup {"Running"}
           /\ TurnSound(turn) => TurnSound(AfterInTurn(turn, r))
<1>1. turn.status = "Running"
  BY DEF AcceptsInTurn
<1>2. CASE r.kind = "TurnDelta"
  <2>1. AfterInTurn(turn, r) = [turn EXCEPT !.spoke = TRUE]
    BY <1>2 DEF AfterInTurn, ToolKinds, TerminalKinds
  <2> QED BY <1>1, <2>1 DEF Turn, TurnSound, Terminal, HasOpenCall
<1>3. CASE r.kind \in ToolKinds
  <2>1. r.call \in CallIds
    BY <1>3, RecordFields
  <2> DEFINE call == turn.calls[r.call]
  <2>2. call \in Call /\ AcceptsTool(call, r)
    BY <1>3, <2>1 DEF Turn, AcceptsInTurn
  <2>3. /\ AfterTool(call, r) \in Call
        /\ CallSound(call, r.call) => CallSound(AfterTool(call, r), r.call)
    BY <1>3, <2>2, ToolRecordStep
  <2>4. AfterInTurn(turn, r) = [turn EXCEPT !.calls[r.call] = AfterTool(call, r)]
    BY <1>3 DEF AfterInTurn, ToolKinds, TerminalKinds
  <2> HIDE DEF call
  <2>5. AfterInTurn(turn, r) \in Turn
    BY <2>1, <2>3, <2>4 DEF Turn
  <2>6. /\ AfterInTurn(turn, r).status = "Running"
        /\ AfterInTurn(turn, r).session = turn.session
    BY <1>1, <2>4 DEF Turn
  <2>7. ASSUME TurnSound(turn) PROVE TurnSound(AfterInTurn(turn, r))
    <3>1. \A c \in CallIds : CallSound(AfterInTurn(turn, r).calls[c], c)
      BY <2>1, <2>3, <2>4, <2>7 DEF Turn, TurnSound, call
    <3> QED BY <2>6, <3>1 DEF TurnSound, Terminal
  <2> QED BY <2>5, <2>6, <2>7
<1>4. CASE r.kind \in TerminalKinds
  <2>1. r.outcome \in Terminal
    BY <1>4, RecordFields
  <2>2. AfterInTurn(turn, r) = [turn EXCEPT !.status = r.outcome]
    BY <1>4 DEF AfterInTurn, ToolKinds, TerminalKinds
  <2>3. ~HasOpenCall(turn)
    BY <1>4 DEF AcceptsInTurn
  <2>4. AfterInTurn(turn, r) \in Turn
    BY <2>1, <2>2 DEF Turn, TurnStatus
  <2>5. TurnSound(turn) => TurnSound(AfterInTurn(turn, r))
    BY <2>1, <2>2, <2>3 DEF Turn, TurnSound, HasOpenCall, Terminal
  <2> QED BY <2>1, <2>2, <2>4, <2>5 DEF Turn
<1> QED BY <1>2, <1>3, <1>4 DEF TurnKinds

-----------------------------------------------------------------------------
(* What a record asks of a machine and does to it, kind by kind. *)
LEMMA AcceptsByKind ==
    ASSUME NEW m, NEW r, Accepts(m, r)
    PROVE  /\ r.kind = "SessionCreated" => r.session \notin m.known
           /\ r.kind = "SessionActivated" => r.session \in m.known
           /\ r.kind = "TurnStarted" => /\ r.session \in m.known
                                        /\ m.turns[r.turn].status = "absent"
           /\ r.kind \in TurnKinds => AcceptsInTurn(m.turns[r.turn], r)
           /\ r.kind = "CompactionStored" => AcceptsCompaction(m, r)
BY DEF Accepts, TurnKinds, ToolKinds, TerminalKinds

(* ... and what it does to it.                                                *)
LEMMA AfterByKind ==
    ASSUME NEW m, NEW r
    PROVE  /\ r.kind = "SessionCreated" => After(m, r) =
                 [m EXCEPT !.known = @ \cup {r.session}, !.active = r.session]
           /\ r.kind = "SessionActivated" => After(m, r) =
                 [m EXCEPT !.active = r.session]
           /\ r.kind = "TurnStarted" => After(m, r) =
                 [m EXCEPT !.turns[r.turn] = NewTurn(m, r.session)]
           /\ r.kind \in TurnKinds => After(m, r) =
                 [m EXCEPT !.turns[r.turn] = AfterInTurn(@, r)]
           /\ r.kind = "CompactionStored" => After(m, r) =
                 [m EXCEPT !.covered[r.session] = r.turn]
BY DEF After, TurnKinds, ToolKinds, TerminalKinds

(* The machine after a record, field by field. *)
LEMMA AfterFields ==
    ASSUME NEW m \in Machine, NEW r \in Record, Accepts(m, r)
    PROVE  /\ After(m, r) \in Machine
           /\ m.known \subseteq After(m, r).known
           /\ After(m, r).active \in {m.active, r.session}
           /\ r.session \in After(m, r).known \/ r.kind \in TurnKinds \cup {"CompactionStored"}
           /\ r.kind \in TurnKinds \cup {"CompactionStored"} => After(m, r).active = m.active
           /\ \A t \in TurnIds :
                \/ After(m, r).turns[t] = m.turns[t]
                \/ /\ r.kind = "TurnStarted" /\ t = r.turn
                   /\ m.turns[t].status = "absent"
                   /\ After(m, r).turns[t] = NewTurn(m, r.session)
                \/ /\ r.kind \in TurnKinds /\ t = r.turn
                   /\ After(m, r).turns[t] = AfterInTurn(m.turns[t], r)
           /\ \A s \in SessionIds :
                \/ After(m, r).covered[s] = m.covered[s]
                \/ /\ r.kind = "CompactionStored" /\ s = r.session
                   /\ After(m, r).covered[s] = r.turn
<1>0. /\ r.kind \in Kinds /\ r.session \in SessionIds
      /\ r.kind \notin {"SessionCreated", "SessionActivated"} => r.turn \in TurnIds
  BY RecordFields
<1>a. /\ "SessionCreated" \notin TurnKinds /\ "SessionActivated" \notin TurnKinds
      /\ "TurnStarted" \notin TurnKinds /\ "CompactionStored" \notin TurnKinds
  BY DEF TurnKinds, ToolKinds, TerminalKinds
<1>1. CASE r.kind = "SessionCreated"
  <2>1. After(m, r) =
          [m EXCEPT !.known = @ \cup {r.session}, !.active = r.session]
    BY <1>1, AfterByKind
  <2> DEFINE more == m.known \cup {r.session}
  <2>2. After(m, r) = [m EXCEPT !.known = more, !.active = r.session]
    BY <2>1
  <2>3. more \in SUBSET SessionIds /\ m.known \subseteq more /\ r.session \in more
    BY <1>0 DEF Machine
  <2> HIDE DEF more
  <2>4. /\ After(m, r) \in Machine
        /\ After(m, r).known = more /\ After(m, r).active = r.session
        /\ After(m, r).turns = m.turns /\ After(m, r).covered = m.covered
    <3>1. m = [known |-> m.known, active |-> m.active, turns |-> m.turns, covered |-> m.covered]
      BY DEF Machine
    <3>2. After(m, r) = [known |-> more, active |-> r.session, turns |-> m.turns, covered |-> m.covered]
      BY <2>2, <3>1
    <3> QED BY <1>0, <2>3, <3>2 DEF Machine
  <2>5. r.kind \notin TurnKinds \cup {"CompactionStored"}
    BY <1>1, <1>a
  <2> QED BY <2>3, <2>4, <2>5
<1>2. CASE r.kind = "SessionActivated"
  <2>1. After(m, r) = [m EXCEPT !.active = r.session]
    BY <1>2, AfterByKind
  <2>2. r.session \in m.known
    BY <1>2, AcceptsByKind
  <2>3. /\ After(m, r) \in Machine
        /\ After(m, r).known = m.known /\ After(m, r).active = r.session
        /\ After(m, r).turns = m.turns /\ After(m, r).covered = m.covered
    BY <1>0, <2>1 DEF Machine
  <2> QED BY <1>2, <1>a, <2>2, <2>3
<1>3. CASE r.kind = "TurnStarted"
  <2>1. NewTurn(m, r.session) \in Turn
    BY <1>0, NewTurnType
  <2>2. After(m, r) = [m EXCEPT !.turns[r.turn] = NewTurn(m, r.session)]
    BY <1>3, AfterByKind
  <2>3. r.session \in m.known /\ m.turns[r.turn].status = "absent"
    BY <1>3, AcceptsByKind
  <2> DEFINE begun == NewTurn(m, r.session)
  <2>4. r.turn \in TurnIds
    BY <1>0, <1>3
  <2> HIDE DEF begun
  <2>5. /\ After(m, r) \in Machine
        /\ After(m, r).known = m.known /\ After(m, r).active = m.active
        /\ After(m, r).covered = m.covered
        /\ \A t \in TurnIds : After(m, r).turns[t] =
                               IF t = r.turn THEN begun ELSE m.turns[t]
    BY <2>1, <2>2, <2>4 DEF Machine, begun
  <2> QED BY <1>3, <1>a, <2>3, <2>5 DEF begun
<1>4. CASE r.kind \in TurnKinds
  <2>1. r.turn \in TurnIds
    BY <1>0, <1>4, <1>a
  <2>2. m.turns[r.turn] \in Turn
    BY <2>1 DEF Machine
  <2>3. AcceptsInTurn(m.turns[r.turn], r)
    BY <1>4, AcceptsByKind
  <2> DEFINE next == AfterInTurn(m.turns[r.turn], r)
  <2>4. next \in Turn
    BY <1>4, <2>2, <2>3, TurnStep
  <2>5. After(m, r) = [m EXCEPT !.turns[r.turn] = next]
    BY <1>4, AfterByKind
  <2>6. \A t \in TurnIds : t = r.turn => next = AfterInTurn(m.turns[t], r)
    OBVIOUS
  <2> HIDE DEF next
  <2>7. /\ After(m, r) \in Machine
        /\ After(m, r).known = m.known /\ After(m, r).active = m.active
        /\ After(m, r).covered = m.covered
        /\ \A t \in TurnIds : After(m, r).turns[t] =
                               IF t = r.turn THEN next ELSE m.turns[t]
    <3>1. m = [known |-> m.known, active |-> m.active, turns |-> m.turns, covered |-> m.covered]
      BY DEF Machine
    <3>2. After(m, r) = [known |-> m.known, active |-> m.active, covered |-> m.covered,
                         turns |-> [m.turns EXCEPT ![r.turn] = next]]
      BY <2>5, <3>1
    <3> QED BY <2>1, <2>4, <3>2 DEF Machine
  <2>8. r.kind \in TurnKinds \cup {"CompactionStored"}
    BY <1>4
  <2> QED BY <1>4, <2>6, <2>7, <2>8
<1>5. CASE r.kind = "CompactionStored"
  <2>1. After(m, r) = [m EXCEPT !.covered[r.session] = r.turn]
    BY <1>5, AfterByKind
  <2>2. r.turn \in TurnIds /\ r.session \in SessionIds
    BY <1>0, <1>5
  <2>3. /\ After(m, r) \in Machine
        /\ After(m, r).known = m.known /\ After(m, r).active = m.active
        /\ After(m, r).turns = m.turns
        /\ \A s \in SessionIds : After(m, r).covered[s] =
                               IF s = r.session THEN r.turn ELSE m.covered[s]
    BY <2>1, <2>2 DEF Machine
  <2> QED BY <1>5, <1>a, <2>3
<1> QED BY <1>0, <1>1, <1>2, <1>3, <1>4, <1>5 DEF Kinds

-----------------------------------------------------------------------------
(* A turn that has just begun is sound. *)
LEMMA NewTurnSound ==
    ASSUME NEW m \in Machine, NEW s \in SessionIds
    PROVE  /\ TurnSound(NewTurn(m, s))
           /\ NewTurn(m, s).status = "Running"
           /\ NewTurn(m, s).session = s
<1>1. /\ NewTurn(m, s).status = "Running"
      /\ NewTurn(m, s).session = s
      /\ NewTurn(m, s).calls = [c \in CallIds |-> NoCall]
  BY DEF NewTurn, AbsentTurn
<1>2. \A c \in CallIds : CallSound(NewTurn(m, s).calls[c], c)
  BY <1>1 DEF CallSound, NoCall
<1> QED BY <1>1, <1>2 DEF TurnSound, Terminal

(* A turn that is over is not touched by any record the machine takes. *)
LEMMA TerminalUntouched ==
    ASSUME NEW m \in Machine, NEW r \in Record, Accepts(m, r),
           NEW t \in TurnIds, m.turns[t].status \in Terminal
    PROVE  After(m, r).turns[t] = m.turns[t]
<1>1. m.turns[t].status # "absent" /\ m.turns[t].status # "Running"
  BY DEF Terminal
<1>2. r.kind \in TurnKinds /\ t = r.turn => m.turns[t].status = "Running"
  BY AcceptsByKind DEF AcceptsInTurn
<1> QED BY <1>1, <1>2, AfterFields

(* Applying an accepted record to a sound machine leaves a sound machine. *)
LEMMA AfterSound ==
    ASSUME NEW m \in Machine, NEW r \in Record, Accepts(m, r), MachineSound(m)
    PROVE  MachineSound(After(m, r))
<1> DEFINE n == After(m, r)
<1>1. /\ n \in Machine /\ m.known \subseteq n.known
      /\ n.active \in {m.active, r.session}
      /\ r.session \in n.known \/ r.kind \in TurnKinds \cup {"CompactionStored"}
      /\ r.kind \in TurnKinds \cup {"CompactionStored"} => n.active = m.active
      /\ r.session \in SessionIds
  BY AfterFields, RecordFields
<1>2. n.active # NoSession => n.active \in n.known
  BY <1>1 DEF MachineSound
<1>3. ASSUME NEW t \in TurnIds
      PROVE  /\ TurnSound(n.turns[t])
             /\ n.turns[t].status # "absent" => n.turns[t].session \in n.known
  <2>1. /\ TurnSound(m.turns[t]) /\ m.turns[t] \in Turn
        /\ m.turns[t].status # "absent" => m.turns[t].session \in m.known
    BY DEF MachineSound, Machine
  <2>2. CASE n.turns[t] = m.turns[t]
    BY <1>1, <2>1, <2>2
  <2>3. CASE r.kind = "TurnStarted" /\ n.turns[t] = NewTurn(m, r.session)
    <3>1. r.session \in m.known
      BY <2>3, AcceptsByKind
    <3> QED BY <1>1, <2>3, <3>1, NewTurnSound
  <2>4. CASE /\ r.kind \in TurnKinds /\ t = r.turn
             /\ n.turns[t] = AfterInTurn(m.turns[t], r)
    <3>1. AcceptsInTurn(m.turns[t], r)
      BY <2>4, AcceptsByKind
    <3>2. m.turns[t].status = "Running"
      BY <3>1 DEF AcceptsInTurn
    <3>3. /\ n.turns[t].session = m.turns[t].session
          /\ TurnSound(n.turns[t])
      BY <2>1, <2>4, <3>1, TurnStep
    <3> QED BY <1>1, <2>1, <3>2, <3>3
  <2> QED BY <2>2, <2>3, <2>4, AfterFields
<1>4. ASSUME NEW s \in SessionIds, n.covered[s] # NoTurn
      PROVE  /\ n.turns[n.covered[s]].session = s
             /\ n.turns[n.covered[s]].status = "Completed"
  <2> DEFINE u == n.covered[s]
  <2>1. u \in TurnIds
    BY <1>1, <1>4 DEF Machine
  <2>2. m.turns[u].session = s /\ m.turns[u].status = "Completed"
    <3>1. CASE u = m.covered[s]
      BY <1>4, <3>1 DEF MachineSound, CoverageSound
    <3>2. CASE r.kind = "CompactionStored" /\ s = r.session /\ u = r.turn
      <4>1. AcceptsCompaction(m, r)
        BY <3>2, AcceptsByKind
      <4> QED BY <3>2, <4>1 DEF AcceptsCompaction, TurnsOf
    <3> QED BY <3>1, <3>2, AfterFields
  <2>3. n.turns[u] = m.turns[u]
    BY <2>1, <2>2, TerminalUntouched DEF Terminal
  <2> QED BY <2>2, <2>3
<1> QED BY <1>2, <1>3, <1>4 DEF MachineSound, CoverageSound

(* The commands keep at most one turn running; so does any accepted record    *)
(* that starts none.                                                          *)
LEMMA AfterOneRunning ==
    ASSUME NEW m \in Machine, NEW r \in Record, Accepts(m, r), OneRunning(m),
           r.kind = "TurnStarted" => ~HasRunningTurn(m)
    PROVE  OneRunning(After(m, r))
<1> DEFINE n == After(m, r)
<1>1. ASSUME NEW t \in TurnIds, Running(n, t)
      PROVE  Running(m, t) \/ (r.kind = "TurnStarted" /\ t = r.turn)
  <2>1. CASE r.kind \in TurnKinds /\ t = r.turn
    BY <2>1, AcceptsByKind DEF AcceptsInTurn, Running
  <2> QED BY <1>1, <2>1, AfterFields DEF Running
<1> QED BY <1>1 DEF OneRunning, HasRunningTurn

(* Every record a restart appends is taken by the machine it was made for,    *)
(* and starts no turn.                                                        *)
LEMMA RecoveryAccepted ==
    ASSUME NEW m \in Machine, MachineSound(m), NEW r \in RecoveryRecords(m)
    PROVE  r \in Record /\ Accepts(m, r) /\ r.kind \in TurnKinds
<1>1. ASSUME NEW t \in TurnIds, m.turns[t].status # "absent"
      PROVE  m.turns[t].session \in SessionIds
  BY <1>1 DEF MachineSound, Machine
<1>2. CASE OpenCalls(m) # {}
  <2>1. PICK p \in OpenCalls(m) : r = RecoverCall(m, p[1], p[2])
    BY <1>2 DEF RecoveryRecords
  <2> DEFINE t == p[1]
             c == p[2]
             call == m.turns[t].calls[c]
             res == IF call.started THEN "Indeterminate" ELSE "Cancelled"
  <2>2. t \in TurnIds /\ c \in CallIds /\ Open(call)
    BY <2>1 DEF OpenCalls
  <2>3. m.turns[t] \in Turn /\ TurnSound(m.turns[t])
    BY <2>2 DEF Machine, MachineSound
  <2>4. m.turns[t].status = "Running"
    <3>1. m.turns[t].status \notin Terminal
      BY <2>2, <2>3 DEF TurnSound, HasOpenCall
    <3>2. m.turns[t].status # "absent"
      <4>1. call.requested
        BY <2>2 DEF Open
      <4>2. ~NoCall.requested
        BY DEF NoCall
      <4>3. AbsentTurn.calls[c] = NoCall
        BY <2>2 DEF AbsentTurn
      <4> QED BY <2>3, <4>1, <4>2, <4>3 DEF TurnSound
    <3> QED BY <2>3, <3>1, <3>2 DEF Turn, TurnStatus
  <2>5. m.turns[t].session \in SessionIds
    BY <1>1, <2>2, <2>4
  <2>6. r = ToolTerminal(m.turns[t].session, t, c, res)
    BY <2>1 DEF RecoverCall
  <2>7. res \in ToolTerminalStatus
    BY DEF ToolTerminalStatus
  <2>8. /\ r.kind = "ToolTerminal" /\ r.session = m.turns[t].session
        /\ r.turn = t /\ r.call = c /\ r.result = res
    BY <2>6 DEF ToolTerminal
  <2> HIDE DEF res
  <2>9. r \in Record
    BY <2>2, <2>5, <2>6, <2>7 DEF Record
  <2>10. AcceptsTool(call, r)
    BY <2>2, <2>8 DEF AcceptsTool, TerminalIsLegal, Open, res
  <2>11. r.kind \in ToolKinds /\ r.kind \notin TerminalKinds /\ r.kind \in TurnKinds
    BY <2>8 DEF ToolKinds, TerminalKinds, TurnKinds
  <2>12. AcceptsInTurn(m.turns[r.turn], r)
    BY <2>4, <2>8, <2>10, <2>11 DEF AcceptsInTurn
  <2> QED BY <2>8, <2>9, <2>11, <2>12 DEF Accepts
<1>3. CASE OpenCalls(m) = {}
  <2>1. PICK t \in TurnIds : Running(m, t) /\ r = RecoveryApplied(m.turns[t].session, t)
    BY <1>3 DEF RecoveryRecords
  <2>2. m.turns[t].session \in SessionIds
    BY <1>1, <2>1 DEF Running
  <2>3. r \in Record
    BY <2>1, <2>2 DEF Record
  <2>4. r.kind = "RecoveryApplied" /\ r.turn = t /\ r.session = m.turns[t].session
    BY <2>1 DEF RecoveryApplied
  <2>5. r.kind \notin ToolKinds /\ r.kind \in TurnKinds
    BY <2>4 DEF ToolKinds, TerminalKinds, TurnKinds
  <2>6. ~HasOpenCall(m.turns[t])
    <3>1. ASSUME NEW c \in CallIds, Open(m.turns[t].calls[c]) PROVE FALSE
      <4>1. <<t, c>> \in TurnIds \X CallIds
        OBVIOUS
      <4>2. <<t, c>>[1] = t /\ <<t, c>>[2] = c
        OBVIOUS
      <4>3. <<t, c>> \in OpenCalls(m)
        BY <3>1, <4>1, <4>2, Zenon DEF OpenCalls
      <4> QED BY <1>3, <4>3
    <3> QED BY <3>1 DEF HasOpenCall
  <2>7. AcceptsInTurn(m.turns[r.turn], r)
    BY <2>1, <2>4, <2>5, <2>6 DEF AcceptsInTurn, Running
  <2> QED BY <2>3, <2>4, <2>5, <2>7 DEF Accepts
<1> QED BY <1>2, <1>3

-----------------------------------------------------------------------------
(* A record moves the one call it names, if it names any, and no other.       *)
LEMMA CallAfter ==
    ASSUME NEW m \in Machine, MachineSound(m), NEW r \in Record, Accepts(m, r),
           NEW t \in TurnIds, NEW c \in CallIds
    PROVE  LET old == m.turns[t].calls[c]
               new == After(m, r).turns[t].calls[c]
           IN  /\ ~(r.kind \in ToolKinds /\ t = r.turn /\ c = r.call) => new = old
               /\ r.kind \in ToolKinds /\ t = r.turn /\ c = r.call =>
                    AcceptsTool(old, r) /\ new = AfterTool(old, r)
<1> DEFINE old == m.turns[t].calls[c]
           new == After(m, r).turns[t].calls[c]
<1>0. /\ m.turns[t] \in Turn
      /\ r.kind \in ToolKinds => r.call \in CallIds
  BY RecordFields DEF Machine
<1>1. CASE After(m, r).turns[t] = m.turns[t] /\ ~(r.kind \in TurnKinds /\ t = r.turn)
  BY <1>1 DEF TurnKinds
<1>2. CASE /\ r.kind = "TurnStarted" /\ t = r.turn
           /\ m.turns[t].status = "absent"
           /\ After(m, r).turns[t] = NewTurn(m, r.session)
  <2>1. m.turns[t] = AbsentTurn
    BY <1>2 DEF MachineSound, TurnSound
  <2>2. old = NoCall
    BY <2>1 DEF AbsentTurn
  <2>3. NewTurn(m, r.session).calls = AbsentTurn.calls
    BY DEF NewTurn, AbsentTurn
  <2>4. new = NoCall
    BY <1>2, <2>3 DEF AbsentTurn
  <2> QED BY <1>2, <2>2, <2>4 DEF ToolKinds
<1>3. CASE r.kind \in TurnKinds /\ t = r.turn
  <2>1. After(m, r).turns[t] = AfterInTurn(m.turns[t], r)
    <3>1. m.turns[t].status = "Running"
      BY <1>3, AcceptsByKind DEF AcceptsInTurn
    <3>2. After(m, r) = [m EXCEPT !.turns[r.turn] = AfterInTurn(@, r)]
      BY <1>3, AfterByKind
    <3>3. After(m, r).turns = [m.turns EXCEPT ![r.turn] = AfterInTurn(@, r)]
      BY <3>2 DEF Machine
    <3> QED BY <1>3, <3>3 DEF Machine
  <2>2. AcceptsInTurn(m.turns[t], r)
    BY <1>3, AcceptsByKind
  <2>3. CASE r.kind = "TurnDelta"
    <3>1. AfterInTurn(m.turns[t], r) = [m.turns[t] EXCEPT !.spoke = TRUE]
      BY <2>3 DEF AfterInTurn, ToolKinds, TerminalKinds
    <3> QED BY <1>0, <2>1, <2>3, <3>1 DEF Turn, ToolKinds
  <2>4. CASE r.kind \in TerminalKinds
    <3>1. AfterInTurn(m.turns[t], r) = [m.turns[t] EXCEPT !.status = r.outcome]
      BY <2>4 DEF AfterInTurn, ToolKinds, TerminalKinds
    <3> QED BY <1>0, <2>1, <2>4, <3>1 DEF Turn, ToolKinds, TerminalKinds
  <2>5. CASE r.kind \in ToolKinds
    <3> DEFINE next == AfterTool(m.turns[t].calls[r.call], r)
    <3>1. AfterInTurn(m.turns[t], r) = [m.turns[t] EXCEPT !.calls[r.call] = next]
      BY <2>5 DEF AfterInTurn, ToolKinds, TerminalKinds
    <3>2. AcceptsTool(m.turns[t].calls[r.call], r)
      BY <2>2, <2>5 DEF AcceptsInTurn
    <3>3. c = r.call => next = AfterTool(old, r)
      OBVIOUS
    <3> HIDE DEF next
    <3>4. new = IF c = r.call THEN next ELSE old
      BY <1>0, <2>1, <2>5, <3>1 DEF Turn
    <3> QED BY <1>3, <2>5, <3>2, <3>3, <3>4
  <2> QED BY <1>3, <2>3, <2>4, <2>5 DEF TurnKinds
<1> QED BY <1>1, <1>2, <1>3, AfterFields

(* The fields of a call after a record about it.                              *)
LEMMA AfterToolFields ==
    ASSUME NEW call \in Call, NEW r, r.kind \in ToolKinds
    PROVE  LET new == AfterTool(call, r) IN
           /\ new.requested <=> (call.requested \/ r.kind = "ToolRequested")
           /\ new.decision = IF r.kind = "ToolDecisionRecorded" THEN r.decision
                                                               ELSE call.decision
           /\ new.started <=> (call.started \/ r.kind = "ToolStarted")
           /\ new.result = IF r.kind = "ToolTerminal" THEN r.result ELSE call.result
<1>1. CASE r.kind = "ToolRequested"
  <2>1. AfterTool(call, r) = [call EXCEPT !.requested = TRUE]
    BY <1>1 DEF AfterTool
  <2> QED BY <1>1, <2>1 DEF Call
<1>2. CASE r.kind = "ToolDecisionRecorded"
  <2>1. AfterTool(call, r) = [call EXCEPT !.decision = r.decision]
    BY <1>2 DEF AfterTool
  <2> QED BY <1>2, <2>1 DEF Call
<1>3. CASE r.kind = "ToolStarted"
  <2>1. AfterTool(call, r) = [call EXCEPT !.started = TRUE]
    BY <1>3 DEF AfterTool
  <2> QED BY <1>3, <2>1 DEF Call
<1>4. CASE r.kind = "ToolTerminal"
  <2>1. AfterTool(call, r) = [call EXCEPT !.result = r.result]
    BY <1>4 DEF AfterTool
  <2> QED BY <1>4, <2>1 DEF Call
<1> QED BY <1>1, <1>2, <1>3, <1>4 DEF ToolKinds

(* Only a terminal record ends a running turn, and nothing moves it to        *)
(* another session.                                                           *)
LEMMA RunningAfter ==
    ASSUME NEW m \in Machine, NEW r \in Record, Accepts(m, r),
           NEW t \in TurnIds, m.turns[t].status = "Running",
           r.kind \notin TerminalKinds
    PROVE  /\ After(m, r).turns[t].status = "Running"
           /\ After(m, r).turns[t].session = m.turns[t].session
<1>1. m.turns[t] \in Turn
  BY DEF Machine
<1>2. CASE After(m, r).turns[t] = m.turns[t]
  BY <1>2
<1>3. CASE /\ r.kind \in TurnKinds /\ t = r.turn
           /\ After(m, r).turns[t] = AfterInTurn(m.turns[t], r)
  <2>1. CASE r.kind = "TurnDelta"
    <3>1. AfterInTurn(m.turns[t], r) = [m.turns[t] EXCEPT !.spoke = TRUE]
      BY <2>1 DEF AfterInTurn, ToolKinds, TerminalKinds
    <3> QED BY <1>1, <1>3, <3>1 DEF Turn
  <2>2. CASE r.kind \in ToolKinds
    <3> DEFINE next == AfterTool(m.turns[t].calls[r.call], r)
    <3>1. AfterInTurn(m.turns[t], r) = [m.turns[t] EXCEPT !.calls[r.call] = next]
      BY <2>2 DEF AfterInTurn, ToolKinds, TerminalKinds
    <3> HIDE DEF next
    <3> QED BY <1>1, <1>3, <3>1 DEF Turn
  <2> QED BY <1>3, <2>1, <2>2 DEF TurnKinds
<1> QED BY <1>2, <1>3, AfterFields

(* A restart says of a call it closes that it was cancelled only if it was    *)
(* never started.                                                             *)
LEMMA RecoverySays ==
    ASSUME NEW m, NEW r \in RecoveryRecords(m), r.kind = "ToolTerminal"
    PROVE  /\ r.result \in {"Indeterminate", "Cancelled"}
           /\ r.result = "Cancelled" => ~m.turns[r.turn].calls[r.call].started
<1>1. CASE OpenCalls(m) # {}
  <2>1. PICK p \in OpenCalls(m) : r = RecoverCall(m, p[1], p[2])
    BY <1>1 DEF RecoveryRecords
  <2>2. /\ r.turn = p[1] /\ r.call = p[2]
        /\ r.result = IF m.turns[p[1]].calls[p[2]].started THEN "Indeterminate"
                                                           ELSE "Cancelled"
    BY <2>1 DEF RecoverCall, ToolTerminal
  <2> QED BY <2>2
<1>2. CASE OpenCalls(m) = {}
  BY <1>2 DEF RecoveryRecords, RecoveryApplied
<1> QED BY <1>1, <1>2

-----------------------------------------------------------------------------
(* The inductive invariant: the type, soundness and the single running turn   *)
(* hold together; recovery needs soundness to be legal at all.                *)
LedgerInv == LedgerTypeOK /\ Sound /\ OneRunningTurn

(* Every step that moves the view applies one accepted record to it, and a    *)
(* record that starts a turn finds none running.                              *)
LEMMA LedgerStepIsRecord ==
    ASSUME LedgerInv, LedgerNext, view' # view
    PROVE  \E r \in Record : /\ Accepts(view, r) /\ view' = After(view, r)
                             /\ r.kind = "TurnStarted" => ~HasRunningTurn(view)
<1>1. ASSUME NEW r \in Record, Issues(view, r), view' = After(view, r)
      PROVE  /\ Accepts(view, r)
             /\ r.kind = "TurnStarted" => ~HasRunningTurn(view)
  BY <1>1 DEF Issues
<1>2. CASE LedgerCommit
  BY <1>1, <1>2 DEF LedgerCommit
<1>3. CASE LedgerCrash
  BY <1>1, <1>3 DEF LedgerCrash
<1>4. CASE LedgerRecover
  <2>1. PICK r \in RecoveryRecords(view) : view' = After(view, r)
    BY <1>4 DEF LedgerRecover
  <2>2. r \in Record /\ Accepts(view, r) /\ r.kind \in TurnKinds
    BY RecoveryAccepted DEF LedgerInv, LedgerTypeOK, Sound
  <2> QED BY <2>1, <2>2 DEF TurnKinds, ToolKinds, TerminalKinds
<1>5. CASE LedgerServe
  BY <1>5 DEF LedgerServe
<1> QED BY <1>2, <1>3, <1>4, <1>5 DEF LedgerNext

(* The empty ledger satisfies the invariant.                                  *)
LEMMA LedgerInvInit == LedgerInit => LedgerInv
BY EmptyIsSound DEF LedgerInit, LedgerInv, LedgerTypeOK, Sound, OneRunningTurn

(* Every step of the ledger keeps it.                                         *)
LEMMA LedgerInvStep == LedgerInv /\ [LedgerNext]_ledgerVars => LedgerInv'
<1> SUFFICES ASSUME LedgerInv, [LedgerNext]_ledgerVars PROVE LedgerInv'
  OBVIOUS
<1>1. serving' \in BOOLEAN
  BY DEF LedgerInv, LedgerTypeOK, LedgerNext, LedgerCommit, LedgerCrash, LedgerRecover, LedgerServe, ledgerVars
<1>2. CASE view' = view
  BY <1>1, <1>2 DEF LedgerInv, LedgerTypeOK, Sound, OneRunningTurn
<1>3. CASE view' # view
  <2>1. LedgerNext
    BY <1>3 DEF ledgerVars
  <2>2. PICK r \in Record : /\ Accepts(view, r) /\ view' = After(view, r)
                            /\ r.kind = "TurnStarted" => ~HasRunningTurn(view)
    BY <1>3, <2>1, LedgerStepIsRecord
  <2>3. view' \in Machine
    BY <2>2, AfterFields DEF LedgerInv, LedgerTypeOK
  <2>4. MachineSound(view')
    BY <2>2, AfterSound DEF LedgerInv, LedgerTypeOK, Sound
  <2>5. OneRunning(view')
    BY <2>2, AfterOneRunning DEF LedgerInv, LedgerTypeOK, OneRunningTurn
  <2> QED BY <1>1, <2>3, <2>4, <2>5 DEF LedgerInv, LedgerTypeOK, Sound, OneRunningTurn
<1> QED BY <1>2, <1>3

(* It holds in every behaviour of the ledger.                                 *)
LEMMA LedgerInvariance == LedgerSpec => []LedgerInv
BY LedgerInvInit, LedgerInvStep, PTL DEF LedgerSpec

(* The ledger always holds a machine of the right type. *)
THEOREM LedgerTypeCorrect == LedgerSpec => []LedgerTypeOK
BY LedgerInvariance, PTL DEF LedgerInv

(* Whatever is committed, lost in a crash or recovered, the machine of the    *)
(* ledger is sound.                                                           *)
THEOREM AlwaysSound == LedgerSpec => []Sound
BY LedgerInvariance, PTL DEF LedgerInv

(* Over all sessions, crashes and restarts at most one turn runs.             *)
THEOREM SingleRunningTurn == LedgerSpec => []OneRunningTurn
BY LedgerInvariance, PTL DEF LedgerInv

(* A turn that is over is immutable for ever.                                 *)
THEOREM TerminalTurnsStay == LedgerSpec => TerminalTurnsFrozen
<1> DEFINE Frozen == \A t \in TurnIds :
             view.turns[t].status \in Terminal => view'.turns[t] = view.turns[t]
<1>1. LedgerInv /\ [LedgerNext]_ledgerVars => [Frozen]_ledgerVars
  <2> SUFFICES ASSUME LedgerInv, LedgerNext, view' # view PROVE Frozen
    BY DEF ledgerVars
  <2>1. PICK r \in Record : Accepts(view, r) /\ view' = After(view, r)
    BY LedgerStepIsRecord
  <2> QED BY <2>1, TerminalUntouched DEF LedgerInv, LedgerTypeOK
<1> QED BY <1>1, LedgerInvariance, PTL DEF LedgerSpec, TerminalTurnsFrozen
=============================================================================
