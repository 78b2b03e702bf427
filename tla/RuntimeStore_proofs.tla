------------------------- MODULE RuntimeStore_proofs ------------------------
(***************************************************************************)
(* Proofs about RuntimeStore, for every set of sessions, turns, calls and  *)
(* fragments and every bound: what holds with failed writes, what holds    *)
(* without, and that the journal implements the ledger.                    *)
(***************************************************************************)
EXTENDS RuntimeStore, DurableSession_proofs, WellFoundedInduction

(* The history is what replaying the journal gives, line after line, and      *)
(* every machine in it is sound.                                              *)
Replays ==
    /\ hist[1] = EmptyMachine
    /\ \A i \in DOMAIN lines :
         hist[i + 1] = IF Accepts(hist[i], lines[i])
                       THEN After(hist[i], lines[i]) ELSE hist[i]
    /\ \A i \in DOMAIN hist : MachineSound(hist[i])

(* What the machine in memory is in each phase; an `open` that has got past   *)
(* the repair works on a journal that ends in a newline.                      *)
MemoryFollows ==
    /\ phase \in {"loading", "recovering"} => tail = NoFragment
    /\ phase = "loading" => cursor <= Len(lines) /\ mem = hist[cursor + 1]
    /\ phase = "recovering" => mem = Durable

(* A finalized session has no turn left that recovery would have to close.    *)
FinalizedOver ==
    \A s \in finalized, t \in TurnIds :
        Durable.turns[t].session = s => ~Running(Durable, t)

(* Without failed writes every line is taken by the machine before it, and    *)
(* while the store serves, the memory is the end of the history.              *)
WritesSucceed ==
    ~IOErrors =>
        /\ ~Unreadable
        /\ phase = "open" => tail = NoFragment /\ mem = Durable

(* The inductive invariant.  MemorySound alone is not one: a replay keeps the *)
(* machine sound only because the history it walks through is.                *)
IInv == TypeOK /\ MemorySound /\ Replays /\ MemoryFollows /\ FinalizedOver
        /\ WritesSucceed

-----------------------------------------------------------------------------
(* Where the journal and its history end.                                     *)
LEMMA Ends ==
    ASSUME TypeOK
    PROVE  /\ Len(lines) \in Nat /\ DOMAIN lines = 1 .. Len(lines)
           /\ DOMAIN hist = 1 .. (Len(lines) + 1)
           /\ Durable = hist[Len(lines) + 1] /\ Durable \in Machine
           /\ \A i \in DOMAIN lines : lines[i] \in Record \cup {Bad}
           /\ \A i \in DOMAIN hist : hist[i] \in Machine
BY DEF TypeOK, Durable

(* No machine takes a malformed line, and no record is one.                   *)
LEMMA BadIsRefused ==
    /\ \A m : ~Accepts(m, Bad)
    /\ Bad \notin Record
<1>1. Bad.kind = "malformed"
  BY DEF Bad
<1>2. "malformed" \notin Kinds
  BY DEF Kinds, TurnKinds, ToolKinds, TerminalKinds
<1>3. Bad \notin Record
  BY <1>1, <1>2, RecordFields
<1> QED BY <1>1, <1>2, <1>3 DEF Accepts, Kinds

(* What writing one line does to the journal and its history.                 *)
LEMMA Written ==
    ASSUME TypeOK, Replays, NEW r \in Record, WriteLine(r)
    PROVE  /\ lines' \in Seq(Record \cup {Bad}) /\ hist' \in Seq(Machine)
           /\ Len(lines') = Len(lines) + 1 /\ Len(hist') = Len(lines') + 1
           /\ \A i \in DOMAIN lines : lines'[i] = lines[i]
           /\ \A i \in DOMAIN hist : hist'[i] = hist[i]
           /\ lines'[Len(lines) + 1] = IF tail = NoFragment THEN r ELSE Bad
           /\ Durable' = IF tail = NoFragment /\ Accepts(Durable, r)
                         THEN After(Durable, r) ELSE Durable
           /\ Replays'
<1> DEFINE line == IF tail = NoFragment THEN r ELSE Bad
           next == IF tail = NoFragment /\ Accepts(Durable, r)
                   THEN After(Durable, r) ELSE Durable
<1>1. Durable \in Machine /\ MachineSound(Durable)
  BY Ends DEF Replays
<1>2. next \in Machine /\ MachineSound(next)
  BY <1>1, AfterFields, AfterSound
<1>3. next = IF Accepts(Durable, line) THEN After(Durable, line) ELSE Durable
  BY BadIsRefused
<1>4. lines' = Append(lines, line) /\ hist' = Append(hist, next)
  BY DEF WriteLine
<1>5. line \in Record \cup {Bad}
  OBVIOUS
<1> HIDE DEF line, next
<1>6. /\ lines' \in Seq(Record \cup {Bad}) /\ Len(lines') = Len(lines) + 1
      /\ \A i \in DOMAIN lines : lines'[i] = lines[i]
      /\ lines'[Len(lines) + 1] = line
      /\ DOMAIN lines' = 1 .. (Len(lines) + 1)
  BY <1>4, <1>5 DEF TypeOK
<1>7. /\ hist' \in Seq(Machine) /\ Len(hist') = Len(lines') + 1
      /\ \A i \in DOMAIN hist : hist'[i] = hist[i]
      /\ hist'[Len(lines) + 2] = next
      /\ DOMAIN hist' = 1 .. (Len(lines) + 2)
  BY <1>2, <1>4, <1>6 DEF TypeOK
<1>8. Durable' = next
  BY <1>6, <1>7, Ends DEF Durable
<1>9. Replays'
  <2>1. hist'[1] = EmptyMachine
    BY <1>7, Ends DEF Replays
  <2>2. ASSUME NEW i \in DOMAIN lines'
        PROVE  hist'[i + 1] = IF Accepts(hist'[i], lines'[i])
                              THEN After(hist'[i], lines'[i]) ELSE hist'[i]
    <3>1. CASE i \in DOMAIN lines
      BY <1>6, <1>7, <3>1, Ends DEF Replays
    <3>2. CASE i = Len(lines) + 1
      BY <1>3, <1>6, <1>7, <3>2, Ends
    <3> QED BY <1>6, <3>1, <3>2, Ends
  <2>3. ASSUME NEW i \in DOMAIN hist' PROVE MachineSound(hist'[i])
    BY <1>2, <1>7, Ends DEF Replays
  <2> QED BY <2>1, <2>2, <2>3 DEF Replays
<1> QED BY <1>6, <1>7, <1>8, <1>9 DEF line, next

-----------------------------------------------------------------------------
(* Every command other than finalizing puts one record of its own.            *)
LEMMA CommandIsPut ==
    ASSUME TypeOK, MemorySound, Commands, ~FinalizeSession
    PROVE  \E r \in Record : Put(r)
<1>1. ASSUME NEW t \in TurnIds, Running(mem, t)
      PROVE  mem.turns[t].session \in SessionIds
  BY <1>1 DEF TypeOK, MemorySound, MachineSound, Machine, Running
<1>2. mem.active # NoSession => mem.active \in SessionIds
  BY DEF TypeOK, Machine
<1>3. ASSUME NEW s \in SessionIds, CreateSession(s) \/ Resume(s)
      PROVE  \E r \in Record : Put(r)
  <2>1. SessionCreated(s) \in Record /\ SessionActivated(s) \in Record
    BY DEF Record
  <2> QED BY <1>3, <2>1 DEF CreateSession, Resume
<1>4. ASSUME NEW t \in TurnIds, Continue(t) \/ RecordDelta(t) \/ CompactActive(t)
      PROVE  \E r \in Record : Put(r)
  <2>1. ASSUME NEW s \in SessionIds
        PROVE  /\ TurnStarted(s, t) \in Record /\ TurnDelta(s, t) \in Record
               /\ CompactionStored(s, t) \in Record
    BY DEF Record
  <2> QED BY <1>1, <1>2, <1>4, <2>1 DEF Continue, RecordDelta, CompactActive
<1>5. ASSUME NEW t \in TurnIds, NEW o \in Terminal, FinalizeTurn(t, o)
      PROVE  \E r \in Record : Put(r)
  <2>1. TurnTerminal(mem.turns[t].session, t, o) \in Record
    BY <1>1, <1>5 DEF FinalizeTurn, Record
  <2> QED BY <1>5, <2>1 DEF FinalizeTurn
<1>6. ASSUME NEW t \in TurnIds, NEW c \in CallIds,
             RecordToolRequested(t, c) \/ RecordToolStarted(t, c)
      PROVE  \E r \in Record : Put(r)
  <2>1. ASSUME NEW s \in SessionIds
        PROVE  ToolRequested(s, t, c) \in Record /\ ToolStarted(s, t, c) \in Record
    BY DEF Record
  <2> QED BY <1>1, <1>6, <2>1 DEF RecordToolRequested, RecordToolStarted
<1>7. ASSUME NEW t \in TurnIds, NEW c \in CallIds,
             NEW d \in {"Approved", "Rejected"}, RecordToolDecision(t, c, d)
      PROVE  \E r \in Record : Put(r)
  <2>1. ToolDecided(mem.turns[t].session, t, c, d) \in Record
    BY <1>1, <1>7 DEF RecordToolDecision, Record
  <2> QED BY <1>7, <2>1 DEF RecordToolDecision
<1>8. ASSUME NEW t \in TurnIds, NEW c \in CallIds,
             NEW x \in ToolTerminalStatus, RecordToolTerminal(t, c, x)
      PROVE  \E r \in Record : Put(r)
  <2>1. ToolTerminal(mem.turns[t].session, t, c, x) \in Record
    BY <1>1, <1>8 DEF RecordToolTerminal, Record
  <2> QED BY <1>8, <2>1 DEF RecordToolTerminal
<1> QED BY <1>3, <1>4, <1>5, <1>6, <1>7, <1>8 DEF Commands

-----------------------------------------------------------------------------
(* The part of the invariant that is about the disk, and that only the writes *)
(* to it can disturb.                                                         *)
DiskInv ==
    /\ lines \in Seq(Record \cup {Bad})
    /\ tail \in Fragments \cup {NoFragment}
    /\ repairs \subseteq [at : Nat, text : Fragments \cup {"incomplete"}]
    /\ finalized \subseteq SessionIds
    /\ hist \in Seq(Machine) /\ Len(hist) = Len(lines) + 1
    /\ Replays /\ FinalizedOver
    /\ ~IOErrors => ~Unreadable

(* The rest of it: the owning process, beside a disk that is in order.        *)
ProcessInv ==
    /\ phase \in {"closed", "loading", "recovering", "open"}
    /\ cursor \in Nat /\ crashes \in Nat
    /\ mem \in Machine
    /\ MemorySound /\ MemoryFollows
    /\ ~IOErrors /\ phase = "open" => tail = NoFragment /\ mem = Durable

(* The two together are the invariant, before a step and after it.            *)
LEMMA Parts == (IInv <=> DiskInv /\ ProcessInv) /\ (IInv' <=> DiskInv' /\ ProcessInv')
BY DEF IInv, DiskInv, ProcessInv, TypeOK, WritesSucceed

(* A finalized session stays over: a line moves turns of its own session only.*)
LEMMA OverStays ==
    ASSUME NEW m \in Machine, NEW r \in Record, Accepts(m, r),
           NEW t \in TurnIds, Running(After(m, r), t),
           m.turns[t].session = After(m, r).turns[t].session => ~Running(m, t)
    PROVE  After(m, r).turns[t].session = r.session
<1>1. CASE After(m, r).turns[t] = m.turns[t]
  BY <1>1 DEF Running
<1>2. CASE r.kind = "TurnStarted" /\ After(m, r).turns[t] = NewTurn(m, r.session)
  BY <1>2, RecordFields, NewTurnSound
<1>3. CASE /\ r.kind \in TurnKinds /\ t = r.turn
           /\ After(m, r).turns[t] = AfterInTurn(m.turns[t], r)
  <2>1. AcceptsInTurn(m.turns[t], r) /\ m.turns[t] \in Turn
    BY <1>3, AcceptsByKind DEF Machine
  <2> QED BY <1>3, <2>1, TurnStep DEF AcceptsInTurn, Running
<1> QED BY <1>1, <1>2, <1>3, AfterFields

(* A line of a session that is not finalized keeps the disk in order.         *)
LEMMA LineStep ==
    ASSUME IInv, NEW r \in Record, WriteLine(r), r.session \notin finalized,
           ~IOErrors => tail = NoFragment /\ Accepts(Durable, r)
    PROVE  DiskInv'
<1>1. TypeOK /\ Replays /\ FinalizedOver /\ WritesSucceed
  BY DEF IInv
<1>2. UNCHANGED <<repairs, finalized>> /\ tail' = NoFragment
  BY DEF WriteLine
<1>3. FinalizedOver'
  <2> SUFFICES ASSUME NEW s \in finalized, NEW t \in TurnIds,
                      Durable'.turns[t].session = s, Running(Durable', t)
               PROVE  FALSE
    BY <1>2 DEF FinalizedOver
  <2>1. Durable \in Machine /\ (Durable.turns[t].session = s => ~Running(Durable, t))
    BY <1>1, Ends DEF FinalizedOver
  <2>2. CASE Durable' = Durable
    BY <2>1, <2>2
  <2>3. CASE Accepts(Durable, r) /\ Durable' = After(Durable, r)
    BY <2>1, <2>3, OverStays
  <2> QED BY <1>1, <2>2, <2>3, Written
<1>4. ~IOErrors => ~Unreadable'
  <2> SUFFICES ASSUME ~IOErrors, NEW i \in DOMAIN lines'
               PROVE  Accepts(hist'[i], lines'[i])
    BY DEF Unreadable
  <2>1. DOMAIN lines' = 1 .. (Len(lines) + 1)
    BY <1>1, Written
  <2>2. CASE i \in DOMAIN lines
    <3>1. Accepts(hist[i], lines[i])
      BY <1>1, <2>2 DEF WritesSucceed, Unreadable
    <3> QED BY <1>1, <2>2, <3>1, Written, Ends
  <2>3. CASE i = Len(lines) + 1
    <3>1. hist'[i] = Durable /\ lines'[i] = r
      BY <1>1, <2>3, Written, Ends
    <3> QED BY <3>1
  <2> QED BY <1>1, <2>1, <2>2, <2>3, Ends
<1> QED BY <1>1, <1>2, <1>3, <1>4, Written DEF DiskInv, TypeOK

(* A torn line touches nothing but the tail.                                  *)
LEMMA TearStep == ASSUME IInv, TearLine PROVE DiskInv'
BY Parts, FragmentAssumption DEF TearLine, DiskInv, Replays, FinalizedOver, Durable, Unreadable

(* A dead process keeps no promise, it has no memory left.                    *)
LEMMA DieStep == ASSUME IInv, Die PROVE ProcessInv'
BY EmptyIsSound, BoundsAssumption
   DEF Die, IInv, TypeOK, ProcessInv, MemorySound, MemoryFollows

-----------------------------------------------------------------------------
(* Commands keep the invariant. *)
LEMMA PutStep == ASSUME IInv, NEW r \in Record, Put(r) PROVE IInv'
<1>1. /\ phase = "open" /\ Issues(mem, r) /\ Accepts(mem, r)
      /\ r.session \notin finalized
      /\ r.kind = "TurnStarted" => ~HasRunningTurn(mem)
  BY DEF Put, Issues
<1>2. /\ TypeOK /\ MemorySound /\ Replays
      /\ ~IOErrors => tail = NoFragment /\ mem = Durable
  BY <1>1 DEF IInv, WritesSucceed
<1>3. WriteLine(r) => DiskInv'
  BY <1>1, <1>2, LineStep
<1>4. CASE Acknowledge(r)
  <2>1. mem' = After(mem, r) /\ UNCHANGED <<phase, cursor, crashes>> /\ WriteLine(r)
    BY <1>4 DEF Acknowledge
  <2>2. mem' \in Machine /\ MachineSound(mem') /\ OneRunning(mem')
    BY <1>1, <1>2, <2>1, AfterFields, AfterSound, AfterOneRunning
       DEF TypeOK, MemorySound
  <2>3. ~IOErrors => tail' = NoFragment /\ mem' = Durable'
    BY <1>1, <1>2, <2>1, Written DEF WriteLine
  <2>4. ProcessInv'
    BY <1>1, <1>2, <2>1, <2>2, <2>3
       DEF ProcessInv, TypeOK, MemorySound, MemoryFollows
  <2> QED BY <1>3, <2>1, <2>4, Parts
<1>5. CASE CrashInside(r)
  BY <1>3, <1>5, TearStep, DieStep, Parts DEF CrashInside
<1>6. CASE FailInside(r)
  <2>1. IOErrors /\ UNCHANGED <<phase, cursor, mem, crashes>>
    BY <1>6 DEF FailInside
  <2>2. ProcessInv'
    BY <1>1, <1>2, <2>1 DEF ProcessInv, TypeOK, MemorySound, MemoryFollows
  <2> QED BY <1>3, <1>6, <2>2, TearStep, Parts DEF FailInside
<1> QED BY <1>4, <1>5, <1>6 DEF Put

(* Recovery keeps it: its records are taken, and none is of a finalized       *)
(* session although the marker is not asked for.                              *)
LEMMA RecordOfRecovery ==
    ASSUME IInv, phase = "recovering", NEW r \in RecoveryRecords(mem)
    PROVE  /\ mem = Durable /\ tail = NoFragment
           /\ r \in Record /\ Accepts(mem, r) /\ r.kind \in TurnKinds
           /\ r.session \notin finalized
<1>1. /\ mem = Durable /\ tail = NoFragment
      /\ mem \in Machine /\ MachineSound(mem) /\ FinalizedOver
  BY DEF IInv, MemoryFollows, TypeOK, MemorySound
<1>2. r \in Record /\ Accepts(mem, r) /\ r.kind \in TurnKinds
  BY <1>1, RecoveryAccepted
<1>3. r.turn \in TurnIds
  BY <1>2, RecordFields DEF TurnKinds, ToolKinds, TerminalKinds
<1>4. Running(mem, r.turn) /\ mem.turns[r.turn].session = r.session
  BY <1>2, AcceptsByKind DEF AcceptsInTurn, Running
<1> QED BY <1>1, <1>2, <1>3, <1>4 DEF FinalizedOver

LEMMA RecoveryStep ==
    ASSUME IInv, phase = "recovering", NEW r \in RecoveryRecords(mem),
           Acknowledge(r) \/ CrashInside(r)
    PROVE  IInv'
<1>1. /\ mem = Durable /\ tail = NoFragment
      /\ r \in Record /\ Accepts(mem, r) /\ r.session \notin finalized
  BY RecordOfRecovery
<1>2. TypeOK /\ MemorySound /\ Replays
  BY DEF IInv
<1>3. WriteLine(r) => DiskInv'
  BY <1>1, LineStep
<1>4. CASE Acknowledge(r)
  <2>1. mem' = After(mem, r) /\ UNCHANGED <<phase, cursor, crashes>> /\ WriteLine(r)
    BY <1>4 DEF Acknowledge
  <2>2. mem' \in Machine /\ MachineSound(mem')
    BY <1>1, <1>2, <2>1, AfterFields, AfterSound DEF TypeOK, MemorySound
  <2>3. tail' = NoFragment /\ mem' = Durable'
    BY <1>1, <1>2, <2>1, Written DEF WriteLine
  <2>4. ProcessInv'
    BY <1>2, <2>1, <2>2, <2>3 DEF ProcessInv, TypeOK, MemorySound, MemoryFollows
  <2> QED BY <1>3, <2>1, <2>4, Parts
<1>5. CASE CrashInside(r)
  BY <1>3, <1>5, TearStep, DieStep, Parts DEF CrashInside
<1> QED BY <1>4, <1>5

(* Finalizing looks at the journal on disk and finds no running turn there.   *)
LEMMA FinalizeStep == ASSUME IInv, FinalizeSession PROVE IInv'
<1> DEFINE s == mem.active
<1>1. /\ finalized' = finalized \cup {s}
      /\ \A t \in TurnsOf(Durable, s) : ~Running(Durable, t)
      /\ UNCHANGED <<lines, tail, repairs, hist, phase, cursor, mem, crashes>>
  BY DEF FinalizeSession
<1>2. s \in SessionIds
  BY DEF FinalizeSession, IInv, TypeOK, Machine
<1>3. Durable' = Durable
  BY <1>1 DEF Durable
<1>4. FinalizedOver'
  <2>1. \A t \in TurnIds : Durable.turns[t].session = s => ~Running(Durable, t)
    BY <1>1 DEF TurnsOf, Running
  <2> QED BY <1>1, <1>3, <2>1 DEF FinalizedOver, IInv, Running
<1>5. DiskInv'
  BY <1>1, <1>2, <1>4, Parts DEF DiskInv, Replays, Unreadable
<1>6. ProcessInv'
  BY <1>1, <1>3, Parts DEF ProcessInv, MemorySound, MemoryFollows
<1> QED BY <1>5, <1>6, Parts

(* Opening keeps it, step by step: repair, replay, and the hand-over.         *)
LEMMA RepairStep == ASSUME IInv, Quarantine \/ Trim PROVE IInv'
<1>1. UNCHANGED <<lines, finalized, hist, phase, cursor, mem>> /\ phase = "closed"
  BY DEF Quarantine, Trim, Torn
<1>2. Durable' = Durable
  BY <1>1 DEF Durable
<1>3. DiskInv'
  <2>1. repairs' \subseteq [at : Nat, text : Fragments \cup {"incomplete"}]
    BY Ends DEF Quarantine, Trim, Torn, IInv, TypeOK
  <2>2. tail' \in Fragments \cup {NoFragment}
    BY DEF Quarantine, Trim, IInv, TypeOK
  <2> QED BY <1>1, <1>2, <2>1, <2>2, Parts
          DEF DiskInv, Replays, FinalizedOver, Running, Unreadable
<1>4. crashes' \in Nat
  BY DEF Quarantine, Trim, IInv, TypeOK
<1>5. ProcessInv'
  BY <1>1, <1>4, Parts DEF ProcessInv, MemorySound, MemoryFollows
<1> QED BY <1>3, <1>5, Parts

LEMMA LoadStep == ASSUME IInv, BeginLoad \/ LoadLine \/ EndLoad PROVE IInv'
<1>1. UNCHANGED <<disk, crashes>>
  BY DEF BeginLoad, LoadLine, EndLoad
<1>2. DiskInv'
  BY <1>1, Parts DEF disk, DiskInv, Replays, FinalizedOver, Running, Durable, Unreadable
<1>3. TypeOK /\ Replays /\ MemoryFollows /\ MemorySound
  BY DEF IInv
<1>4. Durable' = Durable
  BY <1>1 DEF disk, Durable
<1>5. CASE BeginLoad
  <2>1. /\ tail = NoFragment /\ phase' = "loading" /\ cursor' = 0
        /\ mem' = EmptyMachine /\ UNCHANGED <<lines, tail, hist, crashes>>
    BY <1>5 DEF BeginLoad, disk
  <2>2. mem' = hist'[cursor' + 1]
    BY <1>3, <2>1 DEF Replays
  <2>3. cursor' <= Len(lines')
    BY <1>3, <2>1, Ends
  <2> QED BY <1>2, <1>3, <2>1, <2>2, <2>3, EmptyIsSound, Parts
          DEF ProcessInv, MemorySound, MemoryFollows, TypeOK
<1>6. CASE LoadLine
  <2>1. /\ phase = "loading" /\ cursor < Len(lines) /\ tail = NoFragment
        /\ mem = hist[cursor + 1] /\ cursor \in Nat
        /\ UNCHANGED <<lines, tail, hist, crashes>>
    BY <1>3, <1>6 DEF LoadLine, MemoryFollows, TypeOK, disk
  <2>2. CASE Accepts(mem, lines[cursor + 1])
    <3>1. /\ mem' = After(mem, lines[cursor + 1]) /\ cursor' = cursor + 1
          /\ phase' = phase
      BY <1>6, <2>2 DEF LoadLine
    <3>2. cursor + 1 \in DOMAIN lines /\ cursor + 2 \in DOMAIN hist
      BY <1>3, <2>1, Ends
    <3>3. mem' = hist[cursor + 2]
      BY <2>1, <2>2, <3>1, <3>2, <1>3 DEF Replays
    <3>4. mem' \in Machine /\ MachineSound(mem')
      BY <1>3, <3>2, <3>3, Ends DEF Replays
    <3>5. cursor' + 1 = cursor + 2 /\ cursor' \in Nat /\ cursor' <= Len(lines)
      BY <1>3, <2>1, <3>1, Ends
    <3> QED BY <1>2, <1>3, <2>1, <3>1, <3>3, <3>4, <3>5, Parts
            DEF ProcessInv, MemorySound, MemoryFollows, TypeOK
  <2>3. CASE ~Accepts(mem, lines[cursor + 1])
    <3>1. phase' = "closed" /\ mem' = EmptyMachine /\ cursor' = 0
      BY <1>6, <2>3 DEF LoadLine
    <3> QED BY <1>2, <1>3, <2>1, <3>1, EmptyIsSound, Parts
            DEF ProcessInv, MemorySound, MemoryFollows, TypeOK
  <2> QED BY <2>2, <2>3
<1>7. CASE EndLoad
  <2>1. /\ phase = "loading" /\ cursor = Len(lines) /\ phase' = "recovering"
        /\ UNCHANGED <<tail, cursor, mem, crashes>>
    BY <1>7 DEF EndLoad, disk
  <2>2. mem' = Durable' /\ tail' = NoFragment
    BY <1>3, <1>4, <2>1, Ends DEF MemoryFollows
  <2> QED BY <1>2, <1>3, <2>1, <2>2, Parts
          DEF ProcessInv, MemorySound, MemoryFollows, TypeOK
<1> QED BY <1>5, <1>6, <1>7

LEMMA ServeStep == ASSUME IInv, Serve PROVE IInv'
<1>1. /\ phase = "recovering" /\ RecoveryRecords(mem) = {} /\ phase' = "open"
      /\ UNCHANGED <<lines, tail, repairs, finalized, hist, cursor, mem, crashes>>
  BY DEF Serve, disk
<1>2. DiskInv'
  BY <1>1, Parts DEF DiskInv, Replays, FinalizedOver, Running, Durable, Unreadable
<1>3. tail = NoFragment /\ mem = Durable
  BY <1>1 DEF IInv, MemoryFollows
<1>4. \A t \in TurnIds : ~Running(mem, t)
  <2>1. OpenCalls(mem) = {}
    BY <1>1 DEF RecoveryRecords
  <2> QED BY <1>1, <2>1 DEF RecoveryRecords
<1>5. Durable' = Durable
  BY <1>1 DEF Durable
<1> QED BY <1>1, <1>2, <1>3, <1>4, <1>5, Parts
        DEF ProcessInv, MemorySound, MemoryFollows, OneRunning, Running

LEMMA CrashStep == ASSUME IInv, Crash PROVE IInv'
<1>1. UNCHANGED disk /\ Die
  BY DEF Crash
<1>2. DiskInv'
  BY <1>1, Parts DEF disk, DiskInv, Replays, FinalizedOver, Running, Durable, Unreadable
<1> QED BY <1>1, <1>2, DieStep, Parts

-----------------------------------------------------------------------------
(* An empty store satisfies the invariant.                                    *)
LEMMA InvInit == Init => IInv
<1> SUFFICES ASSUME Init PROVE IInv
  OBVIOUS
<1>1. /\ lines = << >> /\ tail = NoFragment /\ finalized = {} /\ repairs = {}
      /\ phase = "closed" /\ cursor = 0 /\ crashes = 0
      /\ mem = EmptyMachine /\ hist = <<EmptyMachine>>
  BY DEF Init
<1>2. TypeOK
  BY <1>1, EmptyIsSound DEF TypeOK
<1>3. DOMAIN lines = {} /\ DOMAIN hist = {1} /\ Durable = EmptyMachine
  BY <1>1 DEF Durable
<1>4. Replays
  BY <1>1, <1>3, EmptyIsSound DEF Replays
<1> QED BY <1>1, <1>2, <1>3, <1>4, EmptyIsSound
        DEF IInv, MemorySound, MemoryFollows, FinalizedOver, WritesSucceed, Unreadable

(* Every step of the store keeps it.                                          *)
LEMMA InvStep == IInv /\ [Next]_vars => IInv'
<1> SUFFICES ASSUME IInv, [Next]_vars PROVE IInv'
  OBVIOUS
<1>1. CASE Commands
  <2>1. TypeOK /\ MemorySound
    BY DEF IInv
  <2> QED BY <1>1, <2>1, CommandIsPut, PutStep, FinalizeStep
<1>2. CASE Reopen
  BY <1>2, RepairStep, LoadStep, RecoveryStep, ServeStep DEF Reopen, RecoverOne
<1>3. CASE CrashInRecovery
  BY <1>3, RecoveryStep DEF CrashInRecovery
<1>4. CASE Crash
  BY <1>4, CrashStep
<1>5. CASE UNCHANGED vars
  BY <1>5 DEF vars, disk, IInv, TypeOK, MemorySound, Replays, MemoryFollows,
              FinalizedOver, WritesSucceed, Durable, Unreadable, Running
<1> QED BY <1>1, <1>2, <1>3, <1>4, <1>5 DEF Next

(* It holds in every behaviour of the store.                                  *)
LEMMA Invariance == Spec => []IInv
BY InvInit, InvStep, PTL DEF Spec

(* The store's variables keep their types: journal, quarantine, markers and   *)
(* the machine in memory.                                                     *)
THEOREM TypeCorrect == Spec => []TypeOK
BY Invariance, PTL DEF IInv

(* With crashes, torn lines and failed writes, the machine in memory is sound *)
(* and a serving store runs at most one turn over all its sessions.           *)
THEOREM MemoryStaysSound == Spec => []MemorySound
BY Invariance, PTL DEF IInv

-----------------------------------------------------------------------------
(* The recursive definition of a replay, and that the history computes it.    *)

(* Induction on the naturals, for a set instead of a predicate: the least     *)
(* number outside the set would have its predecessor inside.                  *)
LEMMA NatSetInduction ==
    ASSUME NEW T \in SUBSET Nat, 0 \in T, \A n \in T : n + 1 \in T
    PROVE  T = Nat
<1> DEFINE R == {p \in Nat \X Nat : p[1] < p[2]}
           U == Nat \ T
<1>1. IsWellFoundedOn(R, Nat)
  BY NatLessThanWellFounded DEF OpToRel
<1>2. ASSUME U # {} PROVE FALSE
  <2> HIDE DEF R
  <2>1. PICK x \in U : \A y \in U : ~(<<y, x>> \in R)
    BY <1>1, <1>2, WFMin
  <2>2. x \in Nat /\ x # 0 /\ x - 1 \in Nat
    OBVIOUS
  <2>3. x - 1 \in U
    BY <2>2
  <2>4. <<x - 1, x>> \in R
    BY <2>2 DEF R
  <2> QED BY <2>1, <2>3, <2>4
<1> QED BY <1>2

(* f lists what the first n lines replay to.                                  *)
Lists(f, n) == /\ f[0] = EmptyMachine
               /\ \A i \in 1 .. n : f[i] = After(f[i - 1], lines[i])

LEMMA ListsAgree ==
    ASSUME NEW n \in Nat, NEW f, NEW g, Lists(f, n), Lists(g, n)
    PROVE  \A i \in 0 .. n : f[i] = g[i]
<1> DEFINE T == {i \in Nat : i <= n => f[i] = g[i]}
<1>1. 0 \in T
  BY DEF Lists
<1>2. ASSUME NEW i \in T PROVE i + 1 \in T
  <2>1. CASE i + 1 <= n
    <3>1. i + 1 \in 1 .. n /\ (i + 1) - 1 = i /\ f[i] = g[i]
      BY <2>1
    <3> QED BY <3>1 DEF Lists
  <2> QED BY <2>1
<1>3. T = Nat
  <2> HIDE DEF T
  <2>1. T \in SUBSET Nat
    BY DEF T
  <2> QED BY <1>1, <1>2, <2>1, NatSetInduction
<1> QED BY <1>3

LEMMA ListsExist == \A n \in Nat : \E f : Lists(f, n)
<1> DEFINE T == {n \in Nat : \E f : Lists(f, n)}
<1>1. 0 \in T
  <2> DEFINE f == [i \in {0} |-> EmptyMachine]
  <2>1. Lists(f, 0)
    BY DEF Lists
  <2> QED BY <2>1
<1>2. ASSUME NEW n \in T PROVE n + 1 \in T
  <2>1. PICK f : Lists(f, n)
    OBVIOUS
  <2> DEFINE g == [i \in 0 .. (n + 1) |-> IF i <= n THEN f[i]
                                          ELSE After(f[n], lines[n + 1])]
  <2>2. g[0] = EmptyMachine
    BY <2>1 DEF Lists
  <2>3. ASSUME NEW i \in 1 .. (n + 1) PROVE g[i] = After(g[i - 1], lines[i])
    <3>1. CASE i <= n
      BY <2>1, <3>1 DEF Lists
    <3>2. CASE i = n + 1
      BY <3>2
    <3> QED BY <3>1, <3>2
  <2>4. Lists(g, n + 1)
    BY <2>2, <2>3 DEF Lists
  <2> QED BY <2>4
<1>3. T = Nat
  <2> HIDE DEF T
  <2>1. T \in SUBSET Nat
    BY DEF T
  <2> QED BY <1>1, <1>2, <2>1, NatSetInduction
<1> QED BY <1>3

(* The recursive function Replayed satisfies its own equation.                *)
LEMMA ReplayedUnfolds ==
    \A n \in Nat : Replayed[n] = IF n = 0 THEN EmptyMachine
                                 ELSE After(Replayed[n - 1], lines[n])
<1> DEFINE L(n) == CHOOSE f : Lists(f, n)
           h == [n \in Nat |-> L(n)[n]]
           Following(f, n) == IF n = 0 THEN EmptyMachine ELSE After(f[n - 1], lines[n])
<1>1. \A n \in Nat : Lists(L(n), n)
  BY ListsExist
<1> HIDE DEF L
<1>2. ASSUME NEW n \in Nat PROVE h[n] = Following(h, n)
  <2>1. CASE n = 0
    BY <1>1, <2>1 DEF Lists
  <2>2. CASE n # 0
    <3>1. n - 1 \in Nat /\ n \in 1 .. n /\ n - 1 \in 0 .. (n - 1)
      BY <2>2
    <3>2. L(n)[n] = After(L(n)[n - 1], lines[n])
      BY <1>1, <3>1 DEF Lists
    <3>3. Lists(L(n), n - 1)
      BY <1>1, <3>1 DEF Lists
    <3>4. L(n)[n - 1] = L(n - 1)[n - 1]
      BY <1>1, <3>1, <3>3, ListsAgree
    <3> QED BY <2>2, <3>1, <3>2, <3>4
  <2> QED BY <2>1, <2>2
<1>3. h = [n \in Nat |-> Following(h, n)]
  BY <1>2
<1>4. \E f : f = [n \in Nat |-> Following(f, n)]
  <2> HIDE DEF h
  <2> QED BY <1>3
<1>5. Replayed = [n \in Nat |-> Following(Replayed, n)]
  BY <1>4 DEF Replayed
<1> QED BY <1>5

(* A journal without a refused line replays to its history.                   *)
LEMMA HistoryIsReplay ==
    ASSUME TypeOK, Replays, ~Unreadable
    PROVE  \A n \in 0 .. Len(lines) : hist[n + 1] = Replayed[n]
<1> DEFINE T == {n \in Nat : n <= Len(lines) => hist[n + 1] = Replayed[n]}
<1>1. 0 \in T
  BY ReplayedUnfolds DEF Replays
<1>2. ASSUME NEW n \in T PROVE n + 1 \in T
  <2>1. CASE n + 1 <= Len(lines)
    <3>1. n + 1 \in DOMAIN lines /\ hist[n + 1] = Replayed[n]
      BY <2>1, Ends
    <3>2. hist[n + 2] = After(hist[n + 1], lines[n + 1])
      BY <3>1 DEF Replays, Unreadable
    <3>3. Replayed[n + 1] = After(Replayed[n], lines[n + 1])
      BY ReplayedUnfolds
    <3> QED BY <3>1, <3>2, <3>3
  <2> QED BY <2>1, Ends
<1>3. T = Nat
  <2> HIDE DEF T
  <2>1. T \in SUBSET Nat
    BY DEF T
  <2> QED BY <1>1, <1>2, <2>1, NatSetInduction
<1> QED BY <1>3, Ends

(* With no failed write, what the store serves is what its journal replays    *)
(* to, and loading meets no record the machine refuses.                       *)
THEOREM JournalIsTheTruth == Spec => []JournalIsTruth
<1>1. IInv => JournalIsTruth
  <2> SUFFICES ASSUME IInv, ~IOErrors PROVE
          /\ phase = "open" => mem = Replayed[Len(lines)]
          /\ phase = "loading" /\ cursor < Len(lines)
               => Accepts(mem, lines[cursor + 1])
    BY DEF JournalIsTruth
  <2>1. TypeOK /\ Replays /\ MemoryFollows /\ ~Unreadable
    BY DEF IInv, WritesSucceed
  <2>2. phase = "open" => mem = Replayed[Len(lines)]
    <3>1. phase = "open" => mem = hist[Len(lines) + 1]
      BY <2>1, Ends DEF IInv, WritesSucceed
    <3> QED BY <2>1, <3>1, HistoryIsReplay, Ends
  <2>3. ASSUME phase = "loading", cursor < Len(lines)
        PROVE  Accepts(mem, lines[cursor + 1])
    <3>1. cursor + 1 \in DOMAIN lines /\ mem = hist[cursor + 1]
      BY <2>1, <2>3, Ends DEF MemoryFollows, TypeOK
    <3> QED BY <2>1, <3>1 DEF Unreadable
  <2> QED BY <2>2, <2>3
<1> QED BY <1>1, Invariance, PTL

-----------------------------------------------------------------------------
(* What one step may do to the journal. *)

(* A step either leaves the lines and their history alone, or writes one line,*)
(* of a command while the store is open or of its recovery.                   *)
LEMMA JournalStep ==
    ASSUME IInv, [Next]_vars
    PROVE  \/ UNCHANGED <<lines, hist>>
           \/ \E r \in Record : /\ phase = "open" /\ WriteLine(r)
                                /\ Issues(mem, r) /\ r.session \notin finalized
           \/ \E r \in RecoveryRecords(mem) : phase = "recovering" /\ WriteLine(r)
<1>1. CASE Commands
  <2>1. CASE FinalizeSession
    BY <2>1 DEF FinalizeSession
  <2>2. CASE ~FinalizeSession
    <3>1. PICK r \in Record : Put(r)
      BY <1>1, <2>2, CommandIsPut DEF IInv
    <3> QED BY <3>1 DEF Put, Acknowledge, CrashInside, FailInside, TearLine
  <2> QED BY <2>1, <2>2
<1>2. CASE Reopen
  BY <1>2 DEF Reopen, Quarantine, Trim, BeginLoad, LoadLine, EndLoad,
              RecoverOne, Serve, Acknowledge, disk
<1>3. CASE CrashInRecovery
  BY <1>3 DEF CrashInRecovery, CrashInside, TearLine
<1>4. CASE Crash \/ UNCHANGED vars
  BY <1>4 DEF Crash, vars, disk
<1> QED BY <1>1, <1>2, <1>3, <1>4 DEF Next

(* The result recovery gives a call follows from whether it was started.      *)
LEMMA RecoveredResult ==
    ASSUME NEW m, NEW r \in RecoveryRecords(m), r.kind = "ToolTerminal"
    PROVE  r.result = IF m.turns[r.turn].calls[r.call].started
                      THEN "Indeterminate" ELSE "Cancelled"
<1>1. OpenCalls(m) # {}
  BY DEF RecoveryRecords, RecoveryApplied
<1>2. PICK p \in OpenCalls(m) : r = RecoverCall(m, p[1], p[2])
  BY <1>1 DEF RecoveryRecords
<1> QED BY <1>2 DEF RecoverCall, ToolTerminal

(* Recovery never guesses: outside a serving store a call changes only by     *)
(* getting Indeterminate if it had been started and Cancelled if not.         *)
THEOREM NeverGuessed == Spec => StartedStaysUnknown
<1> DEFINE Fate(before, after) ==
             after # before =>
               IF before.started THEN after = [before EXCEPT !.result = "Indeterminate"]
               ELSE after = [before EXCEPT !.result = "Cancelled"]
           Kept == phase # "open" =>
                     \A t \in TurnIds, c \in CallIds :
                         Fate(Durable.turns[t].calls[c], Durable'.turns[t].calls[c])
<1>1. IInv /\ [Next]_vars => [Kept]_vars
  <2> SUFFICES ASSUME IInv, [Next]_vars, phase # "open",
                      NEW t \in TurnIds, NEW c \in CallIds
               PROVE  Fate(Durable.turns[t].calls[c], Durable'.turns[t].calls[c])
    OBVIOUS
  <2>1. CASE UNCHANGED hist
    BY <2>1 DEF Durable
  <2>2. ASSUME phase = "recovering", NEW r \in RecoveryRecords(mem), WriteLine(r)
        PROVE  Fate(Durable.turns[t].calls[c], Durable'.turns[t].calls[c])
    <3> DEFINE before == Durable.turns[t].calls[c]
    <3>1. /\ mem = Durable /\ tail = NoFragment /\ r \in Record
          /\ Accepts(Durable, r) /\ r.kind \in TurnKinds
      BY <2>2, RecordOfRecovery
    <3>2. Durable \in Machine /\ MachineSound(Durable)
      BY <3>1 DEF IInv, TypeOK, MemorySound
    <3>3. Durable' = After(Durable, r)
      BY <2>2, <3>1, Written DEF IInv
    <3>4. CASE ~(r.kind \in ToolKinds /\ t = r.turn /\ c = r.call)
      <4>1. Durable'.turns[t].calls[c] = before
        BY <3>1, <3>2, <3>3, <3>4, CallAfter
      <4> QED BY <4>1
    <3>5. CASE r.kind \in ToolKinds /\ t = r.turn /\ c = r.call
      <4>1. Durable'.turns[t].calls[c] = AfterTool(before, r)
        BY <3>1, <3>2, <3>3, <3>5, CallAfter
      <4>2. r.kind = "ToolTerminal"
        BY <2>2, <3>5 DEF RecoveryRecords, RecoverCall, RecoveryApplied,
                          ToolTerminal, ToolKinds
      <4>3. AfterTool(before, r) = [before EXCEPT !.result = r.result]
        BY <4>2 DEF AfterTool
      <4>4. r.result = IF before.started THEN "Indeterminate" ELSE "Cancelled"
        BY <2>2, <3>1, <3>5, <4>2, RecoveredResult
      <4> QED BY <4>1, <4>3, <4>4
    <3> QED BY <3>4, <3>5
  <2> QED BY <2>1, <2>2, JournalStep
<1> QED BY <1>1, Invariance, PTL DEF Spec, StartedStaysUnknown

(* Once a session is finalized no line of it is written, although recovery    *)
(* does not look at the marker: it finds nothing of that session to close.    *)
THEOREM FinalizedStaysFrozen == Spec => FinalizedFrozen
<1> DEFINE Kept == \A s \in finalized : LinesOf(s)' = LinesOf(s)
<1>1. IInv /\ [Next]_vars => [Kept]_vars
  <2> SUFFICES ASSUME IInv, [Next]_vars, NEW s \in finalized
               PROVE  LinesOf(s)' = LinesOf(s)
    OBVIOUS
  <2>1. CASE UNCHANGED lines
    BY <2>1 DEF LinesOf
  <2>2. ASSUME NEW r \in Record, WriteLine(r), r.session \notin finalized
        PROVE  LinesOf(s)' = LinesOf(s)
    <3>1. TypeOK /\ Replays
      BY DEF IInv
    <3>2. /\ DOMAIN lines' = 1 .. (Len(lines) + 1) /\ DOMAIN lines = 1 .. Len(lines)
          /\ \A i \in DOMAIN lines : lines'[i] = lines[i]
          /\ lines'[Len(lines) + 1] \in {r, Bad} /\ Len(lines) \in Nat
      BY <2>2, <3>1, Written, Ends
    <3>3. r.session # s
      BY <2>2
    <3> QED BY <3>2, <3>3 DEF LinesOf
  <2> QED BY <2>1, <2>2, JournalStep, RecordOfRecovery
<1> QED BY <1>1, Invariance, PTL DEF Spec, FinalizedFrozen

-----------------------------------------------------------------------------
(* The journal implements the ledger. *)

(* The ledger's machine is the store's: the instance renames no constant.     *)
LEMMA SameMachine ==
    /\ Ledger!EmptyMachine = EmptyMachine
    /\ Ledger!Record = Record
    /\ \A m, r : Ledger!After(m, r) = After(m, r)
    /\ \A m, r : Ledger!Issues(m, r) <=> Issues(m, r)
    /\ \A m : Ledger!RecoveryRecords(m) = RecoveryRecords(m)
<1>1. Ledger!EmptyMachine = EmptyMachine
  BY DEF Ledger!EmptyMachine, EmptyMachine, Ledger!AbsentTurn, AbsentTurn,
         Ledger!NoCall, NoCall
<1>2. Ledger!Record = Record
  BY DEF Ledger!Record, Record, Ledger!Terminal, Terminal,
         Ledger!ToolTerminalStatus, ToolTerminalStatus,
         Ledger!SessionCreated, SessionCreated,
         Ledger!SessionActivated, SessionActivated,
         Ledger!TurnStarted, TurnStarted, Ledger!TurnDelta, TurnDelta,
         Ledger!ToolRequested, ToolRequested, Ledger!ToolDecided, ToolDecided,
         Ledger!ToolStarted, ToolStarted, Ledger!ToolTerminal, ToolTerminal,
         Ledger!TurnTerminal, TurnTerminal,
         Ledger!RecoveryApplied, RecoveryApplied,
         Ledger!CompactionStored, CompactionStored
<1>3. \A m, s : Ledger!TurnsOf(m, s) = TurnsOf(m, s)
  BY DEF Ledger!TurnsOf, TurnsOf
<1>4. \A m : Ledger!HasRunningTurn(m) <=> HasRunningTurn(m)
  BY DEF Ledger!HasRunningTurn, HasRunningTurn, Ledger!Running, Running
<1>5. \A m, r : Ledger!After(m, r) = After(m, r)
  BY <1>3 DEF Ledger!After, After, Ledger!NewTurn, NewTurn,
         Ledger!AbsentTurn, AbsentTurn, Ledger!NoCall, NoCall,
         Ledger!AfterInTurn, AfterInTurn, Ledger!AfterTool, AfterTool,
         Ledger!TurnKinds, TurnKinds, Ledger!ToolKinds, ToolKinds,
         Ledger!TerminalKinds, TerminalKinds
<1>6. \A m, r : Ledger!Accepts(m, r) <=> Accepts(m, r)
  BY <1>3 DEF Ledger!Accepts, Accepts, Ledger!AcceptsInTurn, AcceptsInTurn,
         Ledger!AcceptsTool, AcceptsTool, Ledger!TerminalIsLegal, TerminalIsLegal,
         Ledger!HasOpenCall, HasOpenCall, Ledger!Open, Open,
         Ledger!AcceptsCompaction, AcceptsCompaction,
         Ledger!TurnKinds, TurnKinds, Ledger!ToolKinds, ToolKinds,
         Ledger!TerminalKinds, TerminalKinds
<1>7. \A m, r : Ledger!Issues(m, r) <=> Issues(m, r)
  BY <1>3, <1>4, <1>6 DEF Ledger!Issues, Issues, Ledger!Exchange, Exchange
<1>8. \A m : Ledger!RecoveryRecords(m) = RecoveryRecords(m)
  BY DEF Ledger!RecoveryRecords, RecoveryRecords, Ledger!OpenCalls, OpenCalls,
         Ledger!Open, Open, Ledger!RecoverCall, RecoverCall,
         Ledger!ToolTerminal, ToolTerminal, Ledger!RecoveryApplied, RecoveryApplied,
         Ledger!Running, Running
<1> QED BY <1>1, <1>2, <1>5, <1>7, <1>8

(* One step of the store is one step of the ledger, or invisible there.       *)
LEMMA LedgerStep ==
    ASSUME ~IOErrors, IInv, [Next]_vars
    PROVE  [Ledger!LedgerNext]_(Ledger!ledgerVars)
<1> USE DEF Ledger!LedgerNext, Ledger!ledgerVars, View
<1>1. /\ TypeOK /\ MemorySound /\ Replays
      /\ phase = "open" => tail = NoFragment /\ mem = Durable
  BY DEF IInv, WritesSucceed
<1>2. ASSUME NEW r \in Record, Put(r) PROVE Ledger!LedgerCommit \/ Ledger!LedgerCrash \/ UNCHANGED Ledger!ledgerVars
  <2>1. /\ phase = "open" /\ tail = NoFragment /\ mem = Durable
        /\ Issues(mem, r) /\ Accepts(mem, r)
    BY <1>1, <1>2 DEF Put, Issues
  <2>2. WriteLine(r) => Durable' = After(mem, r)
    BY <1>1, <2>1, Written
  <2>3. CASE Acknowledge(r)
    BY <2>1, <2>3, SameMachine DEF Acknowledge, Ledger!LedgerCommit
  <2>4. CASE CrashInside(r)
    <3>1. phase' = "closed" /\ (Durable' = After(mem, r) \/ Durable' = mem)
      BY <2>1, <2>2, <2>4 DEF CrashInside, Die, TearLine, Durable
    <3> QED BY <2>1, <3>1, SameMachine DEF Ledger!LedgerCrash
  <2> QED BY <1>2, <2>3, <2>4 DEF Put, FailInside
<1>3. ASSUME phase = "recovering", NEW r \in RecoveryRecords(mem),
             Acknowledge(r) \/ CrashInside(r)
      PROVE  Ledger!LedgerRecover \/ UNCHANGED Ledger!ledgerVars
  <2>1. mem = Durable /\ tail = NoFragment /\ r \in Record /\ Accepts(mem, r)
    BY <1>3, RecordOfRecovery
  <2>2. WriteLine(r) => Durable' = After(mem, r)
    BY <1>1, <2>1, Written
  <2>3. phase' # "open"
    BY <1>3 DEF Acknowledge, CrashInside, Die
  <2>4. Durable' = After(mem, r) \/ Durable' = mem
    BY <1>3, <2>1, <2>2 DEF Acknowledge, CrashInside, TearLine, Durable
  <2> QED BY <1>3, <2>1, <2>3, <2>4, SameMachine DEF Ledger!LedgerRecover
<1>4. CASE Commands
  <2>1. CASE FinalizeSession
    BY <2>1 DEF FinalizeSession, Durable
  <2> QED BY <1>1, <1>2, <1>4, <2>1, CommandIsPut
<1>5. CASE Quarantine \/ Trim \/ BeginLoad \/ LoadLine \/ EndLoad
  <2>1. phase # "open" /\ phase' # "open" /\ UNCHANGED hist
    BY <1>5 DEF Quarantine, Trim, Torn, BeginLoad, LoadLine, EndLoad, disk
  <2> QED BY <2>1 DEF Durable
<1>6. CASE RecoverOne \/ CrashInRecovery
  BY <1>3, <1>6 DEF RecoverOne, CrashInRecovery
<1>7. CASE Serve
  <2>1. mem = Durable /\ phase # "open" /\ phase' = "open" /\ mem' = mem
    BY <1>7 DEF Serve, IInv, MemoryFollows
  <2> QED BY <1>7, <2>1, SameMachine DEF Serve, Ledger!LedgerServe
<1>8. CASE Crash
  <2>1. phase' = "closed" /\ Durable' = Durable
    BY <1>8 DEF Crash, Die, disk, Durable
  <2> QED BY <1>1, <2>1 DEF Ledger!LedgerCrash
<1>9. CASE UNCHANGED vars
  BY <1>9 DEF vars, disk, Durable
<1> QED BY <1>4, <1>5, <1>6, <1>7, <1>8, <1>9 DEF Next, Reopen

(* Without failed writes, whatever the journal goes through - torn lines,     *)
(* quarantine, replay, crashes while recovering - its clients see a ledger    *)
(* that keeps what it acknowledged.                                           *)
THEOREM StoreImplementsLedger == ~IOErrors => (Spec => ImplementsLedger)
<1> SUFFICES ASSUME ~IOErrors PROVE Spec => ImplementsLedger
  OBVIOUS
<1>1. Init => Ledger!LedgerInit
  BY SameMachine DEF Init, Ledger!LedgerInit, View, Durable
<1>2. IInv /\ [Next]_vars => [Ledger!LedgerNext]_(Ledger!ledgerVars)
  BY LedgerStep
<1> QED BY <1>1, <1>2, Invariance, PTL DEF Spec, ImplementsLedger, Ledger!LedgerSpec
=============================================================================
