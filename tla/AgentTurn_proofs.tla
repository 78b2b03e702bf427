-------------------------- MODULE AgentTurn_proofs --------------------------
(***************************************************************************)
(* Proofs about AgentTurn, for every set of sessions, turns and calls, and *)
(* every limit: what the queue of effects, the call in the store and the   *)
(* adapter have to do with one another at every step of a tool call.       *)
(***************************************************************************)
EXTENDS AgentTurn, DurableSession_proofs, SequenceTheorems

(* A run in progress drives a Running turn of the active session.             *)
Driving ==
    Busy => /\ run.turn \in TurnIds
            /\ store.turns[run.turn].status = "Running"
            /\ store.active \in SessionIds
            /\ store.turns[run.turn].session = store.active

(* A call is in progress only where the driver completes calls, and it is one *)
(* of the round's; effects are queued only for such a call.                   *)
AtACall ==
    /\ pc \in {"call", "executing"} => run.at # 0
    /\ run.inv # "none" => /\ pc \in {"call", "executing"}
                           /\ run.at <= Len(run.pending)
    /\ pc = "executing" => run.inv = "Started" /\ run.queue = <<Execute>>
    /\ run.inv = "none" => run.queue = << >>

\* A call that was asked for and about which nothing else is known.
Fresh(call) == /\ call.requested /\ call.decision = "none"
               /\ ~call.started /\ call.result = "none"

\* A result on its way to the store is legal there, or it is the one result that
\* only the invocation machine takes.
Admitted(call, c, status) ==
    TerminalIsLegal(call, c, status) \/ (status = "Indeterminate" /\ ~call.started)

\* What a result says about how often the adapter was entered.
Tells(c, status, times) ==
    /\ status = "Succeeded" => times = 1
    /\ status \in {"Rejected", "Cancelled"} /\ c \notin ShellCalls => times = 0

(* The state of the invocation machine, the effects still queued, the call in *)
(* the store and the entries of the adapter agree.                            *)
CallFits(inv, queue, c, call, times) ==
    /\ inv = "Requested" =>
         /\ times = 0
         /\ \/ queue = <<ToolRequested(store.active, run.turn, c)>> /\ call = NoCall
            \/ queue = << >> /\ Fresh(call)
    /\ inv = "AwaitingDecision" =>
         /\ times = 0 /\ queue = <<RequestApproval>> /\ Fresh(call)
    /\ inv = "Approved" =>
         /\ times = 0 /\ Fresh(call)
         /\ queue = <<ToolDecided(store.active, run.turn, c, "Approved")>>
    /\ inv = "Started" =>
         /\ call.requested /\ call.decision = "Approved" /\ call.result = "none"
         /\ \/ /\ queue = <<ToolStarted(store.active, run.turn, c), Execute>>
               /\ ~call.started /\ times = 0
            \/ /\ queue = <<Execute>> /\ call.started
               /\ pc = "call" => times = 0
               /\ pc = "executing" => times = 1
    /\ inv = "Terminal" =>
         \/ /\ times = 0 /\ Fresh(call)
            /\ \E status \in {"Rejected", "Cancelled"} :
                 queue = <<ToolDecided(store.active, run.turn, c, "Rejected"),
                           ToolTerminal(store.active, run.turn, c, status)>>
         \/ /\ call.requested /\ call.result = "none"
            /\ \E status \in ToolTerminalStatus :
                 /\ queue = <<ToolTerminal(store.active, run.turn, c, status)>>
                 /\ Admitted(call, c, status)
                 /\ Tells(c, status, times)
         \/ queue = << >> /\ call.result # "none"

CurrentFits ==
    run.inv # "none" =>
        CallFits(run.inv, run.queue, Current,
                 store.turns[run.turn].calls[Current], entered[run.turn][Current])

(* No call of the turn is open but the one in progress.                       *)
NothingElseOpen ==
    Busy => \A c \in CallIds :
              Open(store.turns[run.turn].calls[c]) => run.inv # "none" /\ c = Current

(* An approved call has the consent that ConsentGate asks for.                *)
Consented ==
    /\ run.inv = "AwaitingDecision" => Current \notin ShellCalls
    /\ run.inv \in {"Approved", "Started"} =>
         mode = "FullAccess" \/ (Current \notin ShellCalls /\ Current \in consent)

(* The inductive invariant. Soundness of the machine comes in because a       *)
(* started turn must find its calls untouched.                                *)
IInv == /\ TypeOK /\ MachineSound(store)
        /\ Driving /\ AtACall /\ CurrentFits /\ NothingElseOpen /\ Consented
        /\ EffectsRecorded /\ ResultsTruthful

-----------------------------------------------------------------------------
(* The queue of effects. *)
InvocationState ==
    {"none", "Requested", "AwaitingDecision", "Approved", "Started", "Terminal"}

(* The invocation machine answers with the queue down to its last effect, so  *)
(* its answer is all there is to do next.                                     *)
LEMMA TransitionFields ==
    ASSUME run \in Run, NEW inv, NEW effects \in Seq(Effects),
           run.queue = << >> \/ \E e \in Effects : run.queue = <<e>>
    PROVE  LET next == Transition(inv, effects) IN
           /\ next.inv = inv /\ next.queue = effects
           /\ next.turn = run.turn /\ next.agent = run.agent
           /\ next.pending = run.pending /\ next.at = run.at
           /\ next.rounds = run.rounds /\ next.used = run.used
           /\ inv \in InvocationState => next \in Run
<1> DEFINE rest == (IF run.queue = << >> THEN run.queue ELSE Tail(run.queue)) \o effects
<1>1. rest = effects
  <2>1. CASE run.queue = << >>
    <3>1. << >> \o effects = effects
      BY ConcatEmptySeq
    <3> QED BY <2>1, <3>1
  <2>2. CASE \E e \in Effects : run.queue = <<e>>
    <3>1. Tail(run.queue) = << >> /\ run.queue # << >>
      BY <2>2
    <3>2. << >> \o effects = effects
      BY ConcatEmptySeq
    <3> QED BY <3>1, <3>2
  <2> QED BY <2>1, <2>2
<1>2. Transition(inv, effects) = [run EXCEPT !.inv = inv, !.queue = rest]
  BY DEF Transition
<1> HIDE DEF rest
<1> QED BY <1>1, <1>2 DEF Run, InvocationState

(* A queue of one or two effects, taken one by one. *)
LEMMA OneEffect ==
    ASSUME NEW e \in Effects
    PROVE  /\ <<e>> \in Seq(Effects) /\ <<e>> # << >>
           /\ Head(<<e>>) = e /\ Tail(<<e>>) = << >>
OBVIOUS

(* The same for two. *)
LEMMA TwoEffects ==
    ASSUME NEW e \in Effects, NEW f \in Effects
    PROVE  /\ <<e, f>> \in Seq(Effects) /\ <<e, f>> # << >> /\ <<e, f>> # <<e>>
           /\ Head(<<e, f>>) = e /\ Tail(<<e, f>>) = <<f>>
OBVIOUS

(* The records a run appends for its current call are journal records, and    *)
(* each is told from the other effects by its kind.                           *)
LEMMA CallRecords ==
    ASSUME NEW s \in SessionIds, NEW t \in TurnIds, NEW c \in CallIds
    PROVE  /\ ToolRequested(s, t, c) \in Record
           /\ \A d \in {"Approved", "Rejected"} : ToolDecided(s, t, c, d) \in Record
           /\ ToolStarted(s, t, c) \in Record
           /\ \A status \in ToolTerminalStatus : ToolTerminal(s, t, c, status) \in Record
           /\ \A outcome \in Terminal : TurnTerminal(s, t, outcome) \in Record
           /\ TurnDelta(s, t) \in Record
           /\ Record \subseteq Effects
           /\ Execute \in Effects /\ RequestApproval \in Effects
BY DEF Record, Effects

-----------------------------------------------------------------------------
(* What a step does to the history and to a run. *)

\* The part of the invariant that outlives a run.
History == /\ store \in Machine /\ entered \in [TurnIds -> [CallIds -> Nat]]
           /\ MachineSound(store) /\ EffectsRecorded /\ ResultsTruthful

(* A record keeps the history truthful if its result is.                      *)
LEMMA HistoryKept ==
    ASSUME History, NEW r \in Record, Accepts(store, r),
           store' = After(store, r), entered' = entered,
           r.kind = "ToolTerminal" =>
             Tells(r.call, r.result, entered[r.turn][r.call])
    PROVE  History'
<1>1. store' \in Machine /\ MachineSound(store')
  BY AfterFields, AfterSound DEF History
<1>2. ASSUME NEW t \in TurnIds, NEW c \in CallIds
      PROVE  /\ store.turns[t].calls[c].started => store'.turns[t].calls[c].started
             /\ \/ store'.turns[t].calls[c].result = store.turns[t].calls[c].result
                \/ /\ r.kind = "ToolTerminal" /\ t = r.turn /\ c = r.call
                   /\ store'.turns[t].calls[c].result = r.result
  <2>1. store.turns[t].calls[c] \in Call
    BY DEF History, Machine, Turn
  <2>2. CASE r.kind \in ToolKinds /\ t = r.turn /\ c = r.call
    <3>1. store'.turns[t].calls[c] = AfterTool(store.turns[t].calls[c], r)
      BY <2>2, CallAfter DEF History
    <3> DEFINE old == store.turns[t].calls[c]
               new == AfterTool(old, r)
    <3>2. /\ new.started <=> (old.started \/ r.kind = "ToolStarted")
          /\ new.result = IF r.kind = "ToolTerminal" THEN r.result ELSE old.result
      BY <2>1, <2>2, AfterToolFields
    <3> QED BY <2>2, <3>1, <3>2
  <2>3. CASE ~(r.kind \in ToolKinds /\ t = r.turn /\ c = r.call)
    <3>1. store'.turns[t].calls[c] = store.turns[t].calls[c]
      BY <2>3, CallAfter DEF History
    <3> QED BY <3>1
  <2> QED BY <2>2, <2>3
<1>3. EffectsRecorded'
  BY <1>2 DEF History, EffectsRecorded
<1>4. ResultsTruthful'
  BY <1>2 DEF History, ResultsTruthful, Tells
<1> QED BY <1>1, <1>3, <1>4 DEF History

(* Without a run there is nothing to agree about.                             *)
LEMMA Resting ==
    ASSUME run' = NoRun, pc' \in {"down", "opening", "idle"}
    PROVE  /\ Driving' /\ AtACall' /\ CurrentFits' /\ NothingElseOpen' /\ Consented'
           /\ run' \in Run
<1>1. run'.inv = "none" /\ run'.queue = << >>
  BY DEF NoRun
<1>2. ~Busy'
  BY DEF Busy
<1>3. NoRun \in Run
  BY DEF NoRun, Run
<1> QED BY <1>1, <1>2, <1>3 DEF Driving, AtACall, CurrentFits, NothingElseOpen, Consented

(* A step inside a run that writes nothing leaves its turn as it is.          *)
LEMMA Untouched ==
    ASSUME IInv, Busy, store' = store, entered' = entered, run'.turn = run.turn
    PROVE  History' /\ Driving'
BY DEF IInv, TypeOK, History, Driving, EffectsRecorded, ResultsTruthful, Busy

(* A record of a run about its turn leaves that turn running.                 *)
LEMMA TurnJournal ==
    ASSUME IInv, Busy, NEW r \in Record, Journal(r),
           r.kind \in TurnKinds \ TerminalKinds, r.turn = run.turn,
           r.kind = "ToolTerminal" => Tells(r.call, r.result, entered[r.turn][r.call]),
           entered' = entered, run'.turn = run.turn
    PROVE  History' /\ Driving' /\ store'.active = store.active
<1>1. Accepts(store, r) /\ store' = After(store, r)
  BY DEF Journal, Issues
<1>2. History
  BY DEF IInv, TypeOK, History
<1>3. History'
  BY <1>1, <1>2, HistoryKept
<1>4. store'.active = store.active
  BY <1>1, <1>2, AfterFields DEF History
<1>5. run.turn \in TurnIds /\ store.turns[run.turn].status = "Running"
  BY DEF IInv, Driving
<1>6. /\ store'.turns[run.turn].status = "Running"
      /\ store'.turns[run.turn].session = store.turns[run.turn].session
  BY <1>1, <1>2, <1>5, RunningAfter DEF History
<1>7. Driving'
  BY <1>4, <1>5, <1>6 DEF IInv, Driving
<1> QED BY <1>3, <1>4, <1>7

-----------------------------------------------------------------------------
(* The steps of a call. *)

(* What is known while a call is in progress.                                 *)
LEMMA CallContext ==
    ASSUME IInv, run.inv # "none"
    PROVE  /\ Busy /\ pc \in {"call", "executing"} /\ run \in Run
           /\ Current \in CallIds /\ run.turn \in TurnIds /\ store.active \in SessionIds
           /\ store.turns[run.turn].calls[Current] \in Call
           /\ entered[run.turn][Current] \in Nat
           /\ CallFits(run.inv, run.queue, Current,
                       store.turns[run.turn].calls[Current], entered[run.turn][Current])
<1>1. pc \in {"call", "executing"} /\ run.at # 0 /\ run.at <= Len(run.pending)
  BY DEF IInv, AtACall
<1>2. Busy
  BY <1>1 DEF Busy
<1>3. run \in Run /\ store \in Machine /\ entered \in [TurnIds -> [CallIds -> Nat]]
  BY DEF IInv, TypeOK
<1>4. run.pending \in Seq(CallIds) /\ run.at \in Nat
  BY <1>3 DEF Run
<1>5. run.at \in 1..Len(run.pending)
  BY <1>1, <1>4
<1>6. Current \in CallIds
  BY <1>4, <1>5 DEF Current
<1>7. run.turn \in TurnIds /\ store.active \in SessionIds
  BY <1>2 DEF IInv, Driving
<1>8. store.turns[run.turn].calls[Current] \in Call
  BY <1>3, <1>6, <1>7 DEF Machine, Turn
<1> QED BY <1>1, <1>2, <1>3, <1>6, <1>7, <1>8 DEF IInv, CurrentFits

(* What the run keeps when the invocation machine answers.                    *)
LEMMA AnswerFields ==
    ASSUME IInv, run.inv # "none", NEW inv \in InvocationState \ {"none"},
           NEW effects \in Seq(Effects), run' = Transition(inv, effects),
           run.queue = << >> \/ \E e \in Effects : run.queue = <<e>>
    PROVE  /\ run' \in Run /\ run'.inv = inv /\ run'.queue = effects
           /\ run'.turn = run.turn /\ run'.pending = run.pending /\ run'.at = run.at
           /\ Current' = Current
<1>1. run \in Run
  BY DEF IInv, TypeOK
<1> QED BY <1>1, TransitionFields DEF Current

(* An answer that writes nothing keeps the invariant if it fits the call and  *)
(* the consent.                                                               *)
LEMMA Answer ==
    ASSUME IInv, run.inv # "none", NEW inv \in InvocationState \ {"none"},
           NEW effects \in Seq(Effects), Go("call", Transition(inv, effects)),
           run.queue = << >> \/ \E e \in Effects : run.queue = <<e>>,
           store' = store, consent' \subseteq CallIds,
           CurrentFits', Consented'
    PROVE  IInv'
<1>1. /\ run' \in Run /\ run'.inv = inv /\ run'.queue = effects
      /\ run'.turn = run.turn /\ run'.pending = run.pending /\ run'.at = run.at
      /\ Current' = Current /\ pc' = "call" /\ entered' = entered
  BY AnswerFields DEF Go
<1>2. Busy /\ pc \in {"call", "executing"}
  BY CallContext
<1>3. History' /\ Driving'
  BY <1>1, <1>2, Untouched
<1>4. TypeOK'
  BY <1>1, <1>3 DEF IInv, TypeOK, History, Go
<1>5. AtACall'
  BY <1>1 DEF IInv, AtACall
<1>6. NothingElseOpen'
  BY <1>1, <1>2 DEF IInv, NothingElseOpen
<1> QED BY <1>3, <1>4, <1>5, <1>6 DEF IInv, History

(* A record about the call in progress keeps the invariant if what it leaves  *)
(* fits the call and the consent.                                             *)
LEMMA Recorded ==
    ASSUME IInv, run.inv # "none", pc = "call", NEW r \in Record, Journal(r),
           r.kind \in ToolKinds, r.turn = run.turn, r.call = Current,
           r.kind = "ToolTerminal" =>
             Tells(Current, r.result, entered[run.turn][Current]),
           NEW next \in Run, Go("call", next), consent' = consent,
           next.turn = run.turn, next.pending = run.pending, next.at = run.at,
           next.inv # "none",
           CurrentFits', Consented'
    PROVE  IInv'
<1>1. /\ run' = next /\ Current' = Current /\ pc' = "call" /\ entered' = entered
  BY DEF Go, Current
<1>2. /\ Busy /\ Accepts(store, r) /\ store' = After(store, r)
      /\ r.kind \in TurnKinds \ TerminalKinds
      /\ store \in Machine /\ MachineSound(store)
      /\ run.turn \in TurnIds
  BY CallContext DEF Busy, Journal, Issues, TurnKinds, ToolKinds, TerminalKinds,
                     IInv, TypeOK
<1>3. History' /\ Driving'
  BY <1>1, <1>2, TurnJournal
<1>4. TypeOK'
  BY <1>1, <1>3 DEF IInv, TypeOK, History, Go
<1>5. AtACall'
  BY <1>1 DEF IInv, AtACall
<1>6. NothingElseOpen'
  <2>1. ASSUME NEW c \in CallIds, c # Current, Open(store'.turns[run.turn].calls[c])
        PROVE  FALSE
    <3>1. store'.turns[run.turn].calls[c] = store.turns[run.turn].calls[c]
      BY <1>2, <2>1, CallAfter
    <3> QED BY <1>2, <2>1, <3>1 DEF IInv, NothingElseOpen
  <2> QED BY <1>1, <2>1 DEF NothingElseOpen
<1> QED BY <1>3, <1>4, <1>5, <1>6 DEF IInv, History

(* The effect at the head of the queue tells the state of the call.           *)
LEMMA HeadKind ==
    ASSUME IInv, run.inv # "none", run.queue # << >>
    PROVE  LET call == store.turns[run.turn].calls[Current]
               times == entered[run.turn][Current]
               s == store.active
               t == run.turn
           IN
           /\ Effect.kind \in ToolKinds \cup {"RequestApproval", "Execute"}
           /\ Effect.kind = "ToolRequested" =>
                /\ run.inv = "Requested" /\ times = 0 /\ call = NoCall
                /\ run.queue = <<ToolRequested(s, t, Current)>>
           /\ Effect.kind = "RequestApproval" =>
                /\ run.inv = "AwaitingDecision" /\ times = 0 /\ Fresh(call)
                /\ run.queue = <<RequestApproval>>
           /\ Effect.kind = "ToolDecisionRecorded" =>
                /\ times = 0 /\ Fresh(call)
                /\ \/ /\ run.inv = "Approved"
                      /\ run.queue = <<ToolDecided(s, t, Current, "Approved")>>
                   \/ /\ run.inv = "Terminal"
                      /\ \E status \in {"Rejected", "Cancelled"} :
                           run.queue = <<ToolDecided(s, t, Current, "Rejected"),
                                         ToolTerminal(s, t, Current, status)>>
           /\ Effect.kind = "ToolStarted" =>
                /\ run.inv = "Started" /\ ~call.started /\ times = 0
                /\ call.requested /\ call.decision = "Approved" /\ call.result = "none"
                /\ run.queue = <<ToolStarted(s, t, Current), Execute>>
           /\ Effect.kind = "Execute" =>
                /\ run.inv = "Started" /\ call.started
                /\ call.requested /\ call.result = "none"
                /\ pc = "call" => times = 0
                /\ pc = "executing" => times = 1
                /\ run.queue = <<Execute>>
           /\ Effect.kind = "ToolTerminal" =>
                /\ run.inv = "Terminal" /\ call.requested /\ call.result = "none"
                /\ \E status \in ToolTerminalStatus :
                     /\ run.queue = <<ToolTerminal(s, t, Current, status)>>
                     /\ Admitted(call, Current, status)
                     /\ Tells(Current, status, times)
<1> DEFINE call == store.turns[run.turn].calls[Current]
           times == entered[run.turn][Current]
           s == store.active
           t == run.turn
<1>1. /\ run.inv \in InvocationState /\ s \in SessionIds /\ t \in TurnIds
      /\ Current \in CallIds
      /\ CallFits(run.inv, run.queue, Current, call, times)
  BY CallContext DEF Run, InvocationState
<1> HIDE DEF call, times, s, t
<1>2. CASE run.inv = "Requested"
  <2>1. run.queue = <<ToolRequested(s, t, Current)>> /\ call = NoCall /\ times = 0
    BY <1>1, <1>2 DEF CallFits, s, t
  <2>2. Effect.kind = "ToolRequested"
    BY <2>1 DEF Effect, ToolRequested
  <2> QED BY <1>2, <2>1, <2>2 DEF ToolKinds, call, times, s, t
<1>3. CASE run.inv = "AwaitingDecision"
  <2>1. run.queue = <<RequestApproval>> /\ Fresh(call) /\ times = 0
    BY <1>1, <1>3 DEF CallFits
  <2>2. Effect.kind = "RequestApproval"
    BY <2>1 DEF Effect, RequestApproval
  <2> QED BY <1>3, <2>1, <2>2 DEF ToolKinds, call, times, s, t
<1>4. CASE run.inv = "Approved"
  <2>1. run.queue = <<ToolDecided(s, t, Current, "Approved")>> /\ Fresh(call) /\ times = 0
    BY <1>1, <1>4 DEF CallFits, s, t
  <2>2. Effect.kind = "ToolDecisionRecorded"
    BY <2>1 DEF Effect, ToolDecided
  <2> QED BY <1>4, <2>1, <2>2 DEF ToolKinds, call, times, s, t
<1>5. CASE run.inv = "Started"
  <2>0. call.requested /\ call.decision = "Approved" /\ call.result = "none"
    BY <1>1, <1>5 DEF CallFits
  <2>1. CASE /\ run.queue = <<ToolStarted(s, t, Current), Execute>>
             /\ ~call.started /\ times = 0
    <3>1. Effect.kind = "ToolStarted"
      BY <2>1 DEF Effect, ToolStarted
    <3> QED BY <1>5, <2>0, <2>1, <3>1 DEF ToolKinds, call, times, s, t
  <2>2. CASE /\ run.queue = <<Execute>> /\ call.started
             /\ pc = "call" => times = 0
             /\ pc = "executing" => times = 1
    <3>1. Effect.kind = "Execute"
      BY <2>2 DEF Effect, Execute
    <3> QED BY <1>5, <2>0, <2>2, <3>1 DEF ToolKinds, call, times, s, t
  <2> QED BY <1>1, <1>5, <2>1, <2>2 DEF CallFits, s, t
<1>6. CASE run.inv = "Terminal"
  <2>1. CASE /\ times = 0 /\ Fresh(call)
             /\ \E status \in {"Rejected", "Cancelled"} :
                  run.queue = <<ToolDecided(s, t, Current, "Rejected"),
                                ToolTerminal(s, t, Current, status)>>
    <3>1. Effect.kind = "ToolDecisionRecorded"
      BY <2>1 DEF Effect, ToolDecided
    <3> QED BY <1>6, <2>1, <3>1 DEF ToolKinds, call, times, s, t
  <2>2. CASE /\ call.requested /\ call.result = "none"
             /\ \E status \in ToolTerminalStatus :
                  /\ run.queue = <<ToolTerminal(s, t, Current, status)>>
                  /\ Admitted(call, Current, status)
                  /\ Tells(Current, status, times)
    <3>1. Effect.kind = "ToolTerminal"
      BY <2>2 DEF Effect, ToolTerminal
    <3> QED BY <1>6, <2>2, <3>1 DEF ToolKinds, call, times, s, t
  <2> QED BY <1>1, <1>6, <2>1, <2>2 DEF CallFits, s, t
<1> QED BY <1>1, <1>2, <1>3, <1>4, <1>5, <1>6 DEF InvocationState

(* Before the store is asked anything: the preflight. *)
LEMMA PreflightSteps ==
    ASSUME IInv, Preflighting,
           \/ CancelRequested
           \/ PreflightAllowed
           \/ \E status \in ToolTerminalStatus : PreflightDenied(status)
    PROVE  IInv'
<1> DEFINE call == store.turns[run.turn].calls[Current]
           times == entered[run.turn][Current]
<1>1. run.inv = "Requested" /\ run.queue = << >> /\ pc = "call"
  BY DEF Preflighting
<1>2. /\ Current \in CallIds /\ run.turn \in TurnIds /\ store.active \in SessionIds
      /\ times = 0 /\ Fresh(call)
  <2>1. \A s, t, c : << >> # <<ToolRequested(s, t, c)>>
    OBVIOUS
  <2> QED BY <1>1, <2>1, CallContext DEF CallFits
<1>3. ASSUME NEW status \in ToolTerminalStatus \ {"Succeeded"},
             Go(pc, Transition("Terminal", <<Result(status)>>)),
             UNCHANGED <<store, consent>>
      PROVE  IInv'
  <2>1. status \in ToolTerminalStatus
    BY DEF ToolTerminalStatus
  <2>2. Result(status) \in Effects
    BY <1>2, <2>1, CallRecords DEF Result
  <2>3. <<Result(status)>> \in Seq(Effects) /\ "Terminal" \in InvocationState \ {"none"}
    BY <2>2, OneEffect DEF InvocationState
  <2>4. /\ run'.inv = "Terminal" /\ run'.queue = <<Result(status)>>
        /\ run'.turn = run.turn /\ Current' = Current
        /\ entered' = entered /\ store' = store
    BY <1>1, <1>3, <2>3, AnswerFields DEF Go
  <2>5. Admitted(call, Current, status) /\ Tells(Current, status, times)
    BY <1>2 DEF Admitted, TerminalIsLegal, Tells, Fresh, ToolTerminalStatus
  <2>6. CurrentFits'
    BY <1>2, <2>1, <2>4, <2>5 DEF CurrentFits, CallFits, Result, Fresh
  <2>7. Consented'
    BY <2>4 DEF Consented
  <2>8. consent' \subseteq CallIds
    BY <1>3 DEF IInv, TypeOK
  <2> QED BY <1>1, <1>3, <2>3, <2>6, <2>7, <2>8, Answer
<1>4. ASSUME PreflightAllowed, mode = "Confirm"
      PROVE  IInv'
  <2>1. /\ Go("call", Transition("AwaitingDecision", <<RequestApproval>>))
        /\ UNCHANGED <<store, consent>> /\ Current \notin ShellCalls
    BY <1>1, <1>4 DEF PreflightAllowed
  <2>2. /\ <<RequestApproval>> \in Seq(Effects)
        /\ "AwaitingDecision" \in InvocationState \ {"none"}
    BY OneEffect DEF InvocationState, Effects
  <2>3. /\ run'.inv = "AwaitingDecision" /\ run'.queue = <<RequestApproval>>
        /\ run'.turn = run.turn /\ Current' = Current
        /\ entered' = entered /\ store' = store
    BY <1>1, <2>1, <2>2, AnswerFields DEF Go
  <2>4. CurrentFits'
    BY <1>2, <2>3 DEF CurrentFits, CallFits
  <2>5. Consented'
    BY <2>1, <2>3 DEF Consented
  <2>6. consent' \subseteq CallIds
    BY <2>1 DEF IInv, TypeOK
  <2> QED BY <1>1, <2>1, <2>2, <2>4, <2>5, <2>6, Answer
<1>5. ASSUME PreflightAllowed, mode # "Confirm"
      PROVE  IInv'
  <2>1. /\ Go("call", Transition("Approved", <<Decision("Approved")>>))
        /\ UNCHANGED <<store, consent>> /\ mode = "FullAccess" /\ mode' = mode
    BY <1>1, <1>5 DEF PreflightAllowed, IInv, TypeOK, Go
  <2>2. Decision("Approved") \in Effects
    BY <1>2, CallRecords DEF Decision
  <2>3. /\ <<Decision("Approved")>> \in Seq(Effects)
        /\ "Approved" \in InvocationState \ {"none"}
    BY <2>2, OneEffect DEF InvocationState
  <2>4. /\ run'.inv = "Approved" /\ run'.queue = <<Decision("Approved")>>
        /\ run'.turn = run.turn /\ Current' = Current
        /\ entered' = entered /\ store' = store
    BY <1>1, <2>1, <2>3, AnswerFields DEF Go
  <2>5. CurrentFits'
    BY <1>2, <2>4 DEF CurrentFits, CallFits, Decision
  <2>6. Consented'
    BY <2>1, <2>4 DEF Consented
  <2>7. consent' \subseteq CallIds
    BY <2>1 DEF IInv, TypeOK
  <2> QED BY <1>1, <2>1, <2>3, <2>5, <2>6, <2>7, Answer
<1>6. CASE CancelRequested
  BY <1>3, <1>6 DEF CancelRequested, ToolTerminalStatus
<1>7. CASE \E status \in ToolTerminalStatus : PreflightDenied(status)
  <2>1. PICK status \in ToolTerminalStatus : PreflightDenied(status)
    BY <1>7
  <2> DEFINE passed == IF status = "Succeeded" THEN "Failed" ELSE status
  <2>2. passed \in ToolTerminalStatus \ {"Succeeded"}
    BY DEF ToolTerminalStatus
  <2>3. /\ Go(pc, Transition("Terminal", <<Result(passed)>>))
        /\ UNCHANGED <<store, consent>>
    BY <2>1 DEF PreflightDenied
  <2> HIDE DEF passed
  <2> QED BY <1>3, <2>2, <2>3
<1> QED BY <1>4, <1>5, <1>6, <1>7

(* The question and its three answers. *)
LEMMA ApprovalSteps ==
    ASSUME IInv, UserApproves \/ UserRejects \/ CancelApproval
    PROVE  IInv'
<1> DEFINE call == store.turns[run.turn].calls[Current]
           times == entered[run.turn][Current]
<1>1. pc = "call" /\ run.queue # << >> /\ Effect.kind = "RequestApproval"
  BY DEF UserApproves, UserRejects, CancelApproval, HasEffect
<1>2. run.inv # "none"
  BY <1>1 DEF IInv, AtACall
<1>3. /\ Current \in CallIds /\ run.turn \in TurnIds /\ store.active \in SessionIds
      /\ call \in Call /\ times \in Nat
  BY <1>2, CallContext
<1>4. run.inv = "AwaitingDecision" /\ times = 0 /\ Fresh(call)
      /\ run.queue = <<RequestApproval>>
  BY <1>1, <1>2, HeadKind
<1>5. consent \subseteq CallIds
  BY DEF IInv, TypeOK
<1>6. RequestApproval \in Effects
  BY DEF Effects
<1>7. CASE UserApproves
  <2>1. /\ Go("call", Transition("Approved", <<Decision("Approved")>>))
        /\ store' = store /\ consent' = consent \cup {Current} /\ mode' = mode
    BY <1>1, <1>7 DEF UserApproves, Go
  <2>2. Decision("Approved") \in Effects
    BY <1>3, CallRecords DEF Decision
  <2>3. /\ <<Decision("Approved")>> \in Seq(Effects)
        /\ "Approved" \in InvocationState \ {"none"}
    BY <2>2, OneEffect DEF InvocationState
  <2>4. /\ run'.inv = "Approved" /\ run'.queue = <<Decision("Approved")>>
        /\ run'.turn = run.turn /\ Current' = Current /\ entered' = entered
    BY <1>2, <1>4, <1>6, <2>1, <2>3, AnswerFields DEF Go
  <2>5. CurrentFits'
    BY <1>4, <2>1, <2>4 DEF CurrentFits, CallFits, Decision
  <2>6. Consented'
    BY <1>4, <2>1, <2>4 DEF Consented, IInv
  <2> QED BY <1>2, <1>3, <1>4, <1>5, <1>6, <2>1, <2>3, <2>5, <2>6, Answer
<1>8. ASSUME NEW status \in {"Rejected", "Cancelled"},
             Go(pc, Transition("Terminal", <<Decision("Rejected"), Result(status)>>)),
             UNCHANGED <<store, consent>>
      PROVE  IInv'
  <2>1. Decision("Rejected") \in Effects /\ Result(status) \in Effects
    BY <1>3, CallRecords DEF Decision, Result, ToolTerminalStatus
  <2>2. /\ <<Decision("Rejected"), Result(status)>> \in Seq(Effects)
        /\ "Terminal" \in InvocationState \ {"none"}
    BY <2>1, TwoEffects DEF InvocationState
  <2>3. /\ run'.inv = "Terminal"
        /\ run'.queue = <<Decision("Rejected"), Result(status)>>
        /\ run'.turn = run.turn /\ Current' = Current
        /\ entered' = entered /\ store' = store
    BY <1>1, <1>2, <1>4, <1>6, <1>8, <2>2, AnswerFields DEF Go
  <2>4. CurrentFits'
    BY <1>4, <2>3 DEF CurrentFits, CallFits, Decision, Result
  <2>5. Consented'
    BY <2>3 DEF Consented
  <2> QED BY <1>1, <1>2, <1>4, <1>5, <1>6, <1>8, <2>2, <2>4, <2>5, Answer
<1>9. CASE UserRejects
  BY <1>8, <1>9 DEF UserRejects
<1>10. CASE CancelApproval
  BY <1>8, <1>10 DEF CancelApproval
<1> QED BY <1>7, <1>9, <1>10

(* The call in the store after a record about it. *)
LEMMA CallMoves ==
    ASSUME IInv, run.inv # "none", NEW r \in Record, Journal(r),
           r.kind \in ToolKinds, r.turn = run.turn, r.call = Current,
           run'.turn = run.turn, Current' = Current
    PROVE  LET call == store.turns[run.turn].calls[Current]
               next == (store.turns[run.turn].calls[Current])'
           IN  /\ next.requested <=> (call.requested \/ r.kind = "ToolRequested")
               /\ next.decision = IF r.kind = "ToolDecisionRecorded" THEN r.decision
                                                                   ELSE call.decision
               /\ next.started <=> (call.started \/ r.kind = "ToolStarted")
               /\ next.result = IF r.kind = "ToolTerminal" THEN r.result ELSE call.result
               /\ store'.active = store.active
<1> DEFINE call == store.turns[run.turn].calls[Current]
<1>1. Accepts(store, r) /\ store' = After(store, r)
  BY DEF Journal, Issues
<1>2. /\ store \in Machine /\ MachineSound(store) /\ run.turn \in TurnIds
      /\ Current \in CallIds /\ call \in Call
  BY CallContext DEF IInv, TypeOK
<1>3. After(store, r).turns[run.turn].calls[Current] = AfterTool(call, r)
  BY <1>1, <1>2, CallAfter
<1>4. LET new == AfterTool(call, r) IN
        /\ new.requested <=> (call.requested \/ r.kind = "ToolRequested")
        /\ new.decision = IF r.kind = "ToolDecisionRecorded" THEN r.decision
                                                            ELSE call.decision
        /\ new.started <=> (call.started \/ r.kind = "ToolStarted")
        /\ new.result = IF r.kind = "ToolTerminal" THEN r.result ELSE call.result
  BY <1>2, AfterToolFields
<1>5. store'.active = store.active
  BY <1>1, <1>2, AfterFields DEF TurnKinds
<1> QED BY <1>1, <1>3, <1>4, <1>5

(* Taking an effect off the queue. *)
LEMMA TailFields ==
    ASSUME IInv, Tail(run.queue) \in Seq(Effects),
           NEW next, next = [run EXCEPT !.queue = Tail(@)]
    PROVE  /\ next \in Run /\ next.inv = run.inv /\ next.queue = Tail(run.queue)
           /\ next.turn = run.turn /\ next.pending = run.pending /\ next.at = run.at
BY DEF IInv, TypeOK, Run

(* Carrying out one effect that is a record. *)
LEMMA PersistStep ==
    ASSUME IInv, Persist
    PROVE  IInv'
<1> DEFINE call == store.turns[run.turn].calls[Current]
           times == entered[run.turn][Current]
           next == [run EXCEPT !.queue = Tail(@)]
<1>1. /\ pc = "call" /\ run.queue # << >> /\ Effect.kind \in ToolKinds
      /\ Effect.kind = "ToolDecisionRecorded" => run.inv # "Approved"
      /\ Journal(Effect) /\ Go("call", next) /\ consent' = consent
  BY DEF Persist, HasEffect
<1>2. run.inv # "none"
  BY <1>1 DEF IInv, AtACall
<1>3. /\ Current \in CallIds /\ run.turn \in TurnIds /\ store.active \in SessionIds
      /\ call \in Call /\ times \in Nat
  BY <1>2, CallContext
<1>4. run' = next /\ entered' = entered /\ mode' = mode /\ pc' = "call"
  BY <1>1 DEF Go
<1> HIDE DEF next
<1>5. CASE Effect.kind = "ToolRequested"
  <2>1. /\ run.inv = "Requested" /\ times = 0 /\ call = NoCall
        /\ run.queue = <<ToolRequested(store.active, run.turn, Current)>>
    BY <1>1, <1>2, <1>5, HeadKind
  <2>2. /\ Effect = ToolRequested(store.active, run.turn, Current)
        /\ Effect \in Record /\ Tail(run.queue) = << >>
        /\ Tail(run.queue) \in Seq(Effects)
    BY <1>3, <2>1, CallRecords, OneEffect DEF Effect
  <2>3. /\ next \in Run /\ next.inv = "Requested" /\ next.queue = << >>
        /\ next.turn = run.turn /\ next.pending = run.pending /\ next.at = run.at
    BY <2>1, <2>2, TailFields DEF next
  <2>4. /\ Effect.turn = run.turn /\ Effect.call = Current
    BY <2>2 DEF ToolRequested
  <2>5. Current' = Current
    BY <1>4, <2>3 DEF Current
  <2>6. Fresh((store.turns[run.turn].calls[Current])')
    <3> DEFINE moved == (store.turns[run.turn].calls[Current])'
    <3>1. /\ moved.requested <=> (call.requested \/ Effect.kind = "ToolRequested")
          /\ moved.decision = IF Effect.kind = "ToolDecisionRecorded" THEN Effect.decision ELSE call.decision
          /\ moved.started <=> (call.started \/ Effect.kind = "ToolStarted")
          /\ moved.result = IF Effect.kind = "ToolTerminal" THEN Effect.result ELSE call.result
      BY <1>1, <1>2, <1>4, <2>2, <2>3, <2>4, <2>5, CallMoves
    <3>2. moved.requested /\ moved.decision = "none" /\ ~moved.started /\ moved.result = "none"
      BY <1>5, <2>1, <3>1 DEF NoCall
    <3> QED BY <3>2 DEF Fresh
  <2>7. CurrentFits'
    BY <1>4, <2>1, <2>3, <2>5, <2>6 DEF CurrentFits, CallFits
  <2>8. Consented'
    BY <1>4, <2>3 DEF Consented
  <2> QED BY <1>1, <1>2, <1>5, <2>2, <2>3, <2>4, <2>7, <2>8, Recorded
<1>6. CASE Effect.kind = "ToolDecisionRecorded"
  <2>1. PICK status \in {"Rejected", "Cancelled"} :
          run.queue = <<ToolDecided(store.active, run.turn, Current, "Rejected"),
                        ToolTerminal(store.active, run.turn, Current, status)>>
    BY <1>1, <1>2, <1>6, HeadKind
  <2>2. run.inv = "Terminal" /\ times = 0 /\ Fresh(call)
    BY <1>1, <1>2, <1>6, HeadKind
  <2>3. /\ Effect = ToolDecided(store.active, run.turn, Current, "Rejected")
        /\ Effect \in Record
        /\ Tail(run.queue) = <<ToolTerminal(store.active, run.turn, Current, status)>>
        /\ Tail(run.queue) \in Seq(Effects)
    BY <1>3, <2>1, CallRecords, OneEffect, TwoEffects DEF Effect, ToolTerminalStatus
  <2>4. /\ next \in Run /\ next.inv = "Terminal" /\ next.queue = Tail(run.queue)
        /\ next.turn = run.turn /\ next.pending = run.pending /\ next.at = run.at
    BY <2>2, <2>3, TailFields DEF next
  <2>5. /\ Effect.turn = run.turn /\ Effect.call = Current /\ Effect.decision = "Rejected"
    BY <2>3 DEF ToolDecided
  <2>6. Current' = Current
    BY <1>4, <2>4 DEF Current
  <2> DEFINE after == (store.turns[run.turn].calls[Current])'
  <2>7. /\ after.requested /\ after.decision = "Rejected" /\ ~after.started
        /\ after.result = "none" /\ store'.active = store.active
    BY <1>1, <1>2, <1>4, <1>6, <2>2, <2>3, <2>4, <2>5, <2>6, CallMoves DEF Fresh
  <2>8. Admitted(after, Current, status) /\ Tells(Current, status, times)
    BY <2>2, <2>7 DEF Admitted, TerminalIsLegal, Tells
  <2>9. CurrentFits'
    <3>1. status \in ToolTerminalStatus
      BY DEF ToolTerminalStatus
    <3> QED BY <1>4, <2>3, <2>4, <2>6, <2>7, <2>8, <3>1 DEF CurrentFits, CallFits
  <2>10. Consented'
    BY <1>4, <2>4 DEF Consented
  <2> QED BY <1>1, <1>2, <1>6, <2>3, <2>4, <2>5, <2>9, <2>10, Recorded
<1>7. CASE Effect.kind = "ToolStarted"
  <2>1. /\ run.inv = "Started" /\ times = 0 /\ ~call.started
        /\ call.requested /\ call.decision = "Approved" /\ call.result = "none"
        /\ run.queue = <<ToolStarted(store.active, run.turn, Current), Execute>>
    BY <1>1, <1>2, <1>7, HeadKind
  <2>2. /\ Effect = ToolStarted(store.active, run.turn, Current)
        /\ Effect \in Record /\ Tail(run.queue) = <<Execute>>
        /\ Tail(run.queue) \in Seq(Effects)
    BY <1>3, <2>1, CallRecords, OneEffect, TwoEffects DEF Effect
  <2>3. /\ next \in Run /\ next.inv = "Started" /\ next.queue = <<Execute>>
        /\ next.turn = run.turn /\ next.pending = run.pending /\ next.at = run.at
    BY <2>1, <2>2, TailFields DEF next
  <2>4. /\ Effect.turn = run.turn /\ Effect.call = Current
    BY <2>2 DEF ToolStarted
  <2>5. Current' = Current
    BY <1>4, <2>3 DEF Current
  <2> DEFINE after == (store.turns[run.turn].calls[Current])'
  <2>6. /\ after.requested /\ after.decision = "Approved" /\ after.started
        /\ after.result = "none"
    BY <1>1, <1>2, <1>4, <1>7, <2>1, <2>2, <2>3, <2>4, <2>5, CallMoves
  <2>7. CurrentFits'
    BY <1>4, <2>1, <2>3, <2>5, <2>6 DEF CurrentFits, CallFits
  <2>8. Consented'
    BY <1>4, <1>1, <2>1, <2>3, <2>5 DEF Consented, IInv
  <2> QED BY <1>1, <1>2, <1>7, <2>2, <2>3, <2>4, <2>7, <2>8, Recorded
<1>8. CASE Effect.kind = "ToolTerminal"
  <2>1. PICK status \in ToolTerminalStatus :
          /\ run.queue = <<ToolTerminal(store.active, run.turn, Current, status)>>
          /\ Tells(Current, status, times)
    BY <1>1, <1>2, <1>8, HeadKind
  <2>2. run.inv = "Terminal" /\ call.requested /\ call.result = "none"
    BY <1>1, <1>2, <1>8, HeadKind
  <2>3. /\ Effect = ToolTerminal(store.active, run.turn, Current, status)
        /\ Effect \in Record /\ Tail(run.queue) = << >>
        /\ Tail(run.queue) \in Seq(Effects)
    BY <1>3, <2>1, CallRecords, OneEffect DEF Effect
  <2>4. /\ next \in Run /\ next.inv = "Terminal" /\ next.queue = << >>
        /\ next.turn = run.turn /\ next.pending = run.pending /\ next.at = run.at
    BY <2>2, <2>3, TailFields DEF next
  <2>5. /\ Effect.turn = run.turn /\ Effect.call = Current /\ Effect.result = status
    BY <2>3 DEF ToolTerminal
  <2>6. Current' = Current
    BY <1>4, <2>4 DEF Current
  <2>7. (store.turns[run.turn].calls[Current])'.result = status
    BY <1>1, <1>2, <1>4, <1>8, <2>2, <2>3, <2>4, <2>5, <2>6, CallMoves
  <2>8. CurrentFits'
    BY <1>4, <2>4, <2>6, <2>7 DEF CurrentFits, CallFits, ToolTerminalStatus
  <2>9. Consented'
    BY <1>4, <2>4 DEF Consented
  <2> QED BY <1>1, <1>2, <1>8, <2>1, <2>3, <2>4, <2>5, <2>8, <2>9, Recorded
<1> QED BY <1>1, <1>5, <1>6, <1>7, <1>8 DEF ToolKinds

(* An approval, the budget's answer to it, and the start it leads to. *)
LEMMA ApprovedSteps ==
    ASSUME IInv, StartApproved \/ OverBudget
    PROVE  IInv'
<1> DEFINE call == store.turns[run.turn].calls[Current]
           times == entered[run.turn][Current]
           started == <<ToolStarted(store.active, run.turn, Current), Execute>>
           after == (store.turns[run.turn].calls[Current])'
<1>1. /\ pc = "call" /\ run.queue # << >> /\ Effect.kind = "ToolDecisionRecorded"
      /\ run.inv = "Approved" /\ Journal(Effect) /\ consent' = consent
  BY DEF StartApproved, OverBudget, Approving, HasEffect
<1>2. /\ Current \in CallIds /\ run.turn \in TurnIds /\ store.active \in SessionIds
      /\ call \in Call /\ times \in Nat /\ run \in Run
  BY <1>1, CallContext
<1>3. /\ times = 0 /\ Fresh(call)
      /\ run.queue = <<ToolDecided(store.active, run.turn, Current, "Approved")>>
  BY <1>1, HeadKind
<1>4. /\ Effect = ToolDecided(store.active, run.turn, Current, "Approved")
      /\ Effect \in Record /\ Effect \in Effects /\ run.queue = <<Effect>>
  BY <1>2, <1>3, CallRecords, OneEffect DEF Effect
<1>5. /\ Effect.turn = run.turn /\ Effect.call = Current
      /\ Effect.decision = "Approved"
  BY <1>4 DEF ToolDecided
<1>6. CASE StartApproved
  <2> DEFINE next == [Transition("Started", started) EXCEPT !.used = @ + 1]
  <2>1. Go("call", next)
    BY <1>1, <1>6 DEF StartApproved
  <2>2. started \in Seq(Effects)
    BY <1>2, CallRecords, TwoEffects
  <2> HIDE DEF started
  <2>3. LET step == Transition("Started", started) IN
        /\ step \in Run /\ step.inv = "Started" /\ step.queue = started
        /\ step.turn = run.turn /\ step.pending = run.pending /\ step.at = run.at
    BY <1>2, <1>4, <2>2, TransitionFields DEF InvocationState
  <2>4. /\ next \in Run /\ next.inv = "Started" /\ next.queue = started
        /\ next.turn = run.turn /\ next.pending = run.pending /\ next.at = run.at
    BY <2>3 DEF Run
  <2>5. run' = next /\ entered' = entered /\ mode' = mode /\ pc' = "call"
    BY <2>1 DEF Go
  <2> HIDE DEF next
  <2>6. Current' = Current
    BY <2>4, <2>5 DEF Current
  <2>7. /\ after.requested /\ after.decision = "Approved" /\ ~after.started
        /\ after.result = "none" /\ store'.active = store.active
    BY <1>1, <1>3, <1>4, <1>5, <2>4, <2>5, <2>6, CallMoves DEF Fresh, ToolKinds
  <2>8. CurrentFits'
    BY <1>3, <2>4, <2>5, <2>6, <2>7 DEF CurrentFits, CallFits, started
  <2>9. Consented'
    BY <1>1, <2>4, <2>5, <2>6 DEF Consented, IInv
  <2>10. Effect.kind \in ToolKinds
    BY <1>1 DEF ToolKinds
  <2> QED BY <1>1, <1>4, <1>5, <2>1, <2>4, <2>8, <2>9, <2>10, Recorded
<1>7. CASE OverBudget
  <2> DEFINE next == Transition("Terminal", <<Result("Failed")>>)
  <2>1. Go("call", next)
    BY <1>1, <1>7 DEF OverBudget
  <2>2. "Failed" \in ToolTerminalStatus
    BY DEF ToolTerminalStatus
  <2>3. <<Result("Failed")>> \in Seq(Effects)
    BY <1>2, <2>2, CallRecords, OneEffect DEF Result
  <2>4. /\ next \in Run /\ next.inv = "Terminal" /\ next.queue = <<Result("Failed")>>
        /\ next.turn = run.turn /\ next.pending = run.pending /\ next.at = run.at
    BY <1>2, <1>4, <2>3, TransitionFields DEF InvocationState
  <2>5. run' = next /\ entered' = entered /\ mode' = mode /\ pc' = "call"
    BY <2>1 DEF Go
  <2> HIDE DEF next
  <2>6. Current' = Current
    BY <2>4, <2>5 DEF Current
  <2>7. /\ after.requested /\ after.decision = "Approved" /\ ~after.started
        /\ after.result = "none" /\ store'.active = store.active
    BY <1>1, <1>3, <1>4, <1>5, <2>4, <2>5, <2>6, CallMoves DEF Fresh, ToolKinds
  <2>8. Admitted(after, Current, "Failed") /\ Tells(Current, "Failed", times)
    BY <2>7 DEF Admitted, TerminalIsLegal, Tells
  <2>9. CurrentFits'
    BY <2>2, <2>4, <2>5, <2>6, <2>7, <2>8 DEF CurrentFits, CallFits, Result
  <2>10. Consented'
    BY <2>4, <2>5 DEF Consented
  <2>11. Effect.kind \in ToolKinds
    BY <1>1 DEF ToolKinds
  <2> QED BY <1>1, <1>4, <1>5, <2>1, <2>4, <2>9, <2>10, <2>11, Recorded
<1> QED BY <1>6, <1>7

(* The adapter: cancelled before it is entered, entered, and left again. *)
LEMMA ExecuteSteps ==
    ASSUME IInv,
           \/ CancelStarted
           \/ EnterTool
           \/ \E status \in ToolTerminalStatus : ToolReturns(status)
    PROVE  IInv'
<1> DEFINE call == store.turns[run.turn].calls[Current]
           times == entered[run.turn][Current]
<1>1. /\ pc \in {"call", "executing"} /\ run.queue = <<Execute>>
      /\ run.inv = "Started" /\ Effect.kind = "Execute"
  <2>1. CASE pc = "executing"
    BY <2>1 DEF IInv, AtACall, Effect, Execute
  <2>2. CASE pc # "executing"
    <3>1. pc = "call" /\ run.queue # << >> /\ Effect.kind = "Execute"
      BY <2>2 DEF CancelStarted, EnterTool, ToolReturns, HasEffect
    <3>2. run.inv # "none"
      BY <3>1 DEF IInv, AtACall
    <3> QED BY <3>1, <3>2, HeadKind
  <2> QED BY <2>1, <2>2
<1>2. /\ Current \in CallIds /\ run.turn \in TurnIds /\ store.active \in SessionIds
      /\ call \in Call /\ times \in Nat /\ run \in Run
  BY <1>1, CallContext
<1>3. /\ call.started /\ call.requested /\ call.result = "none"
      /\ pc = "call" => times = 0
      /\ pc = "executing" => times = 1
  BY <1>1, HeadKind
<1>4. Execute \in Effects
  BY DEF Effects
<1>5. ASSUME NEW status \in ToolTerminalStatus,
             Admitted(call, Current, status), Tells(Current, status, times),
             Go("call", Transition("Terminal", <<Result(status)>>)),
             UNCHANGED <<store, consent>>
      PROVE  IInv'
  <2>1. /\ <<Result(status)>> \in Seq(Effects)
        /\ "Terminal" \in InvocationState \ {"none"}
    BY <1>2, CallRecords, OneEffect DEF Result, InvocationState
  <2>2. /\ run'.inv = "Terminal" /\ run'.queue = <<Result(status)>>
        /\ run'.turn = run.turn /\ Current' = Current
        /\ entered' = entered /\ store' = store
    BY <1>1, <1>4, <1>5, <2>1, AnswerFields DEF Go
  <2>3. CurrentFits'
    BY <1>3, <1>5, <2>2 DEF CurrentFits, CallFits, Result
  <2>4. Consented'
    BY <2>2 DEF Consented
  <2>5. consent' \subseteq CallIds
    BY <1>5 DEF IInv, TypeOK
  <2> QED BY <1>1, <1>4, <1>5, <2>1, <2>3, <2>4, <2>5, Answer
<1>6. CASE CancelStarted
  <2>1. Admitted(call, Current, "Indeterminate")
    BY <1>3 DEF Admitted, TerminalIsLegal
  <2>2. Tells(Current, "Indeterminate", times)
    BY DEF Tells
  <2> QED BY <1>5, <1>6, <2>1, <2>2 DEF CancelStarted, HasEffect, ToolTerminalStatus
<1>7. CASE \E status \in ToolTerminalStatus : ToolReturns(status)
  <2>1. PICK status \in ToolTerminalStatus : ToolReturns(status)
    BY <1>7
  <2>2. TerminalIsLegal(call, Current, status) /\ pc = "executing"
    BY <2>1 DEF ToolReturns, LegalNow
  <2>3. Tells(Current, status, times)
    BY <1>3, <2>2 DEF Tells, TerminalIsLegal
  <2> QED BY <1>5, <2>1, <2>2, <2>3 DEF ToolReturns, Admitted
<1>8. CASE EnterTool
  <2>1. /\ pc = "call" /\ pc' = "executing"
        /\ entered' = [entered EXCEPT ![run.turn][Current] = @ + 1]
        /\ UNCHANGED <<store, mode, cancelled, run, failed, consent, crashes>>
    BY <1>8 DEF EnterTool, HasEffect
  <2>2. Current' = Current /\ Busy /\ Busy'
    BY <2>1 DEF Current, Busy
  <2>3. /\ entered' \in [TurnIds -> [CallIds -> Nat]]
        /\ entered'[run.turn][Current] = 1
        /\ \A t \in TurnIds, c \in CallIds :
             ~(t = run.turn /\ c = Current) => entered'[t][c] = entered[t][c]
    BY <1>2, <1>3, <2>1 DEF IInv, TypeOK
  <2>4. TypeOK'
    BY <2>1, <2>3 DEF IInv, TypeOK
  <2>5. EffectsRecorded'
    BY <1>3, <2>1, <2>3 DEF IInv, EffectsRecorded
  <2>6. ResultsTruthful'
    <3>1. ASSUME NEW t \in TurnIds, NEW c \in CallIds
          PROVE  (LET result == store.turns[t].calls[c].result IN
                  /\ result = "Succeeded" => entered[t][c] = 1
                  /\ result \in {"Rejected", "Cancelled"} /\ c \notin ShellCalls
                       => entered[t][c] = 0)'
      <4>1. CASE t = run.turn /\ c = Current
        BY <1>3, <2>1, <4>1
      <4>2. CASE ~(t = run.turn /\ c = Current)
        BY <2>1, <2>3, <4>2 DEF IInv, ResultsTruthful
      <4> QED BY <4>1, <4>2
    <3> QED BY <3>1 DEF ResultsTruthful
  <2>7. CurrentFits'
    <3>1. call.decision = "Approved"
      BY <1>1, CallContext DEF CallFits
    <3> QED BY <1>1, <1>3, <2>1, <2>2, <2>3, <3>1 DEF CurrentFits, CallFits
  <2>8. AtACall' /\ Consented'
    BY <1>1, <2>1, <2>2 DEF IInv, AtACall, Consented
  <2>9. Driving' /\ NothingElseOpen' /\ MachineSound(store)'
    BY <2>1, <2>2 DEF IInv, Driving, NothingElseOpen
  <2> QED BY <2>4, <2>5, <2>6, <2>7, <2>8, <2>9 DEF IInv
<1> QED BY <1>6, <1>7, <1>8

-----------------------------------------------------------------------------
(* The steps between calls, and those of the provider round. *)

(* A step inside a run that touches no call: no call is in progress, before   *)
(* or after.                                                                  *)
LEMMA BetweenCalls ==
    ASSUME IInv, Busy, NEW next \in Run, NEW where \in {"round", "streaming", "call"},
           next.turn = run.turn, next.inv = "none", next.queue = << >>,
           where = "call" => next.at # 0,
           Go(where, next), UNCHANGED <<store, consent>>,
           run.inv # "none" => ~Open(store.turns[run.turn].calls[Current])
    PROVE  IInv'
<1>1. /\ run' = next /\ pc' = where /\ entered' = entered /\ store' = store
      /\ UNCHANGED <<mode, cancelled, failed, consent, crashes>> /\ Busy'
  BY DEF Go, Busy
<1>2. History' /\ Driving'
  BY <1>1, Untouched
<1>3. TypeOK'
  BY <1>1 DEF IInv, TypeOK
<1>4. AtACall' /\ CurrentFits' /\ Consented'
  BY <1>1 DEF AtACall, CurrentFits, Consented
<1>5. NothingElseOpen'
  BY <1>1 DEF IInv, NothingElseOpen
<1> QED BY <1>2, <1>3, <1>4, <1>5 DEF IInv, History

(* Nothing is in progress while the provider streams or is about to.          *)
LEMMA RoundContext ==
    ASSUME IInv, pc \in {"round", "streaming"}
    PROVE  run.inv = "none" /\ run.queue = << >> /\ Busy /\ run \in Run
<1>1. run.inv = "none"
  BY DEF IInv, AtACall
<1> QED BY <1>1 DEF IInv, AtACall, TypeOK, Busy

(* A round is opened, a call arrives, or the stream ends with calls to make.  *)
LEMMA RoundSteps ==
    ASSUME IInv, OpenRound \/ BeginTools \/ \E c \in CallIds : ToolCallFragments(c)
    PROVE  IInv'
<1>0. pc \in {"round", "streaming"}
  BY DEF OpenRound, BeginTools, ToolCallFragments
<1>1. run.inv = "none" /\ run.queue = << >> /\ Busy /\ run \in Run
  BY <1>0, RoundContext
<1>2. CASE OpenRound
  <2> DEFINE next == [run EXCEPT !.rounds = @ + 1]
  <2>1. Go("streaming", next) /\ UNCHANGED <<store, consent>>
    BY <1>2 DEF OpenRound
  <2>2. /\ next \in Run /\ next.turn = run.turn /\ next.inv = "none"
        /\ next.queue = << >>
    BY <1>1 DEF Run
  <2> QED BY <1>1, <2>1, <2>2, BetweenCalls
<1>3. CASE BeginTools
  <2> DEFINE next == [run EXCEPT !.at = 1]
  <2>1. Go("call", next) /\ UNCHANGED <<store, consent>>
    BY <1>3 DEF BeginTools
  <2>2. /\ next \in Run /\ next.turn = run.turn /\ next.inv = "none"
        /\ next.queue = << >> /\ next.at # 0
    BY <1>1 DEF Run
  <2> HIDE DEF next
  <2> QED BY <1>1, <2>1, <2>2, BetweenCalls
<1>4. ASSUME NEW c \in CallIds, ToolCallFragments(c)
      PROVE  IInv'
  <2> DEFINE next == [run EXCEPT !.pending = Append(@, c)]
  <2>1. Go("streaming", next) /\ UNCHANGED <<store, consent>>
    BY <1>4 DEF ToolCallFragments
  <2>2. Append(run.pending, c) \in Seq(CallIds)
    BY <1>1 DEF Run
  <2>3. /\ next \in Run /\ next.turn = run.turn /\ next.inv = "none"
        /\ next.queue = << >>
    BY <1>1, <2>2 DEF Run
  <2> QED BY <1>1, <2>1, <2>3, BetweenCalls
<1> QED BY <1>2, <1>3, <1>4

(* Text arrives. *)
LEMMA DeltaStep ==
    ASSUME IInv, VisibleTextDelta
    PROVE  IInv'
<1> DEFINE r == TurnDelta(store.active, run.turn)
<1>1. /\ pc = "streaming" /\ Journal(r) /\ consent' = consent
      /\ pc' = pc /\ run' = run /\ entered' = entered
      /\ UNCHANGED <<mode, cancelled, failed, crashes>>
  BY DEF VisibleTextDelta, Go
<1>2. run.inv = "none" /\ run.queue = << >> /\ Busy /\ run \in Run
  BY <1>1, RoundContext
<1>3. run.turn \in TurnIds /\ store.active \in SessionIds
  BY <1>2 DEF IInv, Driving
<1>4. r \in Record
  BY <1>3 DEF Record
<1>5. /\ r.kind = "TurnDelta" /\ r.turn = run.turn
  BY DEF TurnDelta
<1> HIDE DEF r
<1>6. r.kind \in TurnKinds \ TerminalKinds /\ r.kind \notin ToolKinds
  BY <1>5 DEF TurnKinds, TerminalKinds, ToolKinds
<1>7. History' /\ Driving'
  BY <1>1, <1>2, <1>4, <1>5, <1>6, TurnJournal
<1>8. TypeOK'
  BY <1>1, <1>7 DEF IInv, TypeOK, History
<1>9. AtACall' /\ CurrentFits' /\ Consented'
  BY <1>1, <1>2 DEF AtACall, CurrentFits, Consented
<1>10. NothingElseOpen'
  <2>1. Accepts(store, r) /\ store' = After(store, r)
    BY <1>1 DEF Journal, Issues
  <2>2. \A c \in CallIds :
          store'.turns[run.turn].calls[c] = store.turns[run.turn].calls[c]
    BY <1>3, <1>4, <1>6, <2>1, CallAfter DEF IInv, TypeOK
  <2> QED BY <1>1, <1>2, <2>2 DEF IInv, NothingElseOpen
<1> QED BY <1>7, <1>8, <1>9, <1>10 DEF IInv, History

(* A call is taken up, or put away with its result. *)
LEMMA CallBoundary ==
    ASSUME IInv, RegisterCall \/ NextCall \/ ContinueAfterTools
    PROVE  IInv'
<1>1. pc = "call" /\ Busy /\ run \in Run /\ run.at # 0
  BY DEF RegisterCall, NextCall, ContinueAfterTools, Busy, IInv, TypeOK, AtACall
<1>2. CASE NextCall
  <2> DEFINE next == [run EXCEPT !.inv = "none", !.at = @ + 1]
  <2>1. /\ run.inv = "Terminal" /\ run.queue = << >>
        /\ Go("call", next) /\ UNCHANGED <<store, consent>>
    BY <1>2 DEF NextCall
  <2>2. /\ next \in Run /\ next.turn = run.turn /\ next.inv = "none"
        /\ next.queue = << >> /\ next.at # 0
    <3>1. run.at \in Nat
      BY <1>1 DEF Run
    <3>2. run.at + 1 \in Nat /\ run.at + 1 # 0
      BY <3>1
    <3> QED BY <1>1, <2>1, <3>2 DEF Run
  <2> HIDE DEF next
  <2>3. store.turns[run.turn].calls[Current].result # "none"
    <3>1. \A e, f : << >> # <<e>> /\ << >> # <<e, f>>
      OBVIOUS
    <3> QED BY <2>1, <3>1, CallContext DEF CallFits
  <2>4. ~Open(store.turns[run.turn].calls[Current])
    BY <2>3 DEF Open
  <2> QED BY <1>1, <2>1, <2>2, <2>4, BetweenCalls
<1>3. CASE ContinueAfterTools
  <2> DEFINE next == [run EXCEPT !.pending = << >>, !.at = 0]
  <2>1. /\ run.inv = "none" /\ Go("round", next) /\ UNCHANGED <<store, consent>>
    BY <1>3 DEF ContinueAfterTools
  <2>2. run.queue = << >>
    BY <2>1 DEF IInv, AtACall
  <2>3. /\ next \in Run /\ next.turn = run.turn /\ next.inv = "none"
        /\ next.queue = << >>
    <3>1. << >> \in Seq(CallIds)
      OBVIOUS
    <3> QED BY <1>1, <2>1, <2>2, <3>1 DEF Run
  <2> HIDE DEF next
  <2> QED BY <1>1, <2>1, <2>3, BetweenCalls
<1>4. CASE RegisterCall
  <2> DEFINE queue == <<ToolRequested(store.active, run.turn, Current)>>
             next  == [run EXCEPT !.inv = "Requested", !.queue = queue]
             call  == store.turns[run.turn].calls[Current]
  <2>1. /\ run.inv = "none" /\ run.at <= Len(run.pending) /\ ~Requested(Current)
        /\ Go("call", next) /\ UNCHANGED <<store, consent>>
    BY <1>1, <1>4 DEF RegisterCall
  <2>2. /\ run.turn \in TurnIds /\ store.active \in SessionIds
        /\ store \in Machine /\ entered \in [TurnIds -> [CallIds -> Nat]]
    BY <1>1 DEF IInv, Driving, TypeOK
  <2>3. Current \in CallIds
    <3>1. run.pending \in Seq(CallIds) /\ run.at \in Nat
      BY <1>1 DEF Run
    <3>2. run.at \in 1..Len(run.pending)
      BY <1>1, <2>1, <3>1
    <3> QED BY <3>1, <3>2 DEF Current
  <2>4. call = NoCall /\ entered[run.turn][Current] = 0
    <3>1. CallSound(call, Current)
      BY <2>2, <2>3 DEF IInv, MachineSound, TurnSound
    <3>2. ~call.requested
      BY <2>1 DEF Requested
    <3>3. call = NoCall
      BY <3>1, <3>2 DEF CallSound
    <3>4. ~call.started
      BY <3>3 DEF NoCall
    <3>5. /\ entered[run.turn][Current] <= 1
          /\ entered[run.turn][Current] = 1 => call.started
      BY <2>2, <2>3 DEF IInv, EffectsRecorded
    <3>6. entered[run.turn][Current] \in Nat
      BY <2>2, <2>3
    <3> QED BY <3>3, <3>4, <3>5, <3>6
  <2>5. queue \in Seq(Effects)
    BY <2>2, <2>3, CallRecords, OneEffect
  <2>6. /\ next \in Run /\ next.turn = run.turn /\ next.inv = "Requested"
        /\ next.queue = queue /\ next.pending = run.pending /\ next.at = run.at
    <3> HIDE DEF queue
    <3> QED BY <1>1, <2>5 DEF Run
  <2>7. /\ run' = next /\ pc' = "call" /\ entered' = entered /\ store' = store
        /\ UNCHANGED <<mode, cancelled, failed, consent, crashes>>
    BY <2>1 DEF Go
  <2> HIDE DEF next
  <2>8. Current' = Current /\ Busy'
    BY <2>6, <2>7 DEF Current, Busy
  <2>9. History' /\ Driving'
    BY <1>1, <2>6, <2>7, Untouched
  <2>10. TypeOK'
    BY <2>6, <2>7 DEF IInv, TypeOK
  <2>11. AtACall'
    BY <1>1, <2>1, <2>6, <2>7 DEF AtACall
  <2>12. CurrentFits'
    BY <2>4, <2>6, <2>7, <2>8 DEF CurrentFits, CallFits
  <2>13. Consented'
    BY <2>6, <2>7 DEF Consented
  <2>14. NothingElseOpen'
    BY <1>1, <2>1, <2>6, <2>7, <2>8 DEF IInv, NothingElseOpen
  <2> QED BY <2>9, <2>10, <2>11, <2>12, <2>13, <2>14 DEF IInv, History
<1> QED BY <1>2, <1>3, <1>4

-----------------------------------------------------------------------------
(* The steps that leave no run behind. *)

(* A step to or within the time between runs: what is left is the history.    *)
LEMMA Settled ==
    ASSUME IInv, History', run' = NoRun, pc' \in {"down", "opening", "idle"},
           mode' \in {"Confirm", "FullAccess"}, cancelled' \in BOOLEAN,
           failed' \in BOOLEAN, consent' = consent, crashes' \in Nat
    PROVE  IInv'
<1>1. /\ Driving' /\ AtACall' /\ CurrentFits' /\ NothingElseOpen' /\ Consented'
      /\ run' \in Run
  BY Resting
<1>2. TypeOK'
  BY <1>1 DEF IInv, TypeOK, History
<1> QED BY <1>1, <1>2 DEF IInv, History

(* A step that touches neither the store nor the adapter keeps the history.   *)
LEMMA HistorySame ==
    ASSUME History, UNCHANGED <<store, entered>>
    PROVE  History'
BY DEF History, EffectsRecorded, ResultsTruthful

(* An error of the run keeps the invariant.                                   *)
LEMMA AbortStep ==
    ASSUME IInv, Abort
    PROVE  IInv'
<1>1. History'
  BY HistorySame DEF IInv, TypeOK, History, Abort
<1> QED BY <1>1, Settled DEF Abort, IInv, TypeOK

(* A record that is no call's, appended while the driver comes to rest.       *)
LEMMA RestingJournal ==
    ASSUME IInv, NEW r \in Record, Journal(r), r.kind # "ToolTerminal",
           entered' = entered
    PROVE  History'
<1>1. Accepts(store, r) /\ store' = After(store, r)
  BY DEF Journal, Issues
<1> QED BY <1>1, HistoryKept DEF IInv, TypeOK, History

(* A terminal record that ends the run keeps the invariant.                   *)
LEMMA FinishStep ==
    ASSUME IInv, Busy, NEW outcome \in Terminal, Finish(outcome)
    PROVE  IInv'
<1> DEFINE r == TurnTerminal(store.active, run.turn, outcome)
<1>1. r \in Record
  BY DEF IInv, Driving, Record
<1>2. r.kind # "ToolTerminal"
  BY DEF TurnTerminal
<1>3. Journal(r) /\ entered' = entered
  BY DEF Finish
<1> HIDE DEF r
<1>4. History'
  BY <1>1, <1>2, <1>3, RestingJournal
<1> QED BY <1>4, Settled DEF Finish, IInv, TypeOK

(* Every way a run ends. *)
LEMMA EndSteps ==
    ASSUME IInv,
           \/ InterruptRound \/ ExhaustRounds
           \/ UnofferedToolCall \/ BadToolCallFragments
           \/ \E outcome \in Terminal : FinishStream(outcome)
           \/ DuplicateCall \/ RecordRefused \/ JournalFails
           \/ \E status \in ToolTerminalStatus : ToolReturnsIllegal(status)
    PROVE  IInv'
<1>1. ASSUME NEW outcome \in Terminal, pc \in {"round", "streaming"}, Finish(outcome)
      PROVE  IInv'
  BY <1>1, FinishStep DEF Busy
<1>2. CASE InterruptRound
  BY <1>1, <1>2 DEF InterruptRound, Terminal
<1>3. CASE ExhaustRounds
  BY <1>1, <1>3 DEF ExhaustRounds, Terminal
<1>4. CASE UnofferedToolCall
  BY <1>1, <1>4 DEF UnofferedToolCall, Terminal
<1>5. CASE \E outcome \in Terminal : FinishStream(outcome)
  BY <1>1, <1>5 DEF FinishStream
<1>6. CASE BadToolCallFragments \/ DuplicateCall \/ RecordRefused \/ JournalFails
  BY <1>6, AbortStep DEF BadToolCallFragments, DuplicateCall, RecordRefused, JournalFails
<1>7. CASE \E status \in ToolTerminalStatus : ToolReturnsIllegal(status)
  BY <1>7, AbortStep DEF ToolReturnsIllegal
<1> QED BY <1>2, <1>3, <1>4, <1>5, <1>6, <1>7

(* Session commands, the mode, and opening the driver. *)
LEMMA IdleSteps ==
    ASSUME IInv,
           \/ \E s \in SessionIds : NewSession(s) \/ ResumeSession(s)
           \/ \E t \in TurnIds : CompactActive(t)
           \/ EnsureSession
    PROVE  IInv'
<1>1. ASSUME NEW r \in Record, Journal(r), r.kind # "ToolTerminal",
             Go("idle", NoRun), consent' = consent
      PROVE  IInv'
  <2>1. History'
    BY <1>1, RestingJournal DEF Go
  <2> QED BY <1>1, <2>1, Settled DEF Go, IInv, TypeOK
<1>2. \A s \in SessionIds :
        /\ SessionCreated(s) \in Record /\ SessionCreated(s).kind # "ToolTerminal"
        /\ SessionActivated(s) \in Record /\ SessionActivated(s).kind # "ToolTerminal"
  <2>1. \A s \in SessionIds : SessionCreated(s) \in Record /\ SessionActivated(s) \in Record
    BY DEF Record
  <2>2. \A s : /\ SessionCreated(s).kind # "ToolTerminal"
              /\ SessionActivated(s).kind # "ToolTerminal"
    BY DEF SessionCreated, SessionActivated
  <2> QED BY <2>1, <2>2
<1>3. CASE \E s \in SessionIds : NewSession(s) \/ ResumeSession(s)
  BY <1>1, <1>2, <1>3 DEF NewSession, ResumeSession
<1>4. CASE \E t \in TurnIds : CompactActive(t)
  <2>1. PICK t \in TurnIds : CompactActive(t)
    BY <1>4
  <2>2. store.active \in SessionIds
    BY <2>1 DEF CompactActive, IInv, TypeOK, Machine
  <2>3. /\ CompactionStored(store.active, t) \in Record
        /\ CompactionStored(store.active, t).kind # "ToolTerminal"
    BY <2>2 DEF Record, CompactionStored
  <2> QED BY <1>1, <2>1, <2>3 DEF CompactActive
<1>5. CASE EnsureSession
  <2>1. CASE store' = store
    <3>1. History'
      BY <1>5, <2>1, HistorySame DEF IInv, TypeOK, History, EnsureSession, Go
    <3> QED BY <1>5, <3>1, Settled DEF EnsureSession, Go, IInv, TypeOK
  <2>2. CASE \E s \in SessionIds : Journal(SessionCreated(s))
    BY <1>1, <1>2, <1>5, <2>2 DEF EnsureSession
  <2> QED BY <1>5, <2>1, <2>2 DEF EnsureSession
<1> QED BY <1>3, <1>4, <1>5

(* The token, the mode, and the end and the beginning of a process. *)
LEMMA ProcessSteps ==
    ASSUME IInv,
           \/ Cancel \/ Crash \/ Recover \/ OpenDriver
           \/ \E m \in {"Confirm", "FullAccess"} : SetPermissionMode(m)
    PROVE  IInv'
<1>0. History
  BY DEF IInv, TypeOK, History
<1>1. CASE Cancel
  <2>1. /\ UNCHANGED <<store, pc, mode, run, failed, consent, entered, crashes>>
        /\ cancelled' = TRUE
    BY <1>1 DEF Cancel
  <2>2. TypeOK'
    BY <2>1 DEF IInv, TypeOK
  <2>3. /\ MachineSound(store)' /\ Driving' /\ AtACall' /\ NothingElseOpen'
        /\ EffectsRecorded' /\ ResultsTruthful' /\ Consented'
    BY <2>1 DEF IInv, Driving, AtACall, NothingElseOpen, EffectsRecorded,
                ResultsTruthful, Consented, Busy, Current
  <2>4. CurrentFits'
    BY <2>1 DEF IInv, CurrentFits, CallFits, Current
  <2> QED BY <2>2, <2>3, <2>4 DEF IInv
<1>2. CASE Crash
  <2>1. History'
    BY <1>0, <1>2, HistorySame DEF Crash
  <2>2. crashes' \in Nat
    BY <1>2 DEF Crash, IInv, TypeOK
  <2> QED BY <1>2, <2>1, <2>2, Settled DEF Crash
<1>3. CASE OpenDriver
  <2>1. History'
    BY <1>0, <1>3, HistorySame DEF OpenDriver, Go
  <2> QED BY <1>3, <2>1, Settled DEF OpenDriver, Go, IInv, TypeOK
<1>4. CASE Recover
  <2>1. PICK r \in RecoveryRecords(store) : store' = After(store, r)
    BY <1>4 DEF Recover
  <2>2. r \in Record /\ Accepts(store, r) /\ r.kind \in TurnKinds
    BY <1>0, RecoveryAccepted DEF History
  <2>3. ASSUME r.kind = "ToolTerminal"
        PROVE  Tells(r.call, r.result, entered[r.turn][r.call])
    <3>1. r.turn \in TurnIds /\ r.call \in CallIds
      BY <2>2, <2>3, RecordFields DEF ToolKinds
    <3>2. entered[r.turn][r.call] \in Nat /\ entered[r.turn][r.call] <= 1
      BY <1>0, <3>1 DEF History, EffectsRecorded
    <3>3. entered[r.turn][r.call] = 1 => store.turns[r.turn].calls[r.call].started
      BY <1>0, <3>1 DEF History, EffectsRecorded
    <3>4. /\ r.result \in {"Indeterminate", "Cancelled"}
          /\ r.result = "Cancelled" => ~store.turns[r.turn].calls[r.call].started
      BY <2>3, RecoverySays
    <3>5. r.result = "Cancelled" => entered[r.turn][r.call] = 0
      BY <3>2, <3>3, <3>4
    <3> QED BY <3>4, <3>5 DEF Tells
  <2>4. History'
    BY <1>0, <1>4, <2>1, <2>2, <2>3, HistoryKept DEF Recover
  <2>5. pc = "down" /\ run' = run
    BY <1>4 DEF Recover
  <2>6. TypeOK'
    BY <1>4, <2>4 DEF Recover, IInv, TypeOK, History
  <2>7. run'.inv = "none" /\ run'.queue = << >> /\ pc' = "down" /\ ~Busy'
    BY <1>4, <2>5 DEF Recover, IInv, AtACall, Busy
  <2>8. Driving' /\ AtACall' /\ CurrentFits' /\ NothingElseOpen' /\ Consented'
    BY <2>7 DEF Driving, AtACall, CurrentFits, NothingElseOpen, Consented
  <2> QED BY <2>4, <2>6, <2>8 DEF IInv, History
<1>5. CASE \E m \in {"Confirm", "FullAccess"} : SetPermissionMode(m)
  <2>1. /\ pc = "idle" /\ mode' \in {"Confirm", "FullAccess"}
        /\ UNCHANGED <<store, pc, cancelled, run, failed, consent, entered, crashes>>
    BY <1>5 DEF SetPermissionMode
  <2>2. TypeOK'
    BY <2>1 DEF IInv, TypeOK
  <2>3. History'
    BY <1>0, <2>1, HistorySame
  <2>4. run'.inv = "none" /\ run'.queue = << >> /\ pc' = "idle" /\ ~Busy'
    BY <2>1 DEF IInv, AtACall, Busy
  <2>5. Driving' /\ AtACall' /\ CurrentFits' /\ NothingElseOpen' /\ Consented'
    BY <2>4 DEF Driving, AtACall, CurrentFits, NothingElseOpen, Consented
  <2> QED BY <2>2, <2>3, <2>5 DEF IInv, History
<1> QED BY <1>1, <1>2, <1>3, <1>4, <1>5

(* A run begins with a turn in which no call is known. *)
LEMMA BeginStep ==
    ASSUME IInv, NEW t \in TurnIds, NEW agent \in BOOLEAN, Begin(t, agent)
    PROVE  IInv'
<1> DEFINE r == TurnStarted(store.active, t)
           next == [NoRun EXCEPT !.agent = agent, !.turn = t]
<1>1. /\ store.active # NoSession /\ Journal(r) /\ consent' = {}
      /\ pc' \in {"round", "streaming"} /\ run' = next /\ entered' = entered
      /\ UNCHANGED <<mode, cancelled, failed, crashes>>
  BY DEF Begin, Go
<1>2. store.active \in SessionIds /\ store \in Machine /\ MachineSound(store)
  BY <1>1 DEF IInv, TypeOK, Machine
<1>3. r \in Record
  BY <1>2 DEF Record
<1>4. r.kind = "TurnStarted" /\ r.turn = t /\ r.session = store.active
  BY DEF TurnStarted
<1>5. /\ next \in Run /\ next.turn = t /\ next.inv = "none" /\ next.queue = << >>
  <2>1. NoRun \in Run
    BY DEF NoRun, Run
  <2> QED BY <2>1 DEF NoRun, Run
<1> HIDE DEF r, next
<1>6. History'
  BY <1>1, <1>3, <1>4, RestingJournal
<1>7. Accepts(store, r) /\ store' = After(store, r)
  BY <1>1 DEF Journal, Issues
<1>8. store' = [store EXCEPT !.turns[r.turn] = NewTurn(store, r.session)]
  BY <1>4, <1>7, AfterByKind
<1>9. /\ store'.turns[t] = NewTurn(store, store.active)
      /\ store'.active = store.active
  BY <1>2, <1>4, <1>8 DEF Machine
<1>10. Driving'
  BY <1>1, <1>2, <1>5, <1>9, NewTurnSound DEF Driving
<1>11. NothingElseOpen'
  <2>1. NewTurn(store, store.active).calls = [c \in CallIds |-> NoCall]
    BY DEF NewTurn, AbsentTurn
  <2>2. \A c \in CallIds : ~Open(store'.turns[t].calls[c])
    BY <1>9, <2>1 DEF Open, NoCall
  <2> QED BY <1>1, <1>5, <2>2 DEF NothingElseOpen
<1>12. AtACall' /\ CurrentFits' /\ Consented'
  BY <1>1, <1>5 DEF AtACall, CurrentFits, Consented
<1>13. TypeOK'
  BY <1>1, <1>5, <1>6 DEF IInv, TypeOK, History
<1> QED BY <1>6, <1>10, <1>11, <1>12, <1>13 DEF IInv, History

-----------------------------------------------------------------------------
(* The invariant, and what follows from it. *)

(* A process that was never started has an empty store and no run.            *)
LEMMA InvInit == Init => IInv
<1> SUFFICES ASSUME Init PROVE IInv
  OBVIOUS
<1>1. /\ store = EmptyMachine /\ pc = "down" /\ mode = "Confirm" /\ cancelled = FALSE
      /\ run = NoRun /\ failed = FALSE /\ consent = {} /\ crashes = 0
      /\ entered = [t \in TurnIds |-> [c \in CallIds |-> 0]]
  BY DEF Init
<1>2. /\ store \in Machine /\ MachineSound(store)
      /\ \A t \in TurnIds, c \in CallIds : store.turns[t].calls[c].result = "none"
  <2>1. \A t \in TurnIds : EmptyMachine.turns[t].calls = [c \in CallIds |-> NoCall]
    BY DEF EmptyMachine, AbsentTurn
  <2> QED BY <1>1, <2>1, EmptyIsSound DEF NoCall
<1>3. run \in Run /\ run.inv = "none" /\ run.queue = << >> /\ ~Busy
  BY <1>1 DEF NoRun, Run, Busy
<1>4. entered \in [TurnIds -> [CallIds -> Nat]]
  BY <1>1
<1>5. TypeOK
  BY <1>1, <1>2, <1>3, <1>4 DEF TypeOK
<1>6. EffectsRecorded /\ ResultsTruthful
  BY <1>1, <1>2 DEF EffectsRecorded, ResultsTruthful
<1>7. Driving /\ AtACall /\ CurrentFits /\ NothingElseOpen /\ Consented
  BY <1>1, <1>3 DEF Driving, AtACall, CurrentFits, NothingElseOpen, Consented
<1> QED BY <1>2, <1>5, <1>6, <1>7 DEF IInv

(* Every action keeps the invariant.                                          *)
LEMMA InvNext == IInv /\ Next => IInv'
<1> SUFFICES ASSUME IInv, Next PROVE IInv'
  OBVIOUS
<1>1. CASE Between
  BY <1>1, BeginStep, IdleSteps, ProcessSteps DEF Between
<1>2. CASE Cancel \/ Crash \/ Recover \/ OpenDriver
  BY <1>2, ProcessSteps
<1>3. CASE EnsureSession
  BY <1>3, IdleSteps
<1>4. CASE RoundStep
  BY <1>4, EndSteps, RoundSteps DEF RoundStep
<1>5. CASE StreamEnd
  BY <1>5, EndSteps, RoundSteps DEF StreamEnd
<1>6. CASE CallStep
  <2>1. CASE CancelRequested \/ PreflightAllowed
             \/ \E status \in ToolTerminalStatus : PreflightDenied(status)
    <3>1. Preflighting
      BY <2>1 DEF CancelRequested, PreflightAllowed, PreflightDenied
    <3> QED BY <2>1, <3>1, PreflightSteps
  <2>2. CASE CancelApproval
    BY <2>2, ApprovalSteps
  <2>3. CASE Persist
    BY <2>3, PersistStep
  <2>4. CASE StartApproved \/ OverBudget
    BY <2>4, ApprovedSteps
  <2>5. CASE CancelStarted \/ EnterTool
    BY <2>5, ExecuteSteps
  <2>6. CASE RegisterCall \/ NextCall \/ ContinueAfterTools
    BY <2>6, CallBoundary
  <2>7. CASE DuplicateCall \/ RecordRefused
    BY <2>7, EndSteps
  <2> QED BY <1>6, <2>1, <2>2, <2>3, <2>4, <2>5, <2>6, <2>7 DEF CallStep
<1>7. CASE ToolStep
  BY <1>7, ExecuteSteps, EndSteps DEF ToolStep
<1>8. CASE JournalFails
  BY <1>8, EndSteps
<1>9. CASE VisibleTextDelta
  BY <1>9, DeltaStep
<1>10. CASE \E c \in CallIds : ToolCallFragments(c)
  BY <1>10, RoundSteps
<1>11. CASE UserApproves \/ UserRejects
  BY <1>11, ApprovalSteps
<1> QED BY <1>1, <1>2, <1>3, <1>4, <1>5, <1>6, <1>7, <1>8, <1>9, <1>10, <1>11
        DEF Next, RunStep

(* A step that changes nothing keeps it.                                      *)
LEMMA InvStutter == IInv /\ UNCHANGED vars => IInv'
<1> SUFFICES ASSUME IInv, UNCHANGED vars PROVE IInv'
  OBVIOUS
<1>1. /\ TypeOK' /\ MachineSound(store)' /\ Driving' /\ AtACall' /\ NothingElseOpen'
      /\ Consented' /\ EffectsRecorded' /\ ResultsTruthful'
  BY DEF IInv, vars, TypeOK, Driving, AtACall, NothingElseOpen, Consented,
         EffectsRecorded, ResultsTruthful, Busy, Current
<1>2. CurrentFits'
  BY DEF IInv, vars, CurrentFits, CallFits, Current
<1> QED BY <1>1, <1>2 DEF IInv

(* The invariant holds in every behaviour of the driver.                      *)
LEMMA Invariance == Spec => []IInv
BY InvInit, InvNext, InvStutter, PTL DEF Spec

(* The driver's state always has its type.                                    *)
THEOREM AgentTypeCorrect == Spec => []TypeOK
BY Invariance, PTL DEF IInv

(* No tool is entered twice for a call, and none without its start on disk.   *)
THEOREM EffectsAlwaysRecorded == Spec => []EffectsRecorded
BY Invariance, PTL DEF IInv

(* The durable result of a call never lies about the tool.                    *)
THEOREM ResultsAlwaysTruthful == Spec => []ResultsTruthful
BY Invariance, PTL DEF IInv

(* The store takes every record the driver is about to append but one: the    *)
(* Indeterminate result of a call whose preflight answered that.              *)
THEOREM StoreAlwaysAgrees == Spec => []StoreAgrees
<1>1. IInv => StoreAgrees
  <2> SUFFICES ASSUME IInv PROVE StoreAgrees
    OBVIOUS
  <2>1. ASSUME NEW r, r.turn = run.turn, r.session = store.active, Busy,
               r.kind \in ToolKinds => AcceptsTool(store.turns[run.turn].calls[r.call], r),
               r.kind \in TerminalKinds => ~HasOpenCall(store.turns[run.turn]),
               r.kind \in ToolKinds \cup {"TurnTerminal"}
        PROVE  Issues(store, r)
    <3>1. AcceptsInTurn(store.turns[r.turn], r)
      BY <2>1 DEF AcceptsInTurn, IInv, Driving
    <3>2. r.kind \in TurnKinds
      BY <2>1 DEF TurnKinds, TerminalKinds
    <3>3. Accepts(store, r)
      BY <3>1, <3>2, <2>1 DEF Accepts, ToolKinds
    <3> QED BY <2>1, <3>3 DEF Issues, ToolKinds
  <2>2. ASSUME HasEffect(ToolKinds), ~UnknownUnstarted PROVE Issues(store, Effect)
    <3> DEFINE call == store.turns[run.turn].calls[Current]
    <3>1. pc = "call" /\ run.queue # << >> /\ Effect.kind \in ToolKinds /\ Busy
      BY <2>2 DEF HasEffect, Busy
    <3>2. run.inv # "none"
      BY <3>1 DEF IInv, AtACall
    <3>3. Effect.kind \notin TerminalKinds
      BY <3>1 DEF ToolKinds, TerminalKinds
    <3>4. /\ Effect.turn = run.turn /\ Effect.session = store.active
          /\ Effect.call = Current /\ AcceptsTool(call, Effect)
      <4>1. CASE Effect.kind = "ToolRequested"
        <5>1. /\ Effect = ToolRequested(store.active, run.turn, Current)
              /\ call = NoCall
          BY <3>1, <3>2, <4>1, HeadKind DEF Effect
        <5> QED BY <5>1 DEF ToolRequested, AcceptsTool, NoCall
      <4>2. CASE Effect.kind = "ToolDecisionRecorded"
        <5>1. /\ Fresh(call)
              /\ \E d : Effect = ToolDecided(store.active, run.turn, Current, d)
          BY <3>1, <3>2, <4>2, HeadKind DEF Effect
        <5> QED BY <5>1 DEF ToolDecided, AcceptsTool, Fresh
      <4>3. CASE Effect.kind = "ToolStarted"
        <5>1. /\ Effect = ToolStarted(store.active, run.turn, Current)
              /\ call.requested /\ call.decision = "Approved" /\ ~call.started
              /\ call.result = "none"
          BY <3>1, <3>2, <4>3, HeadKind DEF Effect
        <5> QED BY <5>1 DEF ToolStarted, AcceptsTool
      <4>4. CASE Effect.kind = "ToolTerminal"
        <5>1. /\ call.requested /\ call.result = "none"
              /\ \E status : /\ Effect = ToolTerminal(store.active, run.turn, Current, status)
                             /\ Admitted(call, Current, status)
          BY <3>1, <3>2, <4>4, HeadKind DEF Effect
        <5>2. TerminalIsLegal(call, Current, Effect.result)
          BY <2>2, <5>1 DEF Admitted, UnknownUnstarted, Result, ToolTerminal
        <5> QED BY <5>1, <5>2 DEF ToolTerminal, AcceptsTool
      <4> QED BY <3>1, <4>1, <4>2, <4>3, <4>4 DEF ToolKinds
    <3> QED BY <2>1, <3>1, <3>3, <3>4
  <2>3. ASSUME HasEffect(ToolKinds), UnknownUnstarted PROVE ~Issues(store, Effect)
    <3>1. /\ Effect.kind = "ToolTerminal" /\ Effect.turn = run.turn
          /\ Effect.call = Current /\ Effect.result = "Indeterminate"
      BY <2>3 DEF UnknownUnstarted, Result, ToolTerminal
    <3>2. ~AcceptsTool(store.turns[run.turn].calls[Current], Effect)
      BY <2>3, <3>1 DEF UnknownUnstarted, AcceptsTool, TerminalIsLegal
    <3>3. ~AcceptsInTurn(store.turns[Effect.turn], Effect)
      BY <3>1, <3>2 DEF AcceptsInTurn, ToolKinds
    <3>4. ~Accepts(store, Effect)
      BY <3>1, <3>3, AcceptsByKind DEF TurnKinds, ToolKinds
    <3> QED BY <3>4 DEF Issues
  <2>4. ASSUME pc \in {"round", "streaming"}, NEW outcome \in Terminal
        PROVE  Issues(store, TurnTerminal(store.active, run.turn, outcome))
    <3> DEFINE r == TurnTerminal(store.active, run.turn, outcome)
    <3>1. /\ r.kind = "TurnTerminal" /\ r.turn = run.turn /\ r.session = store.active
      BY DEF TurnTerminal
    <3>2. Busy /\ run.inv = "none"
      BY <2>4, RoundContext
    <3>3. ~HasOpenCall(store.turns[run.turn])
      BY <3>2 DEF IInv, NothingElseOpen, HasOpenCall
    <3>4. r.kind \notin ToolKinds
      BY <3>1 DEF ToolKinds
    <3> HIDE DEF r
    <3>5. Issues(store, r)
      BY <2>1, <3>1, <3>2, <3>3, <3>4
    <3> QED BY <3>5 DEF r
  <2> QED BY <2>2, <2>3, <2>4 DEF StoreAgrees
<1> QED BY <1>1, Invariance, PTL

-----------------------------------------------------------------------------
(* What a step may never do. *)

(* The adapter is entered by EnterTool and by nothing else.                   *)
LEMMA OnlyEnterTool ==
    ASSUME Next, entered' # entered
    PROVE  EnterTool
<1>1. \A where, next : Go(where, next) => entered' = entered
  BY DEF Go
<1>2. Abort => entered' = entered
  BY DEF Abort
<1>3. \A outcome : Finish(outcome) => entered' = entered
  BY DEF Finish
<1>4. ~Between
  BY <1>1 DEF Between, Begin, CompactActive, NewSession, ResumeSession,
              SetPermissionMode
<1>5. ~Cancel /\ ~Crash /\ ~Recover /\ ~OpenDriver /\ ~EnsureSession
  BY <1>1 DEF Cancel, Crash, Recover, OpenDriver, EnsureSession
<1>6. ~RoundStep
  BY <1>1, <1>3 DEF RoundStep, InterruptRound, ExhaustRounds, OpenRound
<1>7. ~StreamEnd
  BY <1>1, <1>2, <1>3 DEF StreamEnd, BeginTools, UnofferedToolCall,
                          BadToolCallFragments, FinishStream
<1>8. ~ToolStep /\ ~JournalFails
  BY <1>1, <1>2 DEF ToolStep, ToolReturns, ToolReturnsIllegal, JournalFails
<1>9. ~VisibleTextDelta /\ ~(\E c \in CallIds : ToolCallFragments(c))
  BY <1>1 DEF VisibleTextDelta, ToolCallFragments
<1>10. ~UserApproves /\ ~UserRejects
  BY <1>1 DEF UserApproves, UserRejects
<1>11. CallStep => EnterTool
  BY <1>1, <1>2 DEF CallStep, DuplicateCall, RecordRefused, RegisterCall, CancelRequested,
                    PreflightAllowed, PreflightDenied, CancelApproval, Persist,
                    StartApproved, OverBudget, CancelStarted, NextCall,
                    ContinueAfterTools
<1> QED BY <1>4, <1>5, <1>6, <1>7, <1>8, <1>9, <1>10, <1>11 DEF Next, RunStep

(* In Confirm mode a tool is entered only after the user approved this very   *)
(* call in this turn; a shell tool only with full access.                     *)
THEOREM ConsentAlwaysGates == Spec => ConsentGate
<1> DEFINE Gated == \A t \in TurnIds, c \in CallIds :
                      entered'[t][c] # entered[t][c] =>
                          \/ mode = "FullAccess"
                          \/ c \notin ShellCalls /\ c \in consent
<1>1. IInv /\ [Next]_vars => [Gated]_vars
  <2> SUFFICES ASSUME IInv, Next, entered' # entered PROVE Gated
    BY DEF vars
  <2>1. EnterTool
    BY OnlyEnterTool
  <2>2. /\ pc = "call" /\ run.queue # << >> /\ Effect.kind = "Execute"
        /\ entered' = [entered EXCEPT ![run.turn][Current] = @ + 1]
    BY <2>1 DEF EnterTool, HasEffect
  <2>3. run.inv # "none"
    BY <2>2 DEF IInv, AtACall
  <2>4. run.inv = "Started"
    BY <2>2, <2>3, HeadKind
  <2>5. mode = "FullAccess" \/ (Current \notin ShellCalls /\ Current \in consent)
    BY <2>4 DEF IInv, Consented
  <2>6. ASSUME NEW t \in TurnIds, NEW c \in CallIds, entered'[t][c] # entered[t][c]
        PROVE  c = Current
    BY <2>2, <2>6 DEF IInv, TypeOK
  <2> QED BY <2>5, <2>6
<1> QED BY <1>1, Invariance, PTL DEF Spec, ConsentGate

-----------------------------------------------------------------------------
(* The driver uses the store as DurableSession promises it. *)

(* The ledger's copies of the machine's operators are the operators themselves. *)
LEMMA SameLedger ==
    /\ Ledger!Record = Record
    /\ Ledger!EmptyMachine = EmptyMachine
    /\ \A m, r : Ledger!Issues(m, r) <=> Issues(m, r)
    /\ \A m, r : Ledger!After(m, r) = After(m, r)
    /\ \A m : Ledger!RecoveryRecords(m) = RecoveryRecords(m)
<1> USE DEF Ledger!SessionCreated, Ledger!SessionActivated, Ledger!TurnStarted,
        Ledger!TurnDelta, Ledger!ToolRequested, Ledger!ToolDecided, Ledger!ToolStarted,
        Ledger!ToolTerminal, Ledger!TurnTerminal, Ledger!RecoveryApplied,
        Ledger!CompactionStored,
        SessionCreated, SessionActivated, TurnStarted, TurnDelta, ToolRequested,
        ToolDecided, ToolStarted, ToolTerminal, TurnTerminal, RecoveryApplied,
        CompactionStored
<1>1. Ledger!Record = Record
  BY DEF Ledger!Record, Record, Ledger!ToolTerminalStatus, ToolTerminalStatus,
         Ledger!Terminal, Terminal
<1>2. Ledger!EmptyMachine = EmptyMachine
  BY DEF Ledger!EmptyMachine, EmptyMachine, Ledger!AbsentTurn, AbsentTurn,
         Ledger!NoCall, NoCall
<1>3. \A m, r : Ledger!Issues(m, r) <=> Issues(m, r)
  BY DEF Ledger!Issues, Issues, Ledger!HasRunningTurn, HasRunningTurn,
         Ledger!Running, Running, Ledger!Exchange, Exchange,
         Ledger!Accepts, Accepts, Ledger!AcceptsInTurn,
         AcceptsInTurn, Ledger!AcceptsTool, AcceptsTool,
         Ledger!TerminalIsLegal, TerminalIsLegal,
         Ledger!AcceptsCompaction, AcceptsCompaction,
         Ledger!TurnsOf, TurnsOf, Ledger!HasOpenCall, HasOpenCall,
         Ledger!Open, Open, Ledger!TurnKinds, TurnKinds,
         Ledger!ToolKinds, ToolKinds, Ledger!TerminalKinds,
         TerminalKinds
<1>4. \A m, r : Ledger!After(m, r) = After(m, r)
  BY DEF Ledger!After, After, Ledger!AfterInTurn, AfterInTurn,
         Ledger!AfterTool, AfterTool, Ledger!NewTurn, NewTurn,
         Ledger!AbsentTurn, AbsentTurn, Ledger!NoCall, NoCall,
         Ledger!TurnsOf, TurnsOf, Ledger!TurnKinds, TurnKinds,
         Ledger!ToolKinds, ToolKinds, Ledger!TerminalKinds,
         TerminalKinds
<1>5. \A m : Ledger!RecoveryRecords(m) = RecoveryRecords(m)
  BY DEF Ledger!RecoveryRecords, RecoveryRecords, Ledger!OpenCalls,
         OpenCalls, Ledger!RecoverCall, RecoverCall,
         Ledger!Running, Running, Ledger!Open, Open
<1> QED BY <1>1, <1>2, <1>3, <1>4, <1>5

\* A step of an open driver that commits one record, or none.
Commits == pc # "down" /\ pc' # "down" /\ \E r \in Record : Journal(r)
Rests   == pc # "down" /\ pc' # "down" /\ store' = store

(* Every step of the driver commits at most one record; the others end a      *)
(* process, recover or open one.                                              *)
LEMMA StepCommits ==
    ASSUME IInv, Next
    PROVE  Commits \/ Rests \/ Crash \/ Recover \/ OpenDriver
<1>0. Busy => run.turn \in TurnIds /\ store.active \in SessionIds
  BY DEF IInv, Driving
<1>1. ASSUME NEW s \in SessionIds
      PROVE  /\ SessionCreated(s) \in Record /\ SessionActivated(s) \in Record
             /\ \A t \in TurnIds : /\ TurnStarted(s, t) \in Record
                                   /\ TurnDelta(s, t) \in Record
                                   /\ CompactionStored(s, t) \in Record
                                   /\ \A o \in Terminal : TurnTerminal(s, t, o) \in Record
  BY DEF Record
<1>2. store.active # NoSession => store.active \in SessionIds
  BY DEF IInv, TypeOK, Machine
<1>3. Abort /\ pc # "down" => Rests
  BY DEF Abort, Rests
<1>4. ASSUME NEW outcome \in Terminal, Finish(outcome), Busy
      PROVE  Commits
  <2>1. TurnTerminal(store.active, run.turn, outcome) \in Record
    BY <1>0, <1>1, <1>4
  <2> QED BY <1>4, <2>1 DEF Finish, Commits, Busy
<1>5. \A where, next : Go(where, next) => pc' = where
  BY DEF Go
<1>6. CASE Between
  <2>1. CASE \E t \in TurnIds, agent \in BOOLEAN : Begin(t, agent)
    BY <1>1, <1>2, <1>5, <2>1 DEF Begin, Commits
  <2>2. CASE \E t \in TurnIds : CompactActive(t)
    BY <1>1, <1>2, <1>5, <2>2 DEF CompactActive, Commits
  <2>3. CASE \E s \in SessionIds : NewSession(s) \/ ResumeSession(s)
    BY <1>1, <1>5, <2>3 DEF NewSession, ResumeSession, Commits
  <2>4. CASE \E m \in {"Confirm", "FullAccess"} : SetPermissionMode(m)
    BY <2>4 DEF SetPermissionMode, Rests
  <2> QED BY <1>6, <2>1, <2>2, <2>3, <2>4 DEF Between
<1>7. CASE Cancel
  BY <1>7 DEF Cancel, Rests
<1>8. CASE RoundStep
  BY <1>4, <1>5, <1>8 DEF RoundStep, InterruptRound, ExhaustRounds, OpenRound, Busy,
                          Rests, Terminal
<1>9. CASE StreamEnd
  BY <1>3, <1>4, <1>5, <1>9 DEF StreamEnd, BeginTools, UnofferedToolCall,
          BadToolCallFragments, FinishStream, Busy, Rests, Terminal
<1>10. CASE CallStep
  <2>1. CASE Persist \/ StartApproved \/ OverBudget
    <3>1. /\ pc = "call" /\ run.queue # << >> /\ Effect.kind \in ToolKinds
          /\ Journal(Effect) /\ pc' = "call"
      BY <1>5, <2>1 DEF Persist, StartApproved, OverBudget, Approving, HasEffect,
                        ToolKinds
    <3>2. run.inv # "none"
      BY <3>1 DEF IInv, AtACall
    <3>3. Effect \in Record
      <4>1. run.queue \in Seq(Effects)
        BY DEF IInv, TypeOK, Run
      <4>2. Effect \in Effects
        BY <3>1, <4>1 DEF Effect
      <4>3. Effect # Execute /\ Effect # RequestApproval
        BY <3>1 DEF Execute, RequestApproval, ToolKinds
      <4> QED BY <4>2, <4>3 DEF Effects
    <3> QED BY <3>1, <3>3 DEF Commits
  <2>2. CASE DuplicateCall \/ RecordRefused
    BY <1>3, <2>2 DEF DuplicateCall, RecordRefused, HasEffect
  <2>3. CASE EnterTool
    BY <2>3 DEF EnterTool, HasEffect, Rests
  <2>4. CASE \/ RegisterCall \/ CancelRequested \/ PreflightAllowed
             \/ \E status \in ToolTerminalStatus : PreflightDenied(status)
             \/ CancelApproval \/ CancelStarted \/ NextCall \/ ContinueAfterTools
    BY <1>5, <2>4 DEF RegisterCall, CancelRequested, PreflightAllowed,
         PreflightDenied, Preflighting, CancelApproval, CancelStarted, HasEffect,
         NextCall, ContinueAfterTools, Rests
  <2> QED BY <1>10, <2>1, <2>2, <2>3, <2>4 DEF CallStep
<1>11. CASE ToolStep
  BY <1>3, <1>5, <1>11 DEF ToolStep, ToolReturns, ToolReturnsIllegal, Rests
<1>12. CASE JournalFails
  BY <1>3, <1>12 DEF JournalFails
<1>13. CASE VisibleTextDelta
  <2>1. Busy /\ pc = "streaming" /\ pc' = pc
    BY <1>5, <1>13 DEF VisibleTextDelta, Busy
  <2> QED BY <1>0, <1>1, <1>13, <2>1 DEF VisibleTextDelta, Commits
<1>14. CASE \E c \in CallIds : ToolCallFragments(c)
  BY <1>5, <1>14 DEF ToolCallFragments, Rests
<1>15. CASE UserApproves \/ UserRejects
  BY <1>5, <1>15 DEF UserApproves, UserRejects, HasEffect, Rests
<1>16. CASE EnsureSession
  BY <1>1, <1>5, <1>16 DEF EnsureSession, Rests, Commits
<1> QED BY <1>6, <1>7, <1>8, <1>9, <1>10, <1>11, <1>12, <1>13, <1>14, <1>15, <1>16
        DEF Next, RunStep

(* Whatever a driver writes, over runs, crashes and restarts, is one command  *)
(* of the ledger at a time, and only an open driver writes.                   *)
THEOREM AgentImplementsLedger == Spec => ImplementsLedger
<1>1. Init => Ledger!LedgerInit
  BY SameLedger DEF Init, Ledger!LedgerInit
<1>2. IInv /\ [Next]_vars => [Ledger!LedgerNext]_(Ledger!ledgerVars)
  <2> SUFFICES ASSUME IInv, Next
               PROVE  Ledger!LedgerNext \/ UNCHANGED Ledger!ledgerVars
    BY DEF vars, Ledger!ledgerVars
  <2>1. CASE Commits
    <3>1. PICK r \in Record : Issues(store, r) /\ store' = After(store, r)
      BY <2>1 DEF Commits, Journal
    <3>2. r \in Ledger!Record /\ Ledger!Issues(store, r) /\ store' = Ledger!After(store, r)
      BY <3>1, SameLedger
    <3>3. (pc # "down") /\ (pc # "down")' = (pc # "down")
      BY <2>1 DEF Commits
    <3>4. Ledger!LedgerCommit
      BY <3>2, <3>3 DEF Ledger!LedgerCommit
    <3> QED BY <3>4 DEF Ledger!LedgerNext
  <2>2. CASE Rests
    BY <2>2 DEF Rests, Ledger!ledgerVars
  <2>3. CASE Crash
    <3>1. Ledger!LedgerCrash
      BY <2>3 DEF Crash, Ledger!LedgerCrash
    <3> QED BY <3>1 DEF Ledger!LedgerNext
  <2>4. CASE Recover
    <3>1. PICK r \in RecoveryRecords(store) : store' = After(store, r)
      BY <2>4 DEF Recover
    <3>2. r \in Ledger!RecoveryRecords(store) /\ store' = Ledger!After(store, r)
      BY <3>1, SameLedger
    <3>3. ~(pc # "down") /\ (pc # "down")' = (pc # "down")
      BY <2>4 DEF Recover
    <3>4. Ledger!LedgerRecover
      BY <3>2, <3>3 DEF Ledger!LedgerRecover
    <3> QED BY <3>4 DEF Ledger!LedgerNext
  <2>5. CASE OpenDriver
    <3>1. Ledger!RecoveryRecords(store) = {}
      BY <2>5, SameLedger DEF OpenDriver
    <3>2. ~(pc # "down") /\ (pc # "down")' = TRUE /\ store' = store
      BY <2>5 DEF OpenDriver, Go
    <3>3. Ledger!LedgerServe
      BY <3>1, <3>2 DEF Ledger!LedgerServe
    <3> QED BY <3>3 DEF Ledger!LedgerNext
  <2> QED BY <2>1, <2>2, <2>3, <2>4, <2>5, StepCommits
<1> QED BY <1>1, <1>2, Invariance, PTL DEF Spec, ImplementsLedger, Ledger!LedgerSpec

-----------------------------------------------------------------------------
(* The discipline of a run: one call at a time, within the limits, and Ok     *)
(* only behind a durable terminal record.                                     *)

(* The calls of the round before the current one have their result.           *)
CallsDone ==
    pc \in {"call", "executing"} =>
        /\ run.at <= Len(run.pending) + 1
        /\ \A i \in 1 .. (run.at - 1) :
             store.turns[run.turn].calls[run.pending[i]].result # "none"

(* The calls for which the adapter was entered, and whether one more is about *)
(* to be: the budget is taken before, when the approval is written down.      *)
Entered(t) == {c \in CallIds : entered[t][c] > 0}
About == IF pc = "call" /\ run.inv = "Started" THEN 1 ELSE 0
Budgeted ==
    /\ run.rounds <= MaxRounds /\ run.used <= MaxToolCalls
    /\ \A t \in TurnIds : /\ IsFiniteSet(Entered(t))
                          /\ Cardinality(Entered(t)) <= MaxToolCalls
    /\ Busy => Cardinality(Entered(run.turn)) + About <= run.used

(* A driver that has just recovered, or whose last run ended with Ok, finds   *)
(* no turn running.                                                           *)
OneTurn ==
    /\ OneRunning(store)
    /\ pc = "opening" \/ (pc = "idle" /\ ~failed) => ~HasRunningTurn(store)

DInv == CallsDone /\ Budgeted /\ OneTurn

(* An answer of the invocation machine moves no counter of the run.           *)
LEMMA TransitionKeeps ==
    ASSUME NEW inv, NEW effects, run \in Run
    PROVE  LET next == Transition(inv, effects) IN
           /\ next.turn = run.turn /\ next.pending = run.pending
           /\ next.at = run.at /\ next.rounds = run.rounds
           /\ next.used = run.used /\ next.inv = inv
BY DEF Transition, Run

\* The run goes on with the same calls and counters, and no start is pending
\* that was not pending before.
GoesOn ==
    /\ Busy
    /\ run'.turn = run.turn /\ run'.rounds = run.rounds /\ run'.used = run.used
    /\ pc' \in {"call", "executing"} =>
         /\ pc \in {"call", "executing"}
         /\ run'.at = run.at /\ run'.pending = run.pending
    /\ pc' = "call" /\ run'.inv = "Started" => pc = "call" /\ run.inv = "Started"

(* What a step does to the counters of the run.                               *)
LEMMA RunMoves ==
    ASSUME IInv, Next
    PROVE  \/ pc' \in {"down", "opening", "idle"} /\ run' \in {run, NoRun}
           \/ \E t \in TurnIds, agent \in BOOLEAN : Begin(t, agent)
           \/ OpenRound \/ BeginTools \/ NextCall \/ StartApproved
           \/ GoesOn
<1> DEFINE Ends == pc' \in {"down", "opening", "idle"} /\ run' \in {run, NoRun}
<1>1. run \in Run
  BY DEF IInv, TypeOK
<1>2. Abort => Ends
  BY DEF Abort
<1>3. \A outcome : Finish(outcome) => Ends
  BY DEF Finish
<1>4. \A where, next : Go(where, next) => pc' = where /\ run' = next
  BY DEF Go
<1>5. ASSUME NEW inv, NEW effects, inv # "Started", Busy,
             Go("call", Transition(inv, effects)), pc \in {"call", "executing"}
      PROVE  GoesOn
  BY <1>1, <1>4, <1>5, TransitionKeeps DEF GoesOn
<1>6. CASE Between
  <2>1. (\E s \in SessionIds : NewSession(s) \/ ResumeSession(s)) => Ends
    BY <1>4 DEF NewSession, ResumeSession
  <2>2. (\E t \in TurnIds : CompactActive(t)) => Ends
    BY <1>4 DEF CompactActive
  <2>3. (\E m \in {"Confirm", "FullAccess"} : SetPermissionMode(m)) => Ends
    BY DEF SetPermissionMode
  <2> QED BY <1>6, <2>1, <2>2, <2>3 DEF Between
<1>7. CASE Crash \/ OpenDriver \/ EnsureSession
  BY <1>4, <1>7 DEF Crash, OpenDriver, EnsureSession
<1>8. CASE Recover
  BY <1>8 DEF Recover
<1>9. CASE Cancel
  <2>1. pc' = pc /\ run' = run
    BY <1>9 DEF Cancel
  <2>2. Busy \/ pc' \in {"down", "opening", "idle"}
    BY <2>1 DEF Busy, IInv, TypeOK
  <2> QED BY <2>1, <2>2 DEF GoesOn
<1>10. CASE RoundStep
  BY <1>3, <1>10 DEF RoundStep, InterruptRound, ExhaustRounds
<1>11. CASE StreamEnd
  BY <1>2, <1>3, <1>11 DEF StreamEnd, UnofferedToolCall, BadToolCallFragments,
                           FinishStream
<1>12. CASE VisibleTextDelta
  BY <1>4, <1>12 DEF VisibleTextDelta, GoesOn, Busy
<1>13. CASE \E c \in CallIds : ToolCallFragments(c)
  <2>1. PICK c \in CallIds : ToolCallFragments(c)
    BY <1>13
  <2>2. /\ pc = "streaming" /\ pc' = pc
        /\ run' = [run EXCEPT !.pending = Append(@, c)]
    BY <1>4, <2>1 DEF ToolCallFragments
  <2> QED BY <1>1, <2>2 DEF Run, GoesOn, Busy
<1>14. CASE CallStep
  <2>1. CASE CancelRequested \/ PreflightAllowed
             \/ \E status \in ToolTerminalStatus : PreflightDenied(status)
    <3>1. Preflighting
      BY <2>1 DEF CancelRequested, PreflightAllowed, PreflightDenied
    <3>2. pc = "call" /\ Busy
      BY <3>1 DEF Preflighting, Busy
    <3> QED BY <1>5, <2>1, <3>2 DEF CancelRequested, PreflightAllowed, PreflightDenied
  <2>2. CASE CancelApproval \/ CancelStarted \/ OverBudget
    BY <1>5, <2>2 DEF CancelApproval, CancelStarted, OverBudget, Approving, HasEffect, Busy
  <2>3. CASE Persist
    <3>1. pc = "call" /\ pc' = pc /\ run' = [run EXCEPT !.queue = Tail(@)]
      BY <1>4, <2>3 DEF Persist, HasEffect
    <3> QED BY <1>1, <3>1 DEF Run, GoesOn, Busy
  <2>4. CASE RegisterCall
    <3>1. /\ pc = "call" /\ pc' = pc
          /\ run' = [run EXCEPT !.inv = "Requested",
                      !.queue = <<ToolRequested(store.active, run.turn, Current)>>]
      BY <1>4, <2>4 DEF RegisterCall
    <3> QED BY <1>1, <3>1 DEF Run, GoesOn, Busy
  <2>5. CASE ContinueAfterTools
    <3>1. /\ pc = "call" /\ pc' = "round"
          /\ run' = [run EXCEPT !.pending = << >>, !.at = 0]
      BY <1>4, <2>5 DEF ContinueAfterTools
    <3> QED BY <1>1, <3>1 DEF Run, GoesOn, Busy
  <2>6. CASE EnterTool
    <3>1. pc = "call" /\ pc' = "executing" /\ run' = run
      BY <2>6 DEF EnterTool, HasEffect
    <3> QED BY <3>1 DEF GoesOn, Busy
  <2>7. CASE DuplicateCall \/ RecordRefused
    BY <1>2, <2>7 DEF DuplicateCall, RecordRefused
  <2> QED BY <1>14, <2>1, <2>2, <2>3, <2>4, <2>5, <2>6, <2>7 DEF CallStep
<1>15. CASE ToolStep
  BY <1>2, <1>5, <1>15 DEF ToolStep, ToolReturns, ToolReturnsIllegal, Busy
<1>16. CASE JournalFails
  BY <1>2, <1>16 DEF JournalFails
<1>17. CASE UserApproves \/ UserRejects
  BY <1>5, <1>17 DEF UserApproves, UserRejects, HasEffect, Busy
<1> QED BY <1>6, <1>7, <1>8, <1>9, <1>10, <1>11, <1>12, <1>13, <1>14, <1>15,
           <1>16, <1>17 DEF Next, RunStep

(* The store moves by one record at a time, and a turn starts only when none  *)
(* runs.                                                                      *)
LEMMA StoreMoves ==
    ASSUME IInv, Next
    PROVE  \/ store' = store
           \/ \E r \in Record : /\ Accepts(store, r) /\ store' = After(store, r)
                                /\ r.kind = "TurnStarted" => ~HasRunningTurn(store)
<1>1. CASE Commits
  BY <1>1 DEF Commits, Journal, Issues
<1>2. CASE Recover
  <2>1. PICK r \in RecoveryRecords(store) : store' = After(store, r)
    BY <1>2 DEF Recover
  <2>2. r \in Record /\ Accepts(store, r) /\ r.kind \in TurnKinds
    BY RecoveryAccepted DEF IInv, TypeOK
  <2> QED BY <2>1, <2>2 DEF TurnKinds, ToolKinds, TerminalKinds
<1>3. CASE Rests \/ Crash \/ OpenDriver
  BY <1>3 DEF Rests, Crash, OpenDriver
<1> QED BY <1>1, <1>2, <1>3, StepCommits

(* A call that has its result keeps having one.                               *)
LEMMA ResultStays ==
    ASSUME IInv, Next, NEW t \in TurnIds, NEW c \in CallIds,
           store.turns[t].calls[c].result # "none"
    PROVE  store'.turns[t].calls[c].result # "none"
<1> DEFINE old == store.turns[t].calls[c]
<1>1. CASE store' = store
  BY <1>1
<1>2. ASSUME NEW r \in Record, Accepts(store, r), store' = After(store, r)
      PROVE  store'.turns[t].calls[c].result # "none"
  <2>1. store \in Machine /\ MachineSound(store)
    BY DEF IInv, TypeOK
  <2>2. old.requested
    <3>1. CallSound(old, c)
      BY <2>1 DEF MachineSound, TurnSound
    <3> QED BY <3>1 DEF CallSound, NoCall
  <2>3. ~(r.kind \in ToolKinds /\ AcceptsTool(old, r))
    BY <2>2 DEF AcceptsTool, ToolKinds
  <2> QED BY <1>2, <2>1, <2>3, CallAfter
<1> QED BY <1>1, <1>2, StoreMoves

(* Each round of a run leaves no result behind.                               *)
LEMMA CallsDoneStep == ASSUME IInv, CallsDone, Next PROVE CallsDone'
<1> SUFFICES ASSUME pc' \in {"call", "executing"}
             PROVE  /\ run'.at <= Len(run'.pending) + 1
                    /\ \A i \in 1 .. (run'.at - 1) :
                         store'.turns[run'.turn].calls[run'.pending[i]].result # "none"
  BY DEF CallsDone
<1>1. run \in Run /\ \A where, next : Go(where, next) => pc' = where /\ run' = next
  BY DEF IInv, TypeOK, Go
<1>2. ASSUME pc \in {"call", "executing"}, run'.turn = run.turn,
             run'.pending = run.pending, run'.at = run.at
      PROVE  CallsDone'
  <2>1. ASSUME NEW i \in 1 .. (run.at - 1)
        PROVE  store'.turns[run.turn].calls[run.pending[i]].result # "none"
    <3>1. run.turn \in TurnIds /\ run.pending[i] \in CallIds
      BY <1>1, <1>2 DEF IInv, Driving, Busy, CallsDone, Run
    <3> QED BY <1>2, <3>1, ResultStays DEF CallsDone
  <2> QED BY <1>2, <2>1 DEF CallsDone
<1>3. CASE GoesOn
  BY <1>2, <1>3 DEF GoesOn, CallsDone
<1>4. CASE BeginTools
  <2>1. run' = [run EXCEPT !.at = 1]
    BY <1>1, <1>4 DEF BeginTools
  <2>2. run'.at = 1 /\ Len(run'.pending) \in Nat
    BY <1>1, <2>1 DEF Run
  <2> QED BY <2>2
<1>5. CASE NextCall
  <2>1. /\ pc = "call" /\ run.inv = "Terminal" /\ run.queue = << >>
        /\ run' = [run EXCEPT !.inv = "none", !.at = @ + 1] /\ store' = store
    BY <1>1, <1>5 DEF NextCall
  <2>2. /\ run'.at = run.at + 1 /\ run'.pending = run.pending
        /\ run'.turn = run.turn
    BY <1>1, <2>1 DEF Run
  <2>3. run.at <= Len(run.pending) /\ run.at # 0 /\ run.at \in Nat
    BY <1>1, <2>1 DEF IInv, AtACall, Run
  <2>4. store.turns[run.turn].calls[Current].result # "none"
    BY <2>1 DEF IInv, CurrentFits, CallFits
  <2>5. ASSUME NEW i \in 1 .. run.at
        PROVE  store.turns[run.turn].calls[run.pending[i]].result # "none"
    <3>1. CASE i = run.at
      BY <2>4, <3>1 DEF Current
    <3>2. CASE i \in 1 .. (run.at - 1)
      BY <2>1, <3>2 DEF CallsDone
    <3> QED BY <2>3, <3>1, <3>2
  <2>6. Len(run.pending) \in Nat
    BY <1>1 DEF Run
  <2>7. run'.at - 1 = run.at /\ run'.at <= Len(run'.pending) + 1
    BY <2>2, <2>3, <2>6
  <2>8. \A i \in 1 .. (run'.at - 1) :
           store'.turns[run'.turn].calls[run'.pending[i]].result # "none"
    BY <2>1, <2>2, <2>5, <2>7
  <2> QED BY <2>7, <2>8
<1>6. CASE StartApproved
  <2>1. /\ pc = "call"
        /\ run' = [Transition("Started",
                     <<ToolStarted(store.active, run.turn, Current), Execute>>)
                     EXCEPT !.used = @ + 1]
    BY <1>1, <1>6 DEF StartApproved, Approving, HasEffect
  <2>2. run'.turn = run.turn /\ run'.pending = run.pending /\ run'.at = run.at
    BY <1>1, <2>1 DEF Transition, Run
  <2> QED BY <1>2, <2>1, <2>2 DEF CallsDone
<1>7. ~OpenRound /\ ~(\E t \in TurnIds, agent \in BOOLEAN : Begin(t, agent))
  BY DEF OpenRound, Begin, Go
<1> QED BY <1>3, <1>4, <1>5, <1>6, <1>7, RunMoves

(* The adapter is entered at most as often as the budget was taken.           *)
LEMMA BudgetedStep == ASSUME IInv, Budgeted, Next PROVE Budgeted'
<1>1. run \in Run /\ \A where, next : Go(where, next) => pc' = where /\ run' = next
  BY DEF IInv, TypeOK, Go
<1>2. run.rounds \in Nat /\ run.used \in Nat /\ MaxRounds \in Nat /\ MaxToolCalls \in Nat
  BY <1>1, LimitsAssumption DEF Run
<1>3. \A t \in TurnIds : Cardinality(Entered(t)) \in Nat
  BY FS_CardinalityType DEF Budgeted
<1>4. CASE entered' # entered
  <2>1. EnterTool
    BY <1>4, OnlyEnterTool
  <2>2. /\ pc = "call" /\ run.queue # << >> /\ Effect.kind = "Execute"
        /\ pc' = "executing" /\ run' = run
        /\ entered' = [entered EXCEPT ![run.turn][Current] = @ + 1]
    BY <2>1 DEF EnterTool, HasEffect
  <2>3. run.inv = "Started"
    <3>1. run.inv # "none"
      BY <2>2 DEF IInv, AtACall
    <3> QED BY <2>2, <3>1, HeadKind
  <2>4. run.turn \in TurnIds /\ Current \in CallIds
    BY <2>2, <2>3, CallContext DEF IInv, Driving, Busy
  <2>5. Entered(run.turn)' = Entered(run.turn) \cup {Current}
    BY <2>2, <2>4 DEF Entered, IInv, TypeOK
  <2>6. \A t \in TurnIds : t # run.turn => Entered(t)' = Entered(t)
    BY <2>2 DEF Entered, IInv, TypeOK
  <2>7. /\ IsFiniteSet(Entered(run.turn)')
        /\ Cardinality(Entered(run.turn)') <= Cardinality(Entered(run.turn)) + 1
    <3>1. IsFiniteSet(Entered(run.turn)) /\ Cardinality(Entered(run.turn)) \in Nat
      BY <1>3, <2>4 DEF Budgeted
    <3>2. LET more == Entered(run.turn) \cup {Current} IN
          IsFiniteSet(more) /\ Cardinality(more) <= Cardinality(Entered(run.turn)) + 1
      BY <3>1, FS_AddElement
    <3> QED BY <2>5, <3>2
  <2>8. Cardinality(Entered(run.turn)') \in Nat
    BY <2>7, FS_CardinalityType
  <2>9. Cardinality(Entered(run.turn)') <= run.used
    BY <1>2, <1>3, <2>2, <2>3, <2>4, <2>7, <2>8 DEF Budgeted, About, Busy
  <2>10. About' = 0
    BY <2>2 DEF About
  <2> QED BY <1>2, <1>3, <2>2, <2>4, <2>6, <2>7, <2>8, <2>9, <2>10 DEF Budgeted
<1>5. CASE entered' = entered
  <2>1. \A t : Entered(t)' = Entered(t)
    BY <1>5 DEF Entered
  <2>2. \A t \in TurnIds : /\ IsFiniteSet(Entered(t)')
                           /\ Cardinality(Entered(t)') <= MaxToolCalls
    BY <2>1 DEF Budgeted
  <2> SUFFICES /\ run'.rounds <= MaxRounds /\ run'.used <= MaxToolCalls
               /\ Busy' => Cardinality(Entered(run'.turn)) + About' <= run'.used
    BY <2>1, <2>2 DEF Budgeted
  <2>3. CASE pc' \in {"down", "opening", "idle"} /\ run' \in {run, NoRun}
    <3>1. NoRun.rounds = 0 /\ NoRun.used = 0
      BY DEF NoRun
    <3> QED BY <1>2, <2>3, <3>1 DEF Busy, Budgeted
  <2>4. CASE GoesOn
    <3>1. About \in {0, 1} /\ About' \in {0, 1} /\ About' <= About
      BY <2>4 DEF GoesOn, About
    <3>2. run.turn \in TurnIds
      BY <2>4 DEF GoesOn, IInv, Driving
    <3> QED BY <1>2, <1>3, <2>4, <3>1, <3>2 DEF GoesOn, Budgeted
  <2>5. ASSUME NEW t \in TurnIds, NEW agent \in BOOLEAN, Begin(t, agent)
        PROVE  /\ run'.rounds <= MaxRounds /\ run'.used <= MaxToolCalls
               /\ Busy' => Cardinality(Entered(run'.turn)) + About' <= run'.used
    <3>1. run' = [NoRun EXCEPT !.agent = agent, !.turn = t] /\ pc' # "call"
      BY <1>1, <2>5 DEF Begin
    <3>2. run'.turn = t /\ run'.rounds = 0 /\ run'.used = 0 /\ About' = 0
      BY <3>1 DEF NoRun, About
    <3>3. store.turns[t].status = "absent"
      <4>1. Accepts(store, TurnStarted(store.active, t))
        BY <2>5 DEF Begin, Journal, Issues
      <4> QED BY <4>1, AcceptsByKind DEF TurnStarted
    <3>4. store.turns[t] = AbsentTurn
      BY <3>3 DEF IInv, MachineSound, TurnSound
    <3>5. \A c \in CallIds : ~store.turns[t].calls[c].started
      BY <3>4 DEF AbsentTurn, NoCall
    <3>6. Entered(t) = {}
      BY <3>5 DEF Entered, IInv, EffectsRecorded, TypeOK
    <3> QED BY <1>2, <3>2, <3>6, FS_EmptySet
  <2>6. CASE OpenRound
    <3>1. /\ pc = "round" /\ pc' = "streaming" /\ run.rounds < MaxRounds
          /\ run' = [run EXCEPT !.rounds = @ + 1]
      BY <1>1, <2>6 DEF OpenRound
    <3>2. /\ run'.rounds = run.rounds + 1 /\ run'.used = run.used
          /\ run'.turn = run.turn
      BY <1>1, <3>1 DEF Run
    <3>3. Cardinality(Entered(run.turn)) + 0 <= run.used /\ About' = 0
      BY <3>1 DEF Budgeted, Busy, About
    <3> QED BY <1>2, <3>1, <3>2, <3>3 DEF Budgeted
  <2>7. CASE BeginTools \/ NextCall
    <3>1. \/ /\ pc = "streaming" /\ run' = [run EXCEPT !.at = 1]
          \/ /\ pc = "call" /\ run' = [run EXCEPT !.inv = "none", !.at = @ + 1]
      BY <2>7 DEF BeginTools, NextCall, Go
    <3>2. /\ run'.turn = run.turn /\ run'.rounds = run.rounds
          /\ run'.used = run.used /\ run'.inv \in {run.inv, "none"}
          /\ pc = "streaming" => run'.inv = run.inv
          /\ pc = "call" => run'.inv = "none"
      BY <1>1, <3>1 DEF Run
    <3>3. Busy /\ About' = 0
      BY <3>1, <3>2 DEF Busy, About, IInv, AtACall
    <3>4. run.turn \in TurnIds
      BY <3>3 DEF IInv, Driving
    <3> QED BY <1>2, <1>3, <3>2, <3>3, <3>4 DEF Budgeted, About
  <2>8. CASE StartApproved
    <3>1. /\ pc = "call" /\ run.inv = "Approved" /\ run.used < MaxToolCalls
          /\ run' = [Transition("Started",
                       <<ToolStarted(store.active, run.turn, Current), Execute>>)
                       EXCEPT !.used = @ + 1]
      BY <1>1, <2>8 DEF StartApproved, Approving, HasEffect
    <3>2. /\ run'.turn = run.turn /\ run'.rounds = run.rounds
          /\ run'.used = run.used + 1
      BY <1>1, <3>1 DEF Transition, Run
    <3>3. run.turn \in TurnIds /\ Busy
      BY <3>1 DEF IInv, Driving, Busy
    <3>4. About = 0 /\ About' \in {0, 1}
      BY <3>1 DEF About
    <3> QED BY <1>2, <1>3, <3>1, <3>2, <3>3, <3>4 DEF Budgeted
  <2> QED BY <2>3, <2>4, <2>5, <2>6, <2>7, <2>8, RunMoves
<1> QED BY <1>4, <1>5

(* The terminal record of the run ends the one turn that runs.                *)
LEMMA FinishLeavesNone ==
    ASSUME IInv, OneTurn, Busy, NEW outcome \in Terminal, Finish(outcome)
    PROVE  ~HasRunningTurn(store)'
<1> DEFINE r == TurnTerminal(store.active, run.turn, outcome)
<1>1. /\ run.turn \in TurnIds /\ store.active \in SessionIds
      /\ Running(store, run.turn) /\ store \in Machine
  BY DEF IInv, Driving, TypeOK, Running
<1>2. r \in Record
  BY <1>1 DEF Record
<1>3. Accepts(store, r) /\ store' = After(store, r)
  BY DEF Finish, Journal, Issues
<1>4. /\ r.kind = "TurnTerminal" /\ r.turn = run.turn /\ r.outcome = outcome
      /\ r.kind \in TurnKinds /\ r.kind # "TurnStarted"
  BY DEF TurnTerminal, TurnKinds, TerminalKinds
<1> HIDE DEF r
<1>5. ASSUME NEW t \in TurnIds, Running(store', t) PROVE FALSE
  <2>1. CASE t # run.turn
    <3>1. store'.turns[t] = store.turns[t]
      BY <1>2, <1>3, <1>4, <1>1, <2>1, AfterFields
    <3> QED BY <1>1, <1>5, <2>1, <3>1 DEF OneTurn, OneRunning, Running
  <2>2. CASE t = run.turn
    <3>0. After(store, r) = [store EXCEPT !.turns[r.turn] = AfterInTurn(@, r)]
      BY <1>4, AfterByKind
    <3>1. store' = [store EXCEPT !.turns[run.turn] = AfterInTurn(@, r)]
      BY <1>3, <1>4, <3>0
    <3>2. AfterInTurn(store.turns[run.turn], r) = [store.turns[run.turn] EXCEPT !.status = outcome]
      BY <1>4 DEF AfterInTurn, ToolKinds, TerminalKinds
    <3>3. store'.turns[run.turn] = [store.turns[run.turn] EXCEPT !.status = outcome]
      BY <1>1, <3>1, <3>2 DEF Machine
    <3>4. store'.turns[run.turn].status = outcome
      BY <1>1, <3>3 DEF Machine, Turn
    <3> QED BY <1>5, <2>2, <3>4 DEF Running, Terminal
  <2> QED BY <2>1, <2>2
<1> QED BY <1>5 DEF HasRunningTurn

(* A driver that comes to rest without an error has just opened, made a       *)
(* session command, or ended its run with a terminal record.                  *)
LEMMA ComesToRest ==
    ASSUME IInv, Next, pc' = "opening" \/ (pc' = "idle" /\ ~failed')
    PROVE  \/ OpenDriver
           \/ Busy /\ \E outcome \in Terminal : Finish(outcome)
           \/ /\ pc = "opening" \/ (pc = "idle" /\ ~failed)
              /\ \/ store' = store
                 \/ \E r \in Record : /\ Journal(r)
                                      /\ r.kind \notin TurnKinds \cup {"TurnStarted"}
<1>1. \A where, next : Go(where, next) => pc' = where /\ failed' = failed
  BY DEF Go
<1>2. ~Abort
  BY DEF Abort
<1>3. CASE Between
  <2>1. ASSUME NEW s \in SessionIds
        PROVE  /\ SessionCreated(s) \in Record /\ SessionActivated(s) \in Record
               /\ SessionCreated(s).kind = "SessionCreated"
               /\ SessionActivated(s).kind = "SessionActivated"
               /\ \A t \in TurnIds :
                    /\ CompactionStored(s, t) \in Record
                    /\ CompactionStored(s, t).kind = "CompactionStored"
    BY DEF Record, SessionCreated, SessionActivated, CompactionStored
  <2>2. store.active # NoSession => store.active \in SessionIds
    BY DEF IInv, TypeOK, Machine
  <2>3. CASE \E s \in SessionIds : NewSession(s) \/ ResumeSession(s)
    BY <1>1, <2>1, <2>3 DEF NewSession, ResumeSession, TurnKinds, ToolKinds, TerminalKinds
  <2>4. CASE \E t \in TurnIds : CompactActive(t)
    BY <1>1, <2>1, <2>2, <2>4 DEF CompactActive, TurnKinds, ToolKinds, TerminalKinds
  <2>5. CASE \E m \in {"Confirm", "FullAccess"} : SetPermissionMode(m)
    BY <2>5 DEF SetPermissionMode
  <2>6. ~(\E t \in TurnIds, agent \in BOOLEAN : Begin(t, agent))
    BY DEF Begin, Go
  <2> QED BY <1>3, <2>3, <2>4, <2>5, <2>6 DEF Between
<1>4. CASE Cancel
  BY <1>4 DEF Cancel
<1>5. CASE EnsureSession
  <2>1. \A s \in SessionIds : /\ SessionCreated(s) \in Record
                              /\ SessionCreated(s).kind = "SessionCreated"
    BY DEF Record, SessionCreated
  <2> QED BY <1>5, <2>1 DEF EnsureSession, TurnKinds, ToolKinds, TerminalKinds
<1>6. CASE RoundStep
  BY <1>1, <1>6 DEF RoundStep, InterruptRound, ExhaustRounds, OpenRound, Busy, Terminal
<1>7. CASE StreamEnd
  BY <1>1, <1>2, <1>7 DEF StreamEnd, BeginTools, UnofferedToolCall, BadToolCallFragments,
                          FinishStream, Busy, Terminal
<1>8. ~CallStep
  <2>1. ~(DuplicateCall \/ RecordRefused)
    BY <1>2 DEF DuplicateCall, RecordRefused
  <2>2. ~(RegisterCall \/ CancelRequested \/ PreflightAllowed \/ CancelApproval)
    BY DEF RegisterCall, CancelRequested, PreflightAllowed, CancelApproval, Preflighting,
           HasEffect, Go
  <2>3. ~(\E status \in ToolTerminalStatus : PreflightDenied(status))
    BY DEF PreflightDenied, Preflighting, Go
  <2>4. ~(Persist \/ StartApproved \/ OverBudget \/ CancelStarted)
    BY DEF Persist, StartApproved, OverBudget, CancelStarted, Approving, HasEffect, Go
  <2>5. ~(EnterTool \/ NextCall \/ ContinueAfterTools)
    BY DEF EnterTool, NextCall, ContinueAfterTools, Go
  <2> QED BY <2>1, <2>2, <2>3, <2>4, <2>5 DEF CallStep
<1>9. ~ToolStep /\ ~JournalFails
  <2>1. ~JournalFails /\ ~(\E status \in ToolTerminalStatus : ToolReturnsIllegal(status))
    BY <1>2 DEF JournalFails, ToolReturnsIllegal
  <2>2. ~(\E status \in ToolTerminalStatus : ToolReturns(status))
    BY DEF ToolReturns, Go
  <2> QED BY <2>1, <2>2 DEF ToolStep
<1>10. ~VisibleTextDelta /\ ~(\E c \in CallIds : ToolCallFragments(c))
  BY <1>1 DEF VisibleTextDelta, ToolCallFragments
<1>11. ~UserApproves /\ ~UserRejects /\ ~Crash /\ ~Recover
  BY <1>1 DEF UserApproves, UserRejects, HasEffect, Crash, Recover
<1> QED BY <1>3, <1>4, <1>5, <1>6, <1>7, <1>8, <1>9, <1>10, <1>11 DEF Next, RunStep

(* One turn at a time, and none behind a run that ended with Ok.              *)
LEMMA OneTurnStep == ASSUME IInv, OneTurn, Next PROVE OneTurn'
<1>1. store \in Machine
  BY DEF IInv, TypeOK
<1>2. OneRunning(store')
  BY <1>1, StoreMoves, AfterOneRunning DEF OneTurn
<1>3. ASSUME pc' = "opening" \/ (pc' = "idle" /\ ~failed')
      PROVE  ~HasRunningTurn(store')
  <2>1. CASE OpenDriver
    <3>1. RecoveryRecords(store) = {} /\ store' = store
      BY <2>1 DEF OpenDriver
    <3> QED BY <3>1 DEF RecoveryRecords, HasRunningTurn
  <2>2. CASE Busy /\ \E outcome \in Terminal : Finish(outcome)
    BY <2>2, FinishLeavesNone
  <2>3. ASSUME ~HasRunningTurn(store), NEW r \in Record, Journal(r),
               r.kind \notin TurnKinds \cup {"TurnStarted"}
        PROVE  ~HasRunningTurn(store')
    <3>1. Accepts(store, r) /\ store' = After(store, r)
      BY <2>3 DEF Journal, Issues
    <3>2. \A t \in TurnIds : store'.turns[t] = store.turns[t]
      BY <1>1, <2>3, <3>1, AfterFields
    <3> QED BY <2>3, <3>2 DEF HasRunningTurn, Running
  <2> QED BY <1>3, <2>1, <2>2, <2>3, ComesToRest DEF OneTurn
<1> QED BY <1>2, <1>3 DEF OneTurn

(* The discipline holds from the start and through every step.                *)
LEMMA DisciplineInit == Init => DInv
<1> SUFFICES ASSUME Init PROVE DInv
  OBVIOUS
<1>1. CallsDone
  BY DEF Init, CallsDone
<1>2. OneTurn
  BY EmptyIsSound DEF Init, OneTurn
<1>3. Budgeted
  <2>1. run.rounds = 0 /\ run.used = 0 /\ ~Busy
    BY DEF Init, NoRun, Busy
  <2>2. \A t \in TurnIds : Entered(t) = {}
    BY DEF Init, Entered
  <2> QED BY <2>1, <2>2, FS_EmptySet, LimitsAssumption DEF Budgeted
<1> QED BY <1>1, <1>2, <1>3 DEF DInv

LEMMA DisciplineStep == IInv /\ DInv /\ [Next]_vars => DInv'
<1> SUFFICES ASSUME IInv, DInv, [Next]_vars PROVE DInv'
  OBVIOUS
<1>1. CASE Next
  BY <1>1, CallsDoneStep, BudgetedStep, OneTurnStep DEF DInv
<1>2. CASE UNCHANGED vars
  <2>1. \A t : Entered(t)' = Entered(t)
    BY <1>2 DEF vars, Entered
  <2>2. About' = About
    BY <1>2 DEF vars, About
  <2> QED BY <1>2, <2>1, <2>2 DEF vars, DInv, CallsDone, Budgeted, OneTurn, Busy
<1> QED BY <1>1, <1>2

(* Calls are completed one after another, no limit is exceeded, and a run     *)
(* that ends with Ok leaves no turn running, whatever crashes in between.     *)
THEOREM RunsAreDisciplined == Spec => []RunDiscipline
<1>1. IInv /\ DInv => RunDiscipline
  <2> SUFFICES ASSUME IInv, DInv PROVE RunDiscipline
    OBVIOUS
  <2>1. OneCallAtATime
    BY DEF IInv, DInv, CallsDone, OneCallAtATime, NothingElseOpen, AtACall, Busy,
           HasOpenCall
  <2>2. WithinBudget
    BY DEF DInv, Budgeted, WithinBudget, Entered
  <2> QED BY <2>1, <2>2 DEF DInv, OneTurn, OkMeansDurable, RunDiscipline
<1> QED BY <1>1, Invariance, DisciplineInit, DisciplineStep, PTL DEF Spec
=============================================================================
