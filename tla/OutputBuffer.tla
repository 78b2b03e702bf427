----------------------------- MODULE OutputBuffer -----------------------------
(* The output a shell session has not been asked for yet: the buffers of      *)
(* tools/src/shell/buffer.rs, one for each session, filled by its reader      *)
(* thread and emptied by receipts, over one budget they share.                *)
(*                                                                            *)
(* A buffer is used under its lock; the budget is an atomic counter, so that  *)
(* the reservations, evictions and releases of several buffers interleave.    *)
(*                                                                            *)
(* Abstractions.  Bytes of input are classes; UTF-8 has characters of one and *)
(* two bytes and the replacement character of three.  A character is known by *)
(* its number in the output of its session, and a byte by its character.      *)
(* reserve_up_to is one step, that of its successful compare_exchange.        *)
EXTENDS SequencesExt

CONSTANTS Sessions,   \* the sessions
          Chunks,     \* what a reader may read at once
          Limits,     \* the sizes a receipt may ask for
          MaxUnread,  \* MAX_SHELL_UNREAD_BYTES
          Budget,     \* the limit of the shared budget
          MaxFed      \* bound: bytes a session writes
Shown == {"[", "]", "\\", "text", "space", "digit"}
Classes == Shown \cup {"esc", "bel", "control", "lead", "cont"}
ASSUME BufferAssumption ==
  /\ IsFiniteSet(Sessions) /\ Chunks \subseteq Seq(Classes) \ {<<>>}
  /\ Limits \subseteq Nat /\ {MaxUnread, Budget, MaxFed} \subseteq Nat
  /\ \A chunk \in Chunks : 3 * (Len(chunk) + 1) <= MaxUnread   \* READER_CHUNK_BYTES is 1/128 of it

VARIABLES buffers,   \* the buffer of each session
          used,      \* bytes of the budget that are taken
          appends,   \* the operation under way on each buffer
          told       \* history: the characters made, and up to which the caller knows of them

bufferVars == <<buffers, used, appends, told>>

Unused == [at |-> "idle", bytes |-> <<>>, reserved |-> 0, owed |-> 0]
BufferInit ==
  /\ buffers = [s \in Sessions |-> [state |-> "Ground", pending |-> FALSE, unread |-> <<>>,
                                    truncated |-> FALSE, fed |-> 0, open |-> TRUE]]
  /\ used = 0 /\ appends = [s \in Sessions |-> Unused]
  /\ told = [s \in Sessions |-> [made |-> 0, known |-> 0]]
-----------------------------------------------------------------------------
(* TerminalNormalizer: escape sequences and controls go, bytes that are no    *)
(* UTF-8 become the replacement character; out lists the widths of the rest.  *)
Decoded(n, byte) ==
  LET broken == IF n.pending THEN <<3>> ELSE <<>>
      shown == IF byte \in Shown THEN <<1>> ELSE <<>>
  IN [n EXCEPT !.pending = byte = "lead",
               !.out = @ \o CASE byte = "cont" -> IF n.pending THEN <<2>> ELSE <<3>>
                              [] OTHER -> broken \o shown]
NextState(state, byte) ==
  CASE state = "Escape" -> (CASE byte = "[" -> "Csi" [] byte = "]" -> "Osc"
                              [] byte \in {"esc", "space"} -> "Escape" [] OTHER -> "Ground")
    [] state = "Csi" -> (CASE byte = "esc" -> "Escape"
                           [] byte \in Shown \ {"space", "digit"} -> "Ground" [] OTHER -> "Csi")
    [] state = "Osc" -> (CASE byte = "bel" -> "Ground" [] byte = "esc" -> "OscEscape" [] OTHER -> "Osc")
    [] state = "OscEscape" -> (CASE byte \in {"\\", "bel"} -> "Ground"
                                 [] byte = "esc" -> "OscEscape" [] OTHER -> "Osc")
    [] OTHER -> IF byte = "esc" THEN "Escape" ELSE "Ground"
Normalize(n, byte) ==
  [(IF n.state = "Ground" THEN Decoded(n, byte) ELSE n) EXCEPT !.state = NextState(n.state, byte)]
Normalized(b, chunk) ==
  LET after[i \in 0..Len(chunk)] ==
        IF i = 0 THEN [state |-> b.state, pending |-> b.pending, out |-> <<>>]
        ELSE Normalize(after[i - 1], chunk[i])
  IN after[Len(chunk)]

(* The bytes of new characters of these widths, numbered behind n.            *)
Encoded(widths, n) ==
  LET first[i \in 0..Len(widths)] ==   \* of the first i characters
        IF i = 0 THEN <<>> ELSE first[i - 1] \o [k \in 1..widths[i] |-> [char |-> n + i, lead |-> k = 1]]
  IN first[Len(widths)]
-----------------------------------------------------------------------------
From(bytes, start) == SubSeq(bytes, start + 1, Len(bytes))
Boundaries(bytes) == {i \in 0..Len(bytes) : i < Len(bytes) => bytes[i + 1].lead}
Floor(bytes, n) == Max({i \in Boundaries(bytes) : i <= Min({n, Len(bytes)})})
Ceiling(bytes, n) == CHOOSE i \in Boundaries(bytes) :
                       /\ i >= Min({n, Len(bytes)})
                       /\ \A j \in Boundaries(bytes) : j >= Min({n, Len(bytes)}) => i <= j
SuffixStart(bytes, n) == Ceiling(bytes, Len(bytes) - Min({n, Len(bytes)}))

Lock(s, step) == buffers[s].open /\ appends[s].at = step

(* append_normalized up to its first reservation: what can never fit goes.    *)
Appending(s, n, fed) ==
  LET b == buffers[s]
      made == Encoded(n.out, told[s].made)
      start == SuffixStart(made, MaxUnread)
      bytes == From(made, start)
      excess == Len(b.unread) + Len(bytes) - MaxUnread
      gone == IF excess > 0 THEN Ceiling(b.unread, excess) ELSE 0
  IN /\ buffers' = [buffers EXCEPT ![s] =
           [b EXCEPT !.state = n.state, !.pending = n.pending, !.fed = fed, !.unread = From(@, gone),
                     !.truncated = @ \/ start > 0 \/ excess > 0]]
     /\ appends' = [appends EXCEPT ![s] =
           IF made = <<>> THEN Unused
           ELSE [at |-> "reserving", bytes |-> bytes, reserved |-> 0, owed |-> gone]]
     /\ told' = [told EXCEPT ![s].made = @ + Len(n.out)]
     /\ UNCHANGED used

AppendOutput(s, chunk) ==
  /\ Lock(s, "idle") /\ buffers[s].fed + Len(chunk) <= MaxFed
  /\ Appending(s, Normalized(buffers[s], chunk), buffers[s].fed + Len(chunk))

(* finish: the end of the output; the reader appends nothing after it.        *)
FinishOutput(s) ==
  /\ Lock(s, "idle") /\ buffers[s].fed < MaxFed + 1
  /\ LET b == buffers[s] IN
     Appending(s, [state |-> "Ground", pending |-> FALSE,
                   out |-> IF b.pending THEN <<3>> ELSE <<>>], MaxFed + 1)

(* reserve_with_oldest_eviction: one round of its loop.                       *)
Reserve(s) ==
  /\ Lock(s, "reserving") /\ appends[s].owed = 0 /\ UNCHANGED told
  /\ LET a == appends[s]
         got == Min({Len(a.bytes) - a.reserved, Budget - used})
         short == Len(a.bytes) - a.reserved - got
         unread == buffers[s].unread
         gone == Ceiling(unread, short)
     IN /\ used' = used + got
        /\ IF short = 0 \/ unread = <<>>
           THEN appends' = [appends EXCEPT ![s].at = "extending", ![s].reserved = @ + got]
                /\ UNCHANGED buffers
           ELSE /\ appends' = [appends EXCEPT ![s].reserved = @ + got, ![s].owed = gone]
                /\ buffers' = [buffers EXCEPT ![s].unread = From(@, gone), ![s].truncated = TRUE]

(* What was drained goes back to the budget.                                  *)
Release(s) ==
  /\ appends[s].owed > 0 /\ UNCHANGED <<buffers, told>>
  /\ used' = used - appends[s].owed
  /\ appends' = [appends EXCEPT ![s].owed = 0, ![s].at = IF @ = "taking" THEN "idle" ELSE @]

(* The whole reservation is given back with the surplus.                      *)
FaultyExtend(s) ==
  /\ Lock(s, "extending") /\ UNCHANGED told
  /\ LET a == appends[s]
         start == SuffixStart(a.bytes, a.reserved)
     IN /\ used' = used - a.reserved
        /\ buffers' = [buffers EXCEPT ![s].unread = @ \o From(a.bytes, start),
                                      ![s].truncated = @ \/ start > 0]
        /\ appends' = [appends EXCEPT ![s] = Unused]

(* What was reserved beyond the last whole character goes back.               *)
Extend(s) ==
  /\ Lock(s, "extending") /\ UNCHANGED told
  /\ LET a == appends[s]
         start == SuffixStart(a.bytes, a.reserved)
     IN /\ used' = used - (a.reserved - (Len(a.bytes) - start))
        /\ buffers' = [buffers EXCEPT ![s].unread = @ \o From(a.bytes, start),
                                      ![s].truncated = @ \/ start > 0]
        /\ appends' = [appends EXCEPT ![s] = Unused]

(* receipt: take the oldest characters, and tell whether some are missing.    *)
TakeOutput(s, n) ==
  /\ Lock(s, "idle") /\ UNCHANGED used
  /\ LET b == buffers[s]
         boundary == Floor(b.unread, n)
         rest == From(b.unread, boundary)
         taken == Cardinality({b.unread[i].char : i \in 1..boundary})
     IN /\ buffers' = [buffers EXCEPT ![s].unread = rest, ![s].truncated = FALSE]
        /\ appends' = [appends EXCEPT ![s] =
              IF boundary = 0 THEN Unused ELSE [Unused EXCEPT !.at = "taking", !.owed = boundary]]
        /\ told' = [told EXCEPT ![s].known =
              CASE ~b.truncated -> @ + taken
                [] b.truncated /\ rest # <<>> -> rest[1].char - 1
                [] OTHER -> told[s].made]

(* The session is forgotten, and its buffer dropped.                          *)
DropBuffer(s) ==
  /\ Lock(s, "idle") /\ buffers[s].fed = MaxFed + 1
  /\ used' = used - Len(buffers[s].unread)
  /\ buffers' = [buffers EXCEPT ![s].open = FALSE, ![s].unread = <<>>]
  /\ UNCHANGED <<appends, told>>

BufferNext ==
  \E s \in Sessions :
    \/ \E chunk \in Chunks : AppendOutput(s, chunk)
    \/ FinishOutput(s) \/ Reserve(s) \/ Release(s) \/ Extend(s) \/ DropBuffer(s)
    \/ \E n \in Limits : TakeOutput(s, n)
-----------------------------------------------------------------------------
BufferTypeOK ==
  /\ used \in Nat
  /\ \A s \in Sessions :
       /\ buffers[s].unread \in Seq([char : Nat, lead : BOOLEAN])
       /\ {buffers[s].truncated, buffers[s].open, buffers[s].pending} \subseteq BOOLEAN
       /\ buffers[s].state \in {"Ground", "Escape", "Csi", "Osc", "OscEscape"}
       /\ appends[s].at \in {"idle", "reserving", "extending", "taking"}
       /\ told[s].known <= told[s].made

(* The budget counts what the buffers hold, what a thread has reserved and    *)
(* what it is about to give back, and never passes its limit.                 *)
Held(s) == Len(buffers[s].unread) + appends[s].reserved + appends[s].owed
BudgetExact == used = SumFunction([s \in Sessions |-> Held(s)]) /\ used <= Budget

(* A buffer holds whole characters, the newest ones without a gap, within its *)
(* limit; the caller has seen every character before them, or was told that   *)
(* some are missing, or is about to be.                                       *)
OutputWhole ==
  \A s \in {t \in Sessions : buffers[t].open} :
    LET unread == buffers[s].unread
        chars == {unread[i].char : i \in DOMAIN unread}
        coming == {appends[s].bytes[i].char : i \in DOMAIN appends[s].bytes}
    IN /\ Len(unread) <= MaxUnread
       /\ unread # <<>> => unread[1].lead
       /\ \A i \in 2..Len(unread) : unread[i].char = unread[i - 1].char + (IF unread[i].lead THEN 1 ELSE 0)
       /\ appends[s].at = "idle" /\ unread # <<>> => Max(chars) = told[s].made
       /\ \/ buffers[s].truncated
          \/ Min(chars \cup coming \cup {told[s].made + 1}) = told[s].known + 1

(* The shared budget is neither leaked nor overdrawn, and no output is lost   *)
(* or torn without the next receipt saying so.                                *)
BufferExact == BudgetExact /\ OutputWhole
=============================================================================
