-------------------------- MODULE KnowledgeWorkflow --------------------------
(* The knowledge workflow of finalized sessions: cli/src/wiki.rs, the machine *)
(* of core/src/knowledge.rs and the journal of vault/src/workflow.rs.         *)
(*                                                                            *)
(* A job evaluates the evidence of one session, has the session's own model   *)
(* write a patch, commits the patch as a wiki transaction and records a       *)
(* receipt.  Every step is journalled, so that a run that died is run again   *)
(* from its beginning and takes stored generations instead of new ones.  A    *)
(* pending job may be rebound to one other model.                             *)
(*                                                                            *)
(* Abstractions.  A patch creates or replaces one page.  Of the journal only  *)
(* the records are kept that a later run reads; events are part of the step   *)
(* that publishes them.  A run takes its inputs from the vault when it begins *)
(* (prepare_wiki_inputs), and works on them however the vault changes.        *)
EXTENDS WikiTransaction, SequencesExt, FiniteSetsExt

CONSTANTS Original,    \* the binding every session has used
          MaxCalls     \* bound: calls of the model, all jobs together
ASSUME BindingAssumption == Original \in Bindings /\ "none" \notin Bindings /\ MaxCalls \in Nat

VARIABLES durable,      \* jobs whose evidence the durability gate lets through
          evidence,     \* the raw evidence of each job's session
          journal,      \* journal.jsonl of each job
          torn,         \* jobs whose journal ends in a fragment
          receiptFile,  \* the receipt file of each job
          run,          \* the run under way
          calls         \* calls of the model, for the properties

flowVars == <<durable, evidence, journal, torn, receiptFile, run, calls>>

Attempts == 1..2
NoBinding == "none"
Nothing == [kind |-> "none", page |-> CHOOSE p \in Pages : TRUE, old |-> <<>>]
Ended(kind) == [Nothing EXCEPT !.kind = kind]
NoReceipt == [outcome |-> "none", binding |-> NoBinding, code |-> "none"]
-----------------------------------------------------------------------------
Outcomes == {"none", "NoOp", "Synthesized", "Pending", "Failed"}
IsReceipt(r) == r.outcome \in Outcomes /\ r.binding \in Bindings \cup {NoBinding}
IsGeneration(g) ==
  /\ g.kind \in {"none", "accepted", "schema", "unsafe", "model", "unknown"}
  /\ g.page \in Pages /\ IsContent(g.page, g.old)
IsJournal(x) ==
  /\ x.started \subseteq Bindings \X Attempts
  /\ \A b \in Bindings, a \in Attempts : IsGeneration(x.ended[b][a])
  /\ \A i \in DOMAIN x.receipts : IsReceipt(x.receipts[i])
  /\ x.rebind \in Bindings \cup {NoBinding}
Places == {"idle", "generate", "calling", "commit", "rolling", "receipt", "record"}

WorkflowTypeOK ==
  /\ durable \subseteq Jobs /\ torn \subseteq Jobs
  /\ evidence \in [Jobs -> {"whole", "metadata", "gone"}]
  /\ \A j \in Jobs : IsJournal(journal[j]) /\ IsReceipt(receiptFile[j])
  /\ run.at \in Places /\ run.attempt \in Attempts /\ IsReceipt(run.receipt)
  /\ run.at \in {"rolling", "record"} => lease = "driver"
  /\ \A j \in Jobs : calls[j] \in [Bindings \X Attempts -> 0..2]

NoRun == [at |-> "idle", job |-> CHOOSE j \in Jobs : TRUE, binding |-> Original, rebind |-> NoBinding,
          attempt |-> 1, pages |-> [p \in Pages |-> <<>>], receipt |-> NoReceipt]
EmptyJournal == [started |-> {}, ended |-> [b \in Bindings |-> [a \in Attempts |-> Nothing]],
                 receipts |-> <<>>, rebind |-> NoBinding]

WorkflowInit ==
  /\ durable \in SUBSET Jobs
  /\ evidence = [j \in Jobs |-> "whole"]
  /\ journal = [j \in Jobs |-> EmptyJournal] /\ torn = {}
  /\ receiptFile = [j \in Jobs |-> NoReceipt]
  /\ run = NoRun
  /\ calls = [j \in Jobs |-> [x \in Bindings \X Attempts |-> 0]]
-----------------------------------------------------------------------------
Latest(j) == IF journal[j].receipts = <<>> THEN NoReceipt ELSE Last(journal[j].receipts)
Receipt(outcome, b, code) == [outcome |-> outcome, binding |-> b, code |-> code]
Readable(j) == lease = "free" /\ j \notin torn
PagesNow == [p \in Pages |-> files[p]]

AtReceipt(r) == [run EXCEPT !.at = "receipt", !.receipt = r]
Pending(code) == AtReceipt(Receipt("Pending", run.binding, code))
Failed(code) == AtReceipt(Receipt("Failed", run.binding, code))

(* after_evaluation, for a job the gate lets through or does not. *)
Evaluated(r) ==
  IF r.job \in durable THEN [r EXCEPT !.at = "generate"]
  ELSE [r EXCEPT !.at = "receipt", !.receipt = Receipt("NoOp", Original, "no_signal")]

(* run and run_rebound: a rebind is journalled first, and only while the job  *)
(* is pending; a receipt that still stands is returned as it is.              *)
RunStart(j, wish) ==
  LET asked == IF wish # NoBinding THEN wish ELSE journal[j].rebind
      stands == /\ Latest(j) # NoReceipt
                /\ asked = NoBinding \/ Latest(j).outcome # "Pending" \/ Latest(j).binding = asked
  IN
  /\ run.at = "idle" /\ Readable(j) /\ evidence[j] = "whole"
  /\ wish # NoBinding => Latest(j).outcome = "Pending" /\ journal[j].rebind \in {NoBinding, wish}
  /\ journal' = [journal EXCEPT ![j].rebind = asked]
  /\ run' = IF stands THEN run
            ELSE Evaluated([NoRun EXCEPT !.job = j, !.rebind = asked, !.pages = PagesNow])
  /\ UNCHANGED <<durable, evidence, torn, receiptFile, calls, txnVars>>
-----------------------------------------------------------------------------
(* What the machine does with the end of a generation. *)
Fits(g) == run.pages[g.page] = g.old
Judged(g) ==
  CASE g.kind = "accepted" /\ Fits(g) -> [run EXCEPT !.at = "commit"]
    [] g.kind = "accepted" /\ ~Fits(g) -> Failed("stale")
    [] g.kind = "schema" /\ run.attempt < 2 -> [run EXCEPT !.at = "generate", !.attempt = @ + 1]
    [] g.kind = "schema" /\ run.attempt = 2 -> Failed("schema_repair_exhausted")
    [] g.kind = "unsafe" -> Failed("unsafe")
    [] OTHER -> Pending(g.kind)

Stored == journal[run.job].ended[run.binding][run.attempt]
StoreEnd(g) == journal' = [journal EXCEPT ![run.job].ended[run.binding][run.attempt] = g]

(* generation_input, when the journal knows the answer. *)
UseStored ==
  /\ run.at = "generate" /\ Readable(run.job)
  /\ Stored.kind # "none"
  /\ run' = Judged(Stored)
  /\ UNCHANGED <<durable, evidence, journal, torn, receiptFile, calls, txnVars>>

(* A call was started and nobody knows its answer: it is not made again. *)
GiveUpUnknown ==
  /\ run.at = "generate" /\ Readable(run.job)
  /\ Stored.kind = "none" /\ <<run.binding, run.attempt>> \in journal[run.job].started
  /\ StoreEnd(Ended("unknown"))
  /\ run' = Judged(Ended("unknown"))
  /\ UNCHANGED <<durable, evidence, torn, receiptFile, calls, txnVars>>

Called(j) == SumFunctionOnSet(calls[j], Bindings \X Attempts)
MayCall == SumFunction([j \in Jobs |-> Called(j)]) < MaxCalls

(* A fault: the start of the call is not journalled. *)
FaultyCall ==
  /\ run.at = "generate" /\ Readable(run.job) /\ MayCall
  /\ Stored.kind = "none" /\ <<run.binding, run.attempt>> \notin journal[run.job].started
  /\ calls' = [calls EXCEPT ![run.job][<<run.binding, run.attempt>>] = IF @ < 2 THEN @ + 1 ELSE 2]
  /\ run' = [run EXCEPT !.at = "calling"]
  /\ UNCHANGED <<durable, evidence, journal, torn, receiptFile, txnVars>>

(* The start is durable before the model is called. *)
Call ==
  /\ run.at = "generate" /\ Readable(run.job) /\ MayCall
  /\ Stored.kind = "none" /\ <<run.binding, run.attempt>> \notin journal[run.job].started
  /\ journal' = [journal EXCEPT ![run.job].started = @ \cup {<<run.binding, run.attempt>>}]
  /\ calls' = [calls EXCEPT ![run.job][<<run.binding, run.attempt>>] = IF @ < 2 THEN @ + 1 ELSE 2]
  /\ run' = [run EXCEPT !.at = "calling"]
  /\ UNCHANGED <<durable, evidence, torn, receiptFile, txnVars>>

(* The model answers.  An accepted patch fits the pages it was shown. *)
Answer(kind, p) ==
  LET g == IF kind = "accepted" THEN [kind |-> kind, page |-> p, old |-> run.pages[p]] ELSE Ended(kind) IN
  /\ run.at = "calling" /\ Readable(run.job)
  /\ kind \in {"accepted", "schema", "unsafe", "model"}
  /\ StoreEnd(g)
  /\ run' = Judged(g)
  /\ UNCHANGED <<durable, evidence, torn, receiptFile, calls, txnVars>>
-----------------------------------------------------------------------------
(* commit_patch: the page, the index rendered from the pages, and one more    *)
(* line of the log; the last two are read when the commit begins.             *)
PatchChanges(t) ==
  LET p == Stored.page
      listed == {q \in Pages : Existing(q)} \cup {p}
  IN <<Target(p, Stored.old, <<t>>), Target(Index, files[Index], listed),
       Target(Log, files[Log], Append(files[Log], t))>>

CommitStart ==
  /\ run.at = "commit" /\ lease = "free"
  /\ LET t == <<run.job, run.binding>> IN Begin("driver", t, PatchChanges(t))
  /\ run' = [run EXCEPT !.at = "rolling"]
  /\ UNCHANGED <<durable, evidence, journal, torn, receiptFile, calls>>

(* Somebody else holds the writer lease: the commit is unavailable. *)
CommitBusy ==
  /\ run.at = "commit" /\ lease # "free"
  /\ run' = Pending("unavailable")
  /\ UNCHANGED <<durable, evidence, journal, torn, receiptFile, calls, txnVars>>

CommitEnds ==
  /\ run.at = "rolling" /\ roll.at \in {"done", "failed"}
  /\ run' = IF roll.at = "done" THEN AtReceipt(Receipt("Synthesized", run.binding, "synthesized"))
            ELSE Pending(roll.code)
  /\ Release /\ UNCHANGED <<files, txns, trouble>>
  /\ UNCHANGED <<durable, evidence, journal, torn, receiptFile, calls>>
-----------------------------------------------------------------------------
(* The caller sees the receipt: the run is over, or begins again with the     *)
(* model the job was rebound to.                                              *)
Published ==
  IF run.receipt.outcome = "Pending" /\ run.rebind # NoBinding /\ run.receipt.binding # run.rebind
  THEN [run EXCEPT !.at = "generate", !.binding = run.rebind, !.attempt = 1, !.receipt = NoReceipt]
  ELSE NoRun

MayReplace(last) == last.outcome = "Pending"

(* append_receipt, first half: a receipt that is already the latest is left   *)
(* alone, a final one is never replaced, and the file is written first.       *)
ReceiptFile ==
  LET r == run.receipt
      last == Latest(run.job)
      written == IF last = NoReceipt THEN receiptFile[run.job] \in {NoReceipt, r} ELSE MayReplace(last)
  IN
  /\ run.at = "receipt" /\ Readable(run.job)
  /\ \/ last = r /\ run' = Published /\ UNCHANGED <<receiptFile, lease>>
     \/ /\ last # r /\ written
        /\ receiptFile' = [receiptFile EXCEPT ![run.job] = r]
        /\ lease' = "driver"
        /\ run' = [run EXCEPT !.at = "record"]
     \/ last # r /\ ~written /\ run' = NoRun /\ UNCHANGED <<receiptFile, lease>>
  /\ UNCHANGED <<durable, evidence, journal, torn, calls, files, txns, roll, trouble>>

(* Second half: the journal takes the receipt unless it has one just like it. *)
ReceiptRecord ==
  LET r == run.receipt IN
  /\ run.at = "record"
  /\ journal' = [journal EXCEPT ![run.job].receipts = IF Contains(@, r) THEN @ ELSE Append(@, r)]
  /\ run' = Published /\ Release
  /\ UNCHANGED <<durable, evidence, torn, receiptFile, calls, files, txns, trouble>>
-----------------------------------------------------------------------------
(* The store cannot be opened: another process holds the lease, or the        *)
(* journal is torn.  The run ends with an error.                              *)
RunRefused ==
  /\ run.at \in {"generate", "calling", "receipt"} /\ ~Readable(run.job)
  /\ run' = NoRun
  /\ UNCHANGED <<durable, evidence, journal, torn, receiptFile, calls, txnVars>>

(* The process dies.  What it was appending to the journal may be torn. *)
DriverCrash ==
  /\ run.at # "idle" /\ Trouble
  /\ run' = NoRun
  /\ torn' \in {torn, IF run.at \in {"generate", "calling", "record"} THEN torn \cup {run.job} ELSE torn}
  /\ IF lease = "driver" THEN Release ELSE UNCHANGED <<lease, roll>>
  /\ UNCHANGED <<durable, evidence, journal, receiptFile, calls, files, txns>>

(* repair_workflow_tails, with which a repair begins. *)
RepairTails ==
  /\ lease = "free" /\ torn # {} /\ torn' = {}
  /\ UNCHANGED <<durable, evidence, journal, receiptFile, run, calls, txnVars>>

DriverNext ==
  \/ \E j \in Jobs, b \in (Bindings \ {Original}) \cup {NoBinding} : RunStart(j, b)
  \/ UseStored \/ GiveUpUnknown \/ Call
  \/ \E kind \in {"accepted", "schema", "unsafe", "model"}, p \in Pages : Answer(kind, p)
  \/ CommitStart \/ CommitBusy \/ CommitEnds
  \/ ReceiptFile \/ ReceiptRecord \/ RunRefused \/ DriverCrash \/ RepairTails
-----------------------------------------------------------------------------
(* Over crashes, restarts, repairs and a change of the model, each attempt of *)
(* each binding calls the provider at most once.  And a job says it has       *)
(* been synthesized only when its own patch is committed with a receipt, says *)
(* so once, and its receipt file says the same; a job the gate stopped has    *)
(* called no model.                                                           *)
JobsTruthful ==
  \A j \in Jobs :
    LET final == {i \in DOMAIN journal[j].receipts : journal[j].receipts[i].outcome # "Pending"} IN
    /\ \A x \in Bindings \X Attempts : calls[j][x] <= 1
    /\ Cardinality(final) <= 1
    /\ \A i \in final :
         LET r == journal[j].receipts[i] IN
         /\ i = Len(journal[j].receipts) /\ receiptFile[j] = r
         /\ r.outcome = "Synthesized" =>
              LET t == txns[<<j, r.binding>>] IN t.state = "committed" /\ t.receipt
         /\ r.outcome = "NoOp" => \A x \in Bindings \X Attempts : calls[j][x] = 0
=============================================================================
