------------------------------ MODULE WikiForget ------------------------------
(* Forgetting evidence (vault/src/forget.rs) beside the knowledge workflow.   *)
(*                                                                            *)
(* A plan names the pages that cite a session.  Applied, it rewrites them in  *)
(* one wiki transaction without the citation, leaves a tombstone, deletes the *)
(* events and the metadata one after the other, and closes the tombstone.     *)
(* The process that does it, or that repairs the vault, is another one than   *)
(* the driver's; the writer lease is what they share.                         *)
EXTENDS KnowledgeWorkflow

VARIABLES plans,    \* the plans made
          tombs,    \* the tombstone of each plan
          forget    \* the plan being applied

forgetVars == <<plans, tombs, forget>>
vars == <<txnVars, flowVars, forgetVars>>

PlanIds == 1..MaxPlans
NoPlan == 0

IsPlan(x) ==
  /\ x.pages \subseteq Pages /\ x.made \in BOOLEAN /\ x.job \in Jobs
  /\ \A p \in Pages : IsContent(p, x.seen[p])

TypeOK ==
  /\ TransactionTypeOK /\ WorkflowTypeOK
  /\ DOMAIN plans = PlanIds /\ \A n \in PlanIds : IsPlan(plans[n])
  /\ tombs \in [PlanIds -> {"none", "prepared", "forgotten"}]
  /\ forget.plan \in PlanIds \cup {NoPlan}
  /\ forget.at \in {"idle", "rolling", "events", "metadata", "finish"}
  /\ forget.at # "idle" => lease = "maintenance"

Idle == [plan |-> NoPlan, at |-> "idle"]
Unmade == [made |-> FALSE, job |-> CHOOSE j \in Jobs : TRUE, pages |-> {},
           seen |-> [p \in Pages |-> <<>>]]

Init ==
  /\ TransactionInit /\ WorkflowInit
  /\ plans = [n \in PlanIds |-> Unmade]
  /\ tombs = [n \in PlanIds |-> "none"] /\ forget = Idle
-----------------------------------------------------------------------------
(* A page cites the session of the job that has rendered it; an edit by hand  *)
(* leaves the citations.                                                      *)
Cites(f, j) == files[f] # <<>> /\ files[f][1][1] = j
Affected(j) == {p \in Pages : Cites(p, j)}

(* plan_forget: the plan, and the contents its patch will be written for. *)
PlanForget(n, j) ==
  /\ lease = "free" /\ ~plans[n].made /\ (n > 1 => plans[n - 1].made)
  /\ evidence[j] = "whole" /\ Trouble
  /\ plans' = [plans EXCEPT ![n] = [made |-> TRUE, job |-> j, pages |-> Affected(j), seen |-> PagesNow]]
  /\ UNCHANGED <<tombs, forget, files, txns, lease, roll, flowVars>>

(* validate_recrystallization: every affected page is replaced, the log gets  *)
(* a line.                                                                    *)
ForgetChanges(n) ==
  LET t == <<"forget", n>> IN
  [i \in 1..Cardinality(plans[n].pages) |->
     LET p == SetToSeq(plans[n].pages)[i] IN Target(p, files[p], <<t>>)]
  \o <<Target(Log, files[Log], Append(files[Log], t))>>

(* A fault: the pages are not planned again when the plan is applied. *)
FaultyPlanHolds(n) == TRUE

PlanHolds(n) == plans[n].pages = Affected(plans[n].job)

ForgetStart(n) ==
  /\ lease = "free" /\ plans[n].made /\ tombs[n] # "forgotten"
  /\ PlanHolds(n) /\ evidence[plans[n].job] = "whole"
  /\ \A p \in plans[n].pages : files[p] = plans[n].seen[p]
  /\ Begin("maintenance", <<"forget", n>>, ForgetChanges(n))
  /\ forget' = [plan |-> n, at |-> "rolling"]
  /\ UNCHANGED <<plans, tombs, flowVars>>

(* The prepared tombstone holds the time of this very call: a tombstone that  *)
(* an earlier call has left is another one, unless the caller repeats its     *)
(* time.                                                                      *)
ForgetTombstone ==
  LET n == forget.plan IN
  /\ forget.at = "rolling" /\ roll.at = "done"
  /\ \/ /\ tombs[n] \in {"none", "prepared"}
        /\ tombs' = [tombs EXCEPT ![n] = "prepared"]
        /\ forget' = [forget EXCEPT !.at = "events"]
        /\ UNCHANGED <<lease, roll>>
     \/ tombs[n] = "prepared" /\ Release /\ forget' = Idle /\ UNCHANGED tombs
  /\ UNCHANGED <<plans, flowVars, files, txns, trouble>>

ForgetRefused ==
  /\ forget.at = "rolling" /\ roll.at = "failed"
  /\ Release /\ forget' = Idle
  /\ UNCHANGED <<plans, tombs, flowVars, files, txns, trouble>>

Delete(from, left, to) ==
  /\ forget.at = from
  /\ evidence' = [evidence EXCEPT ![plans[forget.plan].job] = left]
  /\ forget' = [forget EXCEPT !.at = to]
  /\ UNCHANGED <<plans, tombs, txnVars, durable, journal, torn, receiptFile, run, calls>>
ForgetEvents == Delete("events", "metadata", "metadata")
ForgetMetadata == Delete("metadata", "gone", "finish")

ForgetFinish ==
  /\ forget.at = "finish"
  /\ tombs' = [tombs EXCEPT ![forget.plan] = "forgotten"]
  /\ Release /\ forget' = Idle
  /\ UNCHANGED <<plans, flowVars, files, txns, trouble>>
-----------------------------------------------------------------------------
(* repair_vault, in the process that forgets too. *)
Repair(t) == RepairTransaction(t) /\ UNCHANGED <<flowVars, forgetVars>>
RepairEnds ==
  /\ lease = "maintenance" /\ forget.at = "idle" /\ roll.at \in {"done", "failed"}
  /\ Release
  /\ UNCHANGED <<files, txns, trouble, flowVars, forgetVars>>

(* This process dies, or one of its file operations fails. *)
MaintenanceCrash ==
  /\ lease = "maintenance" /\ Trouble
  /\ Release /\ forget' = Idle
  /\ UNCHANGED <<plans, tombs, flowVars, files, txns>>

Next ==
  \/ DriverNext /\ UNCHANGED forgetVars
  \/ RollForward /\ UNCHANGED <<flowVars, forgetVars>>
  \/ \E f \in Files : HumanEdit(f) /\ UNCHANGED <<flowVars, forgetVars>>
  \/ \E n \in PlanIds, j \in Jobs : PlanForget(n, j)
  \/ \E n \in PlanIds : ForgetStart(n)
  \/ ForgetTombstone \/ ForgetRefused \/ ForgetEvents \/ ForgetMetadata \/ ForgetFinish
  \/ \E t \in Txns : Repair(t)
  \/ RepairEnds \/ MaintenanceCrash

Spec == Init /\ [][Next]_vars
-----------------------------------------------------------------------------
(* Evidence is touched only after the transaction that removes its citations  *)
(* is committed; and when a tombstone says forgotten, the evidence is gone    *)
(* and no page cites it, whatever was committed between plan and application. *)
ForgetIsThorough ==
  [][/\ \A j \in Jobs : evidence'[j] # evidence[j] =>
          \E n \in PlanIds : plans[n].job = j /\ tombs[n] = "prepared" /\ txns[<<"forget", n>>].receipt
     /\ \A n \in PlanIds : tombs'[n] = "forgotten" /\ tombs[n] # "forgotten" =>
          evidence[plans[n].job] = "gone" /\ Affected(plans[n].job) = {}]_vars
=============================================================================
