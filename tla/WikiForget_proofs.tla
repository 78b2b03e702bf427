--------------------------- MODULE WikiForget_proofs ---------------------------
(***************************************************************************)
(* Proofs about WikiForget, for all pages, jobs, bindings and bounds: the  *)
(* transactions of the vault are whole and keep edits, jobs are truthful   *)
(* about what they did, and forgetting is thorough.                        *)
(***************************************************************************)
EXTENDS WikiForget, FiniteSetTheorems, WellFoundedInduction, TLAPS

-----------------------------------------------------------------------------
(* The inductive invariant. *)

Lines == Seq(Txns \cup {Human})
Contents == (SUBSET (Pages \cup {Human})) \cup Lines
TargetRec == [file : Files, old : Contents, new : Contents]
TxnRec == [state : {"none", "staged", "prepared", "applying", "committed"},
           targets : Seq(TargetRec), receipt : BOOLEAN]
Kinds == {"none", "accepted", "schema", "unsafe", "model", "unknown"}
Codes == Kinds \cup {"no_signal", "stale", "schema_repair_exhausted", "synthesized",
                     "ok", "conflict", "invalid", "unavailable"}
Rec == [outcome : Outcomes, binding : Bindings \cup {NoBinding}, code : Codes]
Gen == [kind : Kinds, page : Pages, old : Lines]
Jrn == [started : SUBSET (Bindings \X Attempts), ended : [Bindings -> [Attempts -> Gen]],
        receipts : Seq(Rec), rebind : Bindings \cup {NoBinding}]
Run == [at : Places, job : Jobs, binding : Bindings, rebind : Bindings \cup {NoBinding},
        attempt : Attempts, pages : [Pages -> Lines], receipt : Rec]
Plan == [made : BOOLEAN, job : Jobs, pages : SUBSET Pages, seen : [Pages -> Lines]]

VaultTypes ==
    /\ files \in [Files -> Contents] /\ \A f \in Files : IsContent(f, files[f])
    /\ txns \in [Txns -> TxnRec]
    /\ \A t \in Txns : \A i \in DOMAIN txns[t].targets : IsTarget(txns[t].targets[i])
    /\ lease \in Holders /\ roll \in Roll /\ (lease = "free" => roll = NoRoll)
    /\ trouble \in 0..MaxTrouble
JobTypes ==
    /\ durable \subseteq Jobs /\ torn \subseteq Jobs
    /\ evidence \in [Jobs -> {"whole", "metadata", "gone"}]
    /\ journal \in [Jobs -> Jrn] /\ receiptFile \in [Jobs -> Rec]
    /\ run \in Run /\ (run.at \in {"rolling", "record"} => lease = "driver")
    /\ calls \in [Jobs -> [Bindings \X Attempts -> 0..2]]
ForgetTypes ==
    /\ plans \in [PlanIds -> Plan]
    /\ tombs \in [PlanIds -> {"none", "prepared", "forgotten"}]
    /\ forget \in [plan : PlanIds \cup {NoPlan},
                   at : {"idle", "rolling", "events", "metadata", "finish"}]
    /\ forget.at # "idle" => lease = "maintenance"
Types == VaultTypes /\ JobTypes /\ ForgetTypes

(* The stage of the transaction under way is the one its directory tells.     *)
Rolls ==
    /\ roll.next # 0
    /\ roll.at # "none" => lease # "free" /\ roll.txn \in Txns
    /\ roll.at = "manifest" => txns[roll.txn].state = "staged"
    /\ roll.at = "validate" => txns[roll.txn].state \in {"prepared", "applying", "committed"}
    /\ roll.at = "apply" => txns[roll.txn].state \in {"applying", "committed"}
    /\ roll.at = "receipt" => txns[roll.txn].state = "committed"
    /\ roll.at = "done" => txns[roll.txn].receipt
    /\ \A t \in Txns : txns[t].receipt => txns[t].state = "committed"

(* No two targets of a transaction are one file.  What has been replaced has  *)
(* its new bytes and what has not, its old or its new ones, or a human has    *)
(* come in between.                                                           *)
Apart(t) ==
    \A i \in DOMAIN txns[t].targets, k \in DOMAIN txns[t].targets :
        txns[t].targets[i].file = txns[t].targets[k].file => i = k
Is(x, set) == files[x.file] \in set \/ x.file \in roll.dirty
Passed ==
    /\ \A t \in Txns : Apart(t)
    /\ roll.at \in {"manifest", "validate"} => roll.next = 1
    /\ roll.at = "apply" =>
         \A i \in DOMAIN Targets :
             Is(Targets[i], {Targets[i].new} \cup IF i < roll.next THEN {} ELSE {Targets[i].old})
    /\ roll.at = "receipt" => \A i \in DOMAIN Targets : Is(Targets[i], {Targets[i].new})

(* A transaction has its line in a log only once, and only in its own before  *)
(* it is applied.                                                             *)
Writes(t, s) == \E i \in DOMAIN s : s[i] = t
Once(s) == \A t \in Txns : \A i \in DOMAIN s, k \in DOMAIN s : s[i] = t /\ s[k] = t => i = k
Applied(t) == txns[t].state \in {"applying", "committed"}
LogIsClean ==
    /\ Once(files[Log])
    /\ \A t \in Txns : Writes(t, files[Log]) => Applied(t)
    /\ \A u \in Txns : \A i \in DOMAIN txns[u].targets :
         LET x == txns[u].targets[i] IN
         x.file = Log => /\ Once(x.new)
                         /\ \A t \in Txns : Writes(t, x.new) => t = u \/ Applied(t)

(* Who holds the lease for what. *)
Whose ==
    /\ run.at = "rolling" => roll.txn = <<run.job, run.binding>> /\ roll.at # "none"
    /\ forget.at # "idle" => forget.plan \in PlanIds /\ roll.txn = <<"forget", forget.plan>>
    /\ forget.at \in {"events", "metadata", "finish"} =>
         tombs[forget.plan] = "prepared" /\ roll.at = "done"
    /\ forget.at = "finish" => evidence[plans[forget.plan].job] = "gone"

(* A job says what became of it. *)
Started(j) == \A x \in Bindings \X Attempts :
    calls[j][x] <= 1 /\ (calls[j][x] # 0 => x \in journal[j].started /\ j \in durable)
Backed(j, r) ==
    /\ r.outcome # "none"
    /\ r.outcome = "Synthesized" => r.binding \in Bindings /\ txns[<<j, r.binding>>].receipt
    /\ r.outcome = "NoOp" <=> j \notin durable
OpenTo(j, n) == \A i \in 1..n : journal[j].receipts[i].outcome = "Pending"
JobHonest(j) ==
    /\ Started(j)
    /\ OpenTo(j, Len(journal[j].receipts) - 1)
    /\ \A i \in DOMAIN journal[j].receipts : Backed(j, journal[j].receipts[i])
    /\ journal[j].receipts # <<>> /\ Latest(j).outcome # "Pending" => receiptFile[j] = Latest(j)
RunHonest ==
    /\ run.at \in {"generate", "calling", "commit", "rolling"} => run.job \in durable
    /\ run.at \in {"receipt", "record"} => Backed(run.job, run.receipt)
    /\ run.at = "record" => /\ receiptFile[run.job] = run.receipt
                            /\ OpenTo(run.job, Len(journal[run.job].receipts))
Receipts == (\A j \in Jobs : JobHonest(j)) /\ RunHonest

(* The transaction that forgets names every page of its plan; before it       *)
(* replaces a page, whatever page still cites the session is yet to come.     *)
Covers(n) ==
    /\ txns[<<"forget", n>>].state # "none" =>
         /\ plans[n].made
         /\ \A p \in plans[n].pages : \E i \in DOMAIN txns[<<"forget", n>>].targets :
              txns[<<"forget", n>>].targets[i].file = p
    /\ \A i \in DOMAIN txns[<<"forget", n>>].targets :
         LET x == txns[<<"forget", n>>].targets[i] IN x.file \in Pages => x.new = << <<"forget", n>> >>
Uncited ==
    forget.at # "idle" =>
        LET j == plans[forget.plan].job IN
        /\ roll.at \in {"manifest", "validate", "apply"} =>
             \A p \in Affected(j) : \E i \in DOMAIN Targets :
                 Targets[i].file = p /\ i >= roll.next
        /\ roll.at \in {"receipt", "done"} => Affected(j) = {}
Forgets == (\A n \in PlanIds : Covers(n)) /\ Uncited

(* That forgetting is thorough rests on the transactions being whole, and so  *)
(* does what a job says; that a transaction is whole rests on its targets     *)
(* being told apart and on its line being nobody else's.                      *)
IInv == Types /\ Rolls /\ Passed /\ LogIsClean /\ Whose /\ Receipts /\ Forgets

-----------------------------------------------------------------------------
(* Numbers, sequences and names. *)

(* The usual induction, over a set of numbers. *)
LEMMA NatSetInduction ==
    ASSUME NEW T \in SUBSET Nat, 0 \in T, \A n \in T : n + 1 \in T
    PROVE  T = Nat
<1> DEFINE R == {p \in Nat \X Nat : p[1] < p[2]}
           U == Nat \ T
<1>1. IsWellFoundedOn(R, Nat)
  BY NatLessThanWellFounded DEF OpToRel
<1>2. ASSUME U # {} PROVE FALSE
  <2> HIDE DEF R
  <2>1. PICK x \in U : \A y \in U : ~(<<y, x>> \in R)
    BY <1>1, <1>2, WFMin
  <2>2. x \in Nat /\ x # 0 /\ x - 1 \in Nat
    OBVIOUS
  <2>3. x - 1 \in U
    BY <2>2
  <2>4. <<x - 1, x>> \in R
    BY <2>2 DEF R
  <2> QED BY <2>1, <2>3, <2>4
<1> QED BY <1>2

(* A transaction of a job is none of a plan, and neither is a human edit. *)
LEMMA Names ==
    /\ Index \notin Pages /\ Log \notin Pages /\ Index # Log
    /\ Index \in Files /\ Log \in Files /\ Pages \subseteq Files
    /\ Human \notin Txns
    /\ \A n \in PlanIds : <<"forget", n>> \in Txns
    /\ \A j \in Jobs, b \in Bindings : <<j, b>> \in Txns
    /\ \A j \in Jobs, b \in Bindings, n \in PlanIds : <<j, b>> # <<"forget", n>>
    /\ \A j \in Jobs : j # "forget" /\ j # "human"
<1>1. "forget" \notin Jobs /\ "human" \notin Jobs
  BY NamesAssumption
<1>2. Human \notin Txns
  BY <1>1 DEF Human, Txns, Forgetting
<1> QED BY <1>1, <1>2, NamesAssumption DEF Index, Log, Files, Txns, Forgetting, PlanIds

LEMMA NaturalBounds == MaxPlans \in Nat /\ MaxTrouble \in Nat
BY TransactionAssumption

(* The function that Effective unfolds. *)
Kept(s, f, n) == IF n = 0 THEN <<>>
                 ELSE IF s[n].old # s[n].new THEN Append(f[n - 1], s[n])
                 ELSE f[n - 1]

LEMMA KeptExists ==
    ASSUME NEW s
    PROVE  \A n \in Nat : \E f : f = [m \in 0..n |-> Kept(s, f, m)]
<1> DEFINE T == {n \in Nat : \E f : f = [m \in 0..n |-> Kept(s, f, m)]}
<1>1. 0 \in T
  <2> DEFINE f == [m \in 0..0 |-> <<>>]
  <2>1. f = [m \in 0..0 |-> Kept(s, f, m)]
    BY DEF Kept
  <2> QED BY <2>1
<1>2. ASSUME NEW n \in T PROVE n + 1 \in T
  <2>1. PICK f : f = [m \in 0..n |-> Kept(s, f, m)]
    OBVIOUS
  <2> DEFINE g == [m \in 0..(n + 1) |-> IF m <= n THEN f[m] ELSE Kept(s, f, n + 1)]
  <2>2. ASSUME NEW m \in 0..(n + 1) PROVE g[m] = Kept(s, g, m)
    <3>1. CASE m = 0
      <4>1. m \in 0..n /\ g[m] = f[m]
        BY <3>1
      <4>2. f[m] = Kept(s, f, m)
        <5> HIDE DEF g
        <5> QED BY <2>1, <4>1
      <4> QED BY <3>1, <4>1, <4>2 DEF Kept
    <3>2. CASE m # 0
      <4>1. m - 1 \in 0..n /\ g[m - 1] = f[m - 1]
        BY <3>2
      <4>2. g[m] = Kept(s, f, m)
        <5>1. CASE m <= n
          <6>1. m \in 0..n /\ g[m] = f[m]
            BY <5>1
          <6> HIDE DEF g
          <6> QED BY <2>1, <6>1
        <5>2. CASE m = n + 1
          BY <5>2
        <5> QED BY <5>1, <5>2
      <4> HIDE DEF g
      <4> QED BY <4>1, <4>2 DEF Kept
    <3> QED BY <3>1, <3>2
  <2>3. g = [m \in 0..(n + 1) |-> Kept(s, g, m)]
    BY <2>2
  <2>4. \E h : h = [m \in 0..(n + 1) |-> Kept(s, h, m)]
    <3> HIDE DEF g
    <3> QED BY <2>3
  <2> QED BY <2>4
<1>3. T = Nat
  <2> HIDE DEF T
  <2>1. T \in SUBSET Nat
    BY DEF T
  <2> QED BY <1>1, <1>2, <2>1, NatSetInduction
<1> QED BY <1>3

(* What changes something is kept, in a sequence of the same elements that    *)
(* still tells the files apart.                                               *)
Different(s) == \A i \in DOMAIN s, k \in DOMAIN s : s[i].file = s[k].file => i = k

Copies(S, s, m, a) ==
    /\ a \in Seq(S)
    /\ \A i \in DOMAIN a : \E k \in 1..m : a[i] = s[k]
    /\ \A k \in 1..m : s[k].old # s[k].new => \E i \in DOMAIN a : a[i] = s[k]
    /\ Different(s) => Different(a)

LEMMA OneMore ==
    ASSUME NEW S, NEW s \in Seq(S), NEW m \in Nat, m + 1 <= Len(s),
           NEW a, Copies(S, s, m, a), NEW b, b = Append(a, s[m + 1])
    PROVE  Copies(S, s, m + 1, b)
<1>1. s[m + 1] \in S /\ m + 1 \in DOMAIN s /\ a \in Seq(S) /\ DOMAIN s = 1..Len(s)
  BY DEF Copies
<1>2. /\ b \in Seq(S) /\ Len(a) \in Nat /\ DOMAIN a = 1..Len(a)
      /\ DOMAIN b = 1..(Len(a) + 1)
      /\ \A i \in DOMAIN a : b[i] = a[i]
      /\ b[Len(a) + 1] = s[m + 1]
  BY <1>1
<1> DEFINE n == Len(a) + 1
<1>3. /\ n \in DOMAIN b /\ b[n] = s[m + 1]
      /\ \A i \in DOMAIN b : i = n \/ i \in DOMAIN a
      /\ DOMAIN a \subseteq DOMAIN b
  BY <1>2
<1> HIDE DEF n
<1>4. \A i \in DOMAIN b : \E k \in 1..(m + 1) : b[i] = s[k]
  <2>1. \A i \in DOMAIN a : \E k \in 1..m : a[i] = s[k]
    BY DEF Copies
  <2>2. 1..m \subseteq 1..(m + 1) /\ m + 1 \in 1..(m + 1)
    OBVIOUS
  <2> QED BY <1>2, <1>3, <2>1, <2>2
<1>5. \A k \in 1..(m + 1) : s[k].old # s[k].new => \E i \in DOMAIN b : b[i] = s[k]
  <2>1. \A k \in 1..m : s[k].old # s[k].new => \E i \in DOMAIN a : a[i] = s[k]
    BY DEF Copies
  <2>2. \A k \in 1..(m + 1) : k = m + 1 \/ k \in 1..m
    OBVIOUS
  <2> QED BY <1>2, <1>3, <2>1, <2>2
<1>6. ASSUME Different(s) PROVE Different(b)
  <2>1. Different(a)
    BY <1>6 DEF Copies
  <2>2. ASSUME NEW i \in DOMAIN a PROVE a[i].file # s[m + 1].file
    <3>1. PICK k \in 1..m : a[i] = s[k]
      BY DEF Copies
    <3>2. k \in DOMAIN s /\ k # m + 1
      BY <1>1
    <3> QED BY <1>1, <1>6, <3>1, <3>2 DEF Different
  <2>3. \A i \in DOMAIN a, k \in DOMAIN a : b[i].file = b[k].file => i = k
    BY <1>2, <2>1 DEF Different
  <2>4. \A i \in DOMAIN a : b[i].file # b[n].file
    BY <1>2, <1>3, <2>2
  <2> QED BY <1>3, <2>3, <2>4 DEF Different
<1> QED BY <1>2, <1>4, <1>5, <1>6 DEF Copies

LEMMA EffectiveKeeps ==
    ASSUME NEW S, NEW s \in Seq(S)
    PROVE  /\ Effective(s) \in Seq(S)
           /\ \A i \in DOMAIN Effective(s) : \E k \in DOMAIN s : Effective(s)[i] = s[k]
           /\ \A k \in DOMAIN s : s[k].old # s[k].new =>
                \E i \in DOMAIN Effective(s) : Effective(s)[i] = s[k]
           /\ Different(s) => Different(Effective(s))
<1> DEFINE N == Len(s)
           kept == CHOOSE f : f = [m \in 0..N |-> Kept(s, f, m)]
           T == {m \in Nat : m <= N => Copies(S, s, m, kept[m])}
<1>1. Effective(s) = kept[N]
  BY DEF Effective, Kept
<1>2. kept = [m \in 0..N |-> Kept(s, kept, m)]
  BY KeptExists
<1> HIDE DEF kept
<1>3. Copies(S, s, 0, kept[0])
  <2>1. kept[0] = <<>>
    BY <1>2 DEF Kept
  <2> QED BY <2>1 DEF Different, Copies
<1>4. ASSUME NEW m \in Nat, m + 1 <= N, Copies(S, s, m, kept[m])
      PROVE  Copies(S, s, m + 1, kept[m + 1])
  <2>1. m + 1 \in 0..N /\ m + 1 # 0 /\ (m + 1) - 1 = m
    BY <1>4
  <2>2. kept[m + 1] = Kept(s, kept, m + 1)
    BY <1>2, <2>1
  <2>3. CASE s[m + 1].old # s[m + 1].new
    <3>1. kept[m + 1] = Append(kept[m], s[m + 1])
      BY <2>1, <2>2, <2>3 DEF Kept
    <3> QED BY <1>4, <3>1, OneMore
  <2>4. CASE s[m + 1].old = s[m + 1].new
    <3>1. kept[m + 1] = kept[m]
      BY <2>1, <2>2, <2>4 DEF Kept
    <3>2. \A k \in 1..(m + 1) : k = m + 1 \/ k \in 1..m
      OBVIOUS
    <3>3. 1..m \subseteq 1..(m + 1)
      OBVIOUS
    <3> QED BY <1>4, <2>4, <3>1, <3>2, <3>3 DEF Copies
  <2> QED BY <2>3, <2>4
<1>5. T = Nat
  <2>1. 0 \in T
    BY <1>3
  <2>2. ASSUME NEW m \in T PROVE m + 1 \in T
    BY <1>4, <2>2
  <2>3. T \in SUBSET Nat
    OBVIOUS
  <2> HIDE DEF T
  <2> QED BY <2>1, <2>2, <2>3, NatSetInduction
<1>6. Copies(S, s, N, Effective(s))
  BY <1>1, <1>5
<1>7. DOMAIN s = 1..N
  OBVIOUS
<1> QED BY <1>6, <1>7 DEF Copies

(* A finite set of pages is listed without repetition. *)
LEMMA ListedOnce ==
    ASSUME NEW P \in SUBSET Pages
    PROVE  /\ Cardinality(P) \in Nat
           /\ SetToSeq(P) \in [1..Cardinality(P) -> P]
           /\ \A i \in 1..Cardinality(P), k \in 1..Cardinality(P) :
                SetToSeq(P)[i] = SetToSeq(P)[k] => i = k
           /\ \A p \in P : \E i \in 1..Cardinality(P) : SetToSeq(P)[i] = p
<1> DEFINE n == Cardinality(P)
           g == SetToSeq(P)
<1>1. IsFiniteSet(P) /\ n \in Nat
  BY TransactionAssumption, FS_Subset, FS_CardinalityType
<1>2. PICK f : f \in Bijection(1..n, P)
  BY <1>1, FS_CardinalityType DEF ExistsBijection
<1>3. f \in [1..n -> P] /\ IsInjective(f)
  BY <1>2 DEF Bijection, Injection, IsInjective
<1>4. g \in [1..n -> P] /\ IsInjective(g)
  BY <1>3 DEF SetToSeq
<1> HIDE DEF g
<1>5. \A i \in 1..n, k \in 1..n : g[i] = g[k] => i = k
  BY <1>4 DEF IsInjective
<1>6. IsFiniteSet(1..n) /\ Cardinality(1..n) = n
  BY <1>1, FS_Interval
<1>7. \A p \in P : \E i \in 1..n : g[i] = p
  <2>1. g \in Injection(1..n, P)
    BY <1>4 DEF Injection
  <2>2. g \in Surjection(1..n, P)
    BY <1>1, <1>6, <2>1, FS_Injection
  <2> QED BY <2>2 DEF Surjection
<1> QED BY <1>1, <1>4, <1>5, <1>7 DEF g

-----------------------------------------------------------------------------
(* What a transaction is begun with. *)

LEMMA Writing ==
    ASSUME NEW t \in Txns
    PROVE  /\ <<t>> \in Lines /\ <<t>> \in Contents
           /\ \A s \in Lines : Append(s, t) \in Lines /\ Append(s, Human) \in Lines
           /\ Lines \subseteq Contents /\ SUBSET (Pages \cup {Human}) \subseteq Contents
<1>1. t \in Txns \cup {Human} /\ Human \in Txns \cup {Human}
  OBVIOUS
<1>2. <<t>> \in Seq(Txns \cup {Human})
  BY <1>1
<1>3. \A s \in Seq(Txns \cup {Human}) :
          Append(s, t) \in Seq(Txns \cup {Human}) /\ Append(s, Human) \in Seq(Txns \cup {Human})
  BY <1>1
<1> QED BY <1>2, <1>3 DEF Lines, Contents

LEMMA FileTypes ==
    ASSUME VaultTypes
    PROVE  /\ \A p \in Pages : files[p] \in Lines /\ files[p] \in Contents /\ p \in Files
           /\ files[Log] \in Lines /\ files[Log] \in Contents
           /\ files[Index] \subseteq Pages \cup {Human} /\ files[Index] \in Contents
           /\ \A f \in Files : f = Index \/ files[f] \in Lines
BY Names DEF VaultTypes, IsContent, Lines

(* Changes of the transaction t: of files that are told apart, the log's is   *)
(* one more line.                                                             *)
Prepares(t, s) ==
    /\ s \in Seq(TargetRec) /\ Different(s)
    /\ \A i \in DOMAIN s :
         /\ IsTarget(s[i])
         /\ s[i].file = Log => s[i].new = Append(files[Log], t)

LEMMA PatchPrepares ==
    ASSUME Types, NEW t \in Txns
    PROVE  Prepares(t, PatchChanges(t))
<1> DEFINE p == Stored.page
           listed == {q \in Pages : Existing(q)} \cup {p}
           a == Target(p, Stored.old, <<t>>)
           b == Target(Index, files[Index], listed)
           c == Target(Log, files[Log], Append(files[Log], t))
<1>1. p \in Pages /\ Stored.old \in Lines
  BY DEF Types, JobTypes, Stored, Jrn, Gen, Run
<1>2. listed \subseteq Pages
  BY <1>1
<1>3. PatchChanges(t) = <<a, b, c>>
  BY DEF PatchChanges
<1>4. VaultTypes
  BY DEF Types
<1>5. a \in TargetRec /\ IsTarget(a) /\ a.file = p
  BY <1>1, Names, Writing DEF Target, TargetRec, IsTarget, IsContent, Lines
<1>6. b \in TargetRec /\ IsTarget(b) /\ b.file = Index
  <2>1. listed \in SUBSET (Pages \cup {Human}) /\ listed \in Contents
    BY <1>2, Writing
  <2> HIDE DEF listed
  <2> QED BY <1>4, <2>1, Names, FileTypes DEF Target, TargetRec, IsTarget, IsContent
<1>7. c \in TargetRec /\ IsTarget(c) /\ c.file = Log /\ c.new = Append(files[Log], t)
  <2>1. Append(files[Log], t) \in Lines /\ Append(files[Log], t) \in Contents
    BY <1>4, FileTypes, Writing
  <2> QED BY <1>4, <2>1, Names, FileTypes DEF Target, TargetRec, IsTarget, IsContent, Lines
<1> HIDE DEF a, b, c, p
<1>8. <<a, b, c>> \in Seq(TargetRec) /\ DOMAIN <<a, b, c>> = 1..3
  BY <1>5, <1>6, <1>7
<1>9. p # Index /\ p # Log /\ Index # Log
  BY <1>1, Names
<1> QED BY <1>3, <1>5, <1>6, <1>7, <1>8, <1>9 DEF Prepares, Different

LEMMA ForgetPrepares ==
    ASSUME Types, NEW n \in PlanIds, NEW t, t = <<"forget", n>>, NEW s, s = ForgetChanges(n)
    PROVE  /\ Prepares(t, s)
           /\ \A i \in DOMAIN s : s[i].file \in Pages => s[i].new = <<t>>
           /\ \A p \in plans[n].pages : \E i \in DOMAIN s : s[i] = Target(p, files[p], <<t>>)
<1> DEFINE P == plans[n].pages
           m == Cardinality(P)
           g == SetToSeq(P)
           a == [i \in 1..m |-> Target(g[i], files[g[i]], <<t>>)]
           c == Target(Log, files[Log], Append(files[Log], t))
<1>1. P \subseteq Pages /\ VaultTypes /\ t \in Txns
  BY Names DEF Types, ForgetTypes, Plan
<1>2. /\ m \in Nat /\ g \in [1..m -> P]
      /\ \A i \in 1..m, k \in 1..m : g[i] = g[k] => i = k
      /\ \A p \in P : \E i \in 1..m : g[i] = p
  BY <1>1, ListedOnce
<1>3. s = a \o <<c>>
  BY DEF ForgetChanges
<1>4. \A i \in 1..m : /\ a[i] \in TargetRec /\ IsTarget(a[i]) /\ a[i].new = <<t>>
                      /\ a[i].file = g[i] /\ a[i].file \in Pages
  <2> TAKE i \in 1..m
  <2>1. g[i] \in Pages
    BY <1>1, <1>2
  <2>2. a[i] = Target(g[i], files[g[i]], <<t>>)
    OBVIOUS
  <2> HIDE DEF g, a
  <2> QED BY <1>1, <2>1, <2>2, Names, FileTypes, Writing DEF Target, TargetRec, IsTarget, IsContent, Lines
<1>5. c \in TargetRec /\ IsTarget(c) /\ c.file = Log /\ c.new = Append(files[Log], t)
  <2>1. Append(files[Log], t) \in Lines /\ Append(files[Log], t) \in Contents
    BY <1>1, FileTypes, Writing
  <2> QED BY <1>1, <2>1, Names, FileTypes DEF Target, TargetRec, IsTarget, IsContent, Lines
<1>6. \A p \in P : \E i \in 1..m : a[i] = Target(p, files[p], <<t>>)
  <2> TAKE p \in P
  <2>1. PICK i \in 1..m : g[i] = p
    BY <1>2
  <2> HIDE DEF g
  <2> QED BY <2>1
<1>7. a \in Seq(TargetRec) /\ Len(a) = m /\ DOMAIN a = 1..m
  <2>1. a \in [1..m -> TargetRec]
    BY <1>4
  <2>2. DOMAIN a = 1..m
    OBVIOUS
  <2> HIDE DEF a, m
  <2> QED BY <1>2, <2>1, <2>2
<1> HIDE DEF a, c, g, m, P
<1>8. /\ s \in Seq(TargetRec) /\ DOMAIN s = 1..(m + 1)
      /\ \A i \in 1..m : s[i] = a[i]
      /\ s[m + 1] = c
  BY <1>2, <1>3, <1>5, <1>7
<1>9. \A i \in DOMAIN s : i = m + 1 \/ i \in 1..m
  BY <1>2, <1>8
<1>10. 1..m \subseteq DOMAIN s
  BY <1>2, <1>8
<1>11. Different(s)
  <2>1. \A i \in 1..m : s[i].file = g[i] /\ s[i].file # Log
    BY <1>4, <1>8, Names
  <2>2. s[m + 1].file = Log
    BY <1>5, <1>8
  <2> QED BY <1>2, <1>9, <2>1, <2>2 DEF Different
<1>12. \A i \in DOMAIN s :
           /\ IsTarget(s[i])
           /\ s[i].file = Log => s[i].new = Append(files[Log], t)
           /\ s[i].file \in Pages => s[i].new = <<t>>
  <2>1. \A i \in 1..m : IsTarget(s[i]) /\ s[i].file # Log /\ s[i].new = <<t>>
    BY <1>4, <1>8, Names
  <2>2. IsTarget(s[m + 1]) /\ s[m + 1].file = Log /\ s[m + 1].new = Append(files[Log], t)
    BY <1>5, <1>8
  <2>3. Log \notin Pages
    BY Names
  <2> QED BY <1>9, <2>1, <2>2, <2>3
<1>13. \A p \in P : \E i \in DOMAIN s : s[i] = Target(p, files[p], <<t>>)
  BY <1>6, <1>8, <1>10
<1>14. Prepares(t, s)
  BY <1>8, <1>11, <1>12 DEF Prepares
<1>15. \A i \in DOMAIN s : s[i].file \in Pages => s[i].new = <<t>>
  BY <1>12
<1>16. \A p \in plans[n].pages : \E i \in DOMAIN s : s[i] = Target(p, files[p], <<t>>)
  BY <1>13 DEF P
<1> QED BY <1>14, <1>15, <1>16

-----------------------------------------------------------------------------
(* The steps, as the transactions see them. *)

Fades == trouble' = trouble \/ Trouble
Quiet == /\ UNCHANGED <<files, txns, roll>> /\ Fades
         /\ lease' = lease \/ (lease = "free" /\ lease' = "driver")
Drops == Release /\ UNCHANGED <<files, txns>> /\ Fades
Starts(who, t, s) == Begin(who, t, s) /\ (txns[t].state = "none" => Prepares(t, s))

LEMMA DriverMoves ==
    ASSUME Types, DriverNext
    PROVE  \/ Quiet \/ Drops
           \/ \E t \in Txns : \E s : Starts("driver", t, s)
<1>1. CASE CommitStart
  <2> DEFINE t == <<run.job, run.binding>>
  <2>1. t \in Txns
    BY Names DEF Types, JobTypes, Run
  <2>2. Begin("driver", t, PatchChanges(t))
    BY <1>1 DEF CommitStart
  <2> HIDE DEF t
  <2>3. Prepares(t, PatchChanges(t))
    BY <2>1, PatchPrepares
  <2> QED BY <2>1, <2>2, <2>3 DEF Starts
<1>2. CASE CommitEnds
  BY <1>2 DEF CommitEnds, Drops, Fades
<1>3. CASE ReceiptRecord
  BY <1>3 DEF ReceiptRecord, Drops, Fades
<1>4. CASE DriverCrash
  BY <1>4 DEF DriverCrash, Drops, Quiet, Fades
<1>5. CASE ReceiptFile
  BY <1>5 DEF ReceiptFile, Readable, Quiet, Fades
<1>6. CASE RepairTails
  BY <1>6 DEF RepairTails, Quiet, Fades, txnVars
<1>7. CASE \/ \E j \in Jobs, b \in (Bindings \ {Original}) \cup {NoBinding} : RunStart(j, b)
           \/ UseStored \/ GiveUpUnknown \/ Call
           \/ \E kind \in {"accepted", "schema", "unsafe", "model"}, p \in Pages : Answer(kind, p)
           \/ CommitBusy \/ RunRefused
  BY <1>7 DEF RunStart, UseStored, GiveUpUnknown, Call, Answer, CommitBusy, RunRefused,
              Quiet, Fades, txnVars
<1> QED BY <1>1, <1>2, <1>3, <1>4, <1>5, <1>6, <1>7 DEF DriverNext

LEMMA Moves ==
    ASSUME Types, Next
    PROVE  \/ Quiet \/ Drops \/ RollForward
           \/ \E f \in Files : HumanEdit(f)
           \/ \E who \in {"driver", "maintenance"}, t \in Txns : \E s : Starts(who, t, s)
<1>1. CASE DriverNext
  BY <1>1, DriverMoves
<1>2. CASE RollForward \/ \E f \in Files : HumanEdit(f)
  BY <1>2
<1>3. CASE \E n \in PlanIds, j \in Jobs : PlanForget(n, j)
  BY <1>3 DEF PlanForget, Quiet, Fades
<1>4. ASSUME NEW n \in PlanIds, ForgetStart(n)
      PROVE  \E t \in Txns : \E s : Starts("maintenance", t, s)
  <2> DEFINE t == <<"forget", n>>
  <2>1. t \in Txns
    BY Names
  <2>2. Begin("maintenance", t, ForgetChanges(n))
    BY <1>4 DEF ForgetStart
  <2>3. Prepares(t, ForgetChanges(n))
    BY ForgetPrepares
  <2> HIDE DEF t
  <2> QED BY <2>1, <2>2, <2>3 DEF Starts
<1>5. CASE ForgetTombstone
  BY <1>5 DEF ForgetTombstone, Quiet, Drops, Fades
<1>6. CASE ForgetRefused \/ ForgetFinish \/ RepairEnds \/ MaintenanceCrash
  BY <1>6 DEF ForgetRefused, ForgetFinish, RepairEnds, MaintenanceCrash, Drops, Fades
<1>7. CASE ForgetEvents \/ ForgetMetadata
  BY <1>7 DEF ForgetEvents, ForgetMetadata, Delete, Quiet, Fades, txnVars
<1>8. ASSUME NEW t \in Txns, Repair(t)
      PROVE  \E s : Starts("maintenance", t, s)
  <2>1. Begin("maintenance", t, <<>>) /\ txns[t].state # "none"
    BY <1>8 DEF Repair, RepairTransaction, Unfinished
  <2> QED BY <2>1 DEF Starts
<1> QED BY <1>1, <1>2, <1>3, <1>4, <1>5, <1>6, <1>7, <1>8 DEF Next

(* A transaction fails to begin, is loaded, or is staged with the changes     *)
(* that change something.                                                     *)
Loads(t) == /\ txns[t].state \in {"prepared", "applying", "committed"}
            /\ roll' = Rolling(t, "validate", "ok") /\ UNCHANGED txns
Stages(t, s) ==
    /\ txns[t].state = "none" /\ ~Stale(s)
    /\ roll' = Rolling(t, "manifest", "ok")
    /\ txns' = [txns EXCEPT ![t] = [state |-> "staged", targets |-> Effective(s), receipt |-> FALSE]]
BeginFails(t) == /\ \E code \in {"invalid", "conflict"} : roll' = Rolling(t, "failed", code)
                 /\ UNCHANGED txns

LEMMA BeginDoes ==
    ASSUME VaultTypes, NEW who, NEW t \in Txns, NEW s, Begin(who, t, s)
    PROVE  /\ lease = "free" /\ lease' = who /\ roll = NoRoll /\ UNCHANGED <<files, trouble>>
           /\ BeginFails(t) \/ Loads(t) \/ Stages(t, s)
<1>1. lease = "free" /\ lease' = who /\ roll = NoRoll /\ UNCHANGED <<files, trouble>>
  BY DEF Begin, VaultTypes
<1>2. txns[t].state \in {"none", "staged", "prepared", "applying", "committed"}
  BY DEF VaultTypes, TxnRec
<1> DEFINE new == [state |-> "staged", targets |-> Effective(s), receipt |-> FALSE]
<1>3. \/ roll' = Rolling(t, "failed", "invalid") /\ UNCHANGED txns
      \/ roll' = Rolling(t, "failed", "conflict") /\ UNCHANGED txns
      \/ /\ txns[t].state \notin {"none", "staged"}
         /\ roll' = Rolling(t, "validate", "ok") /\ UNCHANGED txns
      \/ /\ txns[t].state = "none" /\ ~Stale(s)
         /\ roll' = Rolling(t, "manifest", "ok") /\ txns' = [txns EXCEPT ![t] = new]
  BY Zenon DEF Begin
<1>5. ASSUME roll' = Rolling(t, "failed", "invalid") \/ roll' = Rolling(t, "failed", "conflict"),
             UNCHANGED txns
      PROVE  BeginFails(t)
  BY <1>5 DEF BeginFails
<1>6. ASSUME txns[t].state \notin {"none", "staged"}, roll' = Rolling(t, "validate", "ok"), UNCHANGED txns
      PROVE  Loads(t)
  BY <1>2, <1>6 DEF Loads
<1>7. ASSUME txns[t].state = "none", ~Stale(s), roll' = Rolling(t, "manifest", "ok"),
             txns' = [txns EXCEPT ![t] = new]
      PROVE  Stages(t, s)
  BY <1>7, Zenon DEF Stages
<1> QED BY <1>1, <1>3, <1>5, <1>6, <1>7

LEMMA RollingType ==
    \A t \in Txns, at \in {"manifest", "validate", "failed"}, code \in {"ok", "conflict", "invalid"} :
        /\ Rolling(t, at, code) \in Roll
        /\ Rolling(t, at, code).txn = t /\ Rolling(t, at, code).at = at
        /\ Rolling(t, at, code).next = 1 /\ Rolling(t, at, code).dirty = {}
<1> SUFFICES ASSUME NEW t \in Txns, NEW at \in {"manifest", "validate", "failed"},
                    NEW code \in {"ok", "conflict", "invalid"}
             PROVE  /\ Rolling(t, at, code) \in Roll
                    /\ Rolling(t, at, code).txn = t /\ Rolling(t, at, code).at = at
                    /\ Rolling(t, at, code).next = 1 /\ Rolling(t, at, code).dirty = {}
  OBVIOUS
<1>1. NoRoll \in Roll /\ NoRoll.next = 1 /\ NoRoll.dirty = {}
  BY DEF NoRoll, Roll
<1> QED BY <1>1 DEF Rolling, Roll

LEMMA NoRollType == NoRoll \in Roll /\ NoRoll.at = "none" /\ NoRoll.txn = Human
BY DEF NoRoll, Roll

States == {"none", "staged", "prepared", "applying", "committed"}

LEMMA StateSet ==
    ASSUME VaultTypes, NEW u \in Txns, NEW v \in States,
           txns' = [txns EXCEPT ![u].state = v]
    PROVE  /\ txns' \in [Txns -> TxnRec] /\ txns'[u].state = v
           /\ \A t \in Txns : /\ txns'[t].targets = txns[t].targets
                              /\ txns'[t].receipt = txns[t].receipt
                              /\ t # u => txns'[t] = txns[t]
BY DEF VaultTypes, TxnRec, States

LEMMA ReceiptSet ==
    ASSUME VaultTypes, NEW u \in Txns, txns' = [txns EXCEPT ![u].receipt = TRUE]
    PROVE  /\ txns' \in [Txns -> TxnRec] /\ txns'[u].receipt
           /\ \A t \in Txns : /\ txns'[t].targets = txns[t].targets
                              /\ txns'[t].state = txns[t].state
                              /\ t # u => txns'[t] = txns[t]
BY DEF VaultTypes, TxnRec

LEMMA TargetTypes ==
    ASSUME VaultTypes, NEW t \in Txns
    PROVE  /\ txns[t].targets \in Seq(TargetRec)
           /\ txns[t].state \in States /\ txns[t].receipt \in BOOLEAN
           /\ \A i \in DOMAIN txns[t].targets :
                /\ txns[t].targets[i].file \in Files
                /\ txns[t].targets[i].new \in Contents /\ txns[t].targets[i].old \in Contents
                /\ IsContent(txns[t].targets[i].file, txns[t].targets[i].new)
<1>1. txns[t] \in TxnRec /\ \A i \in DOMAIN txns[t].targets : IsTarget(txns[t].targets[i])
  BY DEF VaultTypes
<1>2. txns[t].targets \in Seq(TargetRec)
  BY <1>1 DEF TxnRec
<1>3. \A i \in DOMAIN txns[t].targets : txns[t].targets[i] \in TargetRec
  BY <1>2
<1> QED BY <1>1, <1>2, <1>3 DEF TxnRec, TargetRec, IsTarget, States

(* The steps of a transaction under way: where they start from, what they     *)
(* change.                                                                    *)
Under == roll.next # 0 /\ (roll.at # "none" => roll.txn \in Txns)

LEMMA ForwardDoes ==
    ASSUME VaultTypes, Under, RollForward
    PROVE  /\ roll.txn \in Txns /\ roll.txn' = roll.txn /\ lease' = lease /\ Fades /\ roll' \in Roll
           /\ roll.at # "none"
           /\ \/ /\ roll.at = "manifest" /\ roll.at' = "validate" /\ roll.next' = roll.next
                 /\ txns' = [txns EXCEPT ![roll.txn].state = "prepared"] /\ UNCHANGED files
              \/ /\ roll.at = "validate" /\ roll.at' = "apply" /\ roll.next' = roll.next
                 /\ \A i \in DOMAIN Targets : ~Unexpected(Targets[i])
                 /\ \/ txns[roll.txn].state = "committed" /\ txns' = txns
                    \/ /\ txns[roll.txn].state # "committed"
                       /\ txns' = [txns EXCEPT ![roll.txn].state = "applying"]
                 /\ UNCHANGED files
              \/ /\ roll.at = "apply" /\ roll.at' = "apply" /\ roll.next' = roll.next + 1
                 /\ roll.dirty' = roll.dirty /\ Replace /\ UNCHANGED txns
              \/ /\ roll.at = "apply" /\ roll.at' = "receipt" /\ roll.next > Len(Targets)
                 /\ roll.dirty' = roll.dirty /\ roll.next' = roll.next
                 /\ txns' = [txns EXCEPT ![roll.txn].state = "committed"] /\ UNCHANGED files
              \/ /\ roll.at = "receipt" /\ roll.at' = "done" /\ roll.next' = roll.next
                 /\ txns' = [txns EXCEPT ![roll.txn].receipt = TRUE] /\ UNCHANGED files
              \/ roll.at' = "failed" /\ roll.next' = roll.next /\ UNCHANGED <<files, txns>>
<1>1. /\ roll \in Roll /\ roll.next \in Nat
  BY DEF VaultTypes, Roll
<1>2. CASE WriteManifest
  BY <1>1, <1>2 DEF WriteManifest, Under, Roll, Fades
<1>3. CASE Validate
  <2>1. CASE \E i \in DOMAIN Targets : Unexpected(Targets[i])
    BY <1>1, <1>3, <2>1 DEF Validate, Under, Roll, Fades
  <2>2. CASE ~\E i \in DOMAIN Targets : Unexpected(Targets[i])
    <3>1. /\ roll' = [roll EXCEPT !.at = "apply"]
          /\ txns' = IF txns[roll.txn].state = "committed" THEN txns
                     ELSE [txns EXCEPT ![roll.txn].state = "applying"]
      BY <1>3, <2>2 DEF Validate
    <3> QED BY <1>1, <1>3, <2>2, <3>1 DEF Validate, Under, Roll, Fades
  <2> QED BY <2>1, <2>2
<1>4. CASE Replace
  BY <1>1, <1>4 DEF Replace, Under, Roll, Fades
<1>5. CASE Commit
  BY <1>1, <1>5 DEF Commit, Under, Roll, Fades
<1>6. CASE WriteReceipt
  BY <1>1, <1>6 DEF WriteReceipt, Under, Roll, Fades
<1>7. CASE RollFails
  BY <1>1, <1>7 DEF RollFails, Under, Roll, Fades
<1> QED BY <1>2, <1>3, <1>4, <1>5, <1>6, <1>7 DEF RollForward

LEMMA EditDoes ==
    ASSUME VaultTypes, NEW f \in Files, HumanEdit(f)
    PROVE  /\ files' \in [Files -> Contents] /\ \A g \in Files : IsContent(g, files'[g])
           /\ \A g \in Files : g # f => files'[g] = files[g]
           /\ f # Index => files'[f] = Append(files[f], Human) /\ files[f] \in Lines
           /\ roll' \in Roll /\ roll.at' = roll.at /\ roll.txn' = roll.txn /\ roll.next' = roll.next
           /\ roll.at \in {"apply", "receipt"} => roll.dirty' = roll.dirty \cup {f}
           /\ roll = NoRoll => roll' = NoRoll
           /\ UNCHANGED <<txns, lease>> /\ Fades
<1> DEFINE c == IF f = Index THEN files[f] \cup {Human} ELSE Append(files[f], Human)
<1>1. files' = [files EXCEPT ![f] = c]
  BY DEF HumanEdit
<1>2. c \in Contents /\ IsContent(f, c)
  <2>1. CASE f = Index
    <3>1. files[f] \cup {Human} \in SUBSET (Pages \cup {Human})
      BY <2>1, FileTypes
    <3> QED BY <2>1, <3>1 DEF Contents, IsContent
  <2>2. CASE f # Index
    <3>1. files[f] \in Lines
      BY <2>2, FileTypes
    <3>2. Append(files[f], Human) \in Lines
      BY <3>1 DEF Lines
    <3> QED BY <2>2, <3>2 DEF Contents, IsContent, Lines
  <2> QED BY <2>1, <2>2
<1> HIDE DEF c
<1>3. /\ files' \in [Files -> Contents] /\ files'[f] = c
      /\ \A g \in Files : g # f => files'[g] = files[g]
  BY <1>1, <1>2 DEF VaultTypes
<1>4. \A g \in Files : IsContent(g, files'[g])
  BY <1>2, <1>3 DEF VaultTypes
<1>5. f # Index => files'[f] = Append(files[f], Human) /\ files[f] \in Lines
  BY <1>3, FileTypes DEF c
<1>6. /\ roll' \in Roll /\ roll.at' = roll.at /\ roll.txn' = roll.txn /\ roll.next' = roll.next
      /\ roll.at \in {"apply", "receipt"} => roll.dirty' = roll.dirty \cup {f}
      /\ roll = NoRoll => roll' = NoRoll
  BY NoRollType DEF HumanEdit, VaultTypes, Roll
<1> QED BY <1>3, <1>4, <1>5, <1>6 DEF HumanEdit, Fades

LEMMA FadesType ==
    ASSUME VaultTypes, Fades
    PROVE  trouble' \in 0..MaxTrouble
BY NaturalBounds DEF VaultTypes, Fades, Trouble

LEMMA StartTypes ==
    ASSUME VaultTypes, NEW who \in {"driver", "maintenance"}, NEW t \in Txns, NEW s, Starts(who, t, s)
    PROVE  /\ txns' \in [Txns -> TxnRec]
           /\ \A u \in Txns : \A i \in DOMAIN txns'[u].targets : IsTarget(txns'[u].targets[i])
           /\ roll' \in Roll
<1>1. BeginFails(t) \/ Loads(t) \/ Stages(t, s)
  BY BeginDoes DEF Starts
<1>2. CASE BeginFails(t) \/ Loads(t)
  BY <1>2, RollingType DEF BeginFails, Loads, VaultTypes
<1>3. CASE Stages(t, s)
  <2> DEFINE e == Effective(s)
             new == [state |-> "staged", targets |-> e, receipt |-> FALSE]
  <2>1. Prepares(t, s)
    BY <1>3 DEF Stages, Starts
  <2>2. /\ e \in Seq(TargetRec)
        /\ \A i \in DOMAIN e : \E k \in DOMAIN s : e[i] = s[k]
    BY <2>1, EffectiveKeeps DEF Prepares
  <2>3. \A i \in DOMAIN e : IsTarget(e[i])
    BY <2>1, <2>2 DEF Prepares
  <2>4. txns' = [txns EXCEPT ![t] = new]
    BY <1>3 DEF Stages
  <2> HIDE DEF e
  <2>5. new \in TxnRec /\ new.targets = e
    BY <2>2 DEF TxnRec
  <2> HIDE DEF new
  <2>6. txns' \in [Txns -> TxnRec] /\ txns'[t] = new /\ \A u \in Txns : u # t => txns'[u] = txns[u]
    BY <2>4, <2>5 DEF VaultTypes
  <2>7. roll' \in Roll
    BY <1>3, RollingType DEF Stages
  <2> QED BY <2>3, <2>5, <2>6, <2>7 DEF VaultTypes
<1> QED BY <1>1, <1>2, <1>3

LEMMA VaultTypesKept ==
    ASSUME Types, Under, Next
    PROVE  VaultTypes'
<1>1. VaultTypes
  BY DEF Types
<1>2. CASE Quiet
  <2>1. trouble' \in 0..MaxTrouble
    BY <1>1, <1>2, FadesType DEF Quiet
  <2> QED BY <1>1, <1>2, <2>1 DEF Quiet, VaultTypes, Holders
<1>3. CASE Drops
  <2>1. trouble' \in 0..MaxTrouble
    BY <1>1, <1>3, FadesType DEF Drops
  <2> QED BY <1>1, <1>3, <2>1, NoRollType DEF Drops, Release, VaultTypes, Holders
<1>4. CASE RollForward
  <2>1. trouble' \in 0..MaxTrouble /\ roll' \in Roll /\ lease' \in Holders /\ lease # "free" /\ lease' = lease
    BY <1>1, <1>4, ForwardDoes, FadesType, NoRollType DEF VaultTypes
  <2>2. /\ txns' \in [Txns -> TxnRec]
        /\ \A t \in Txns : txns'[t].targets = txns[t].targets
    <3>1. /\ roll.txn \in Txns
          /\ \/ txns' = txns
             \/ \E v \in States : txns' = [txns EXCEPT ![roll.txn].state = v]
             \/ txns' = [txns EXCEPT ![roll.txn].receipt = TRUE]
      BY <1>1, <1>4, ForwardDoes DEF States
    <3>2. CASE txns' = txns
      BY <1>1, <3>2 DEF VaultTypes
    <3>3. CASE \E v \in States : txns' = [txns EXCEPT ![roll.txn].state = v]
      BY <1>1, <3>1, <3>3, StateSet
    <3>4. CASE txns' = [txns EXCEPT ![roll.txn].receipt = TRUE]
      BY <1>1, <3>1, <3>4, ReceiptSet
    <3> QED BY <3>1, <3>2, <3>3, <3>4
  <2>3. files' \in [Files -> Contents] /\ \A f \in Files : IsContent(f, files'[f])
    <3>1. CASE UNCHANGED files
      BY <1>1, <3>1 DEF VaultTypes
    <3>2. CASE ~UNCHANGED files
      <4>1. Replace /\ roll.txn \in Txns
        BY <1>1, <1>4, <3>2, ForwardDoes
      <4> DEFINE x == Targets[roll.next]
      <4>2. roll.next \in DOMAIN Targets
        <5>1. Targets \in Seq(TargetRec)
          BY <1>1, <4>1, TargetTypes DEF Targets
        <5>2. roll.next \in Nat /\ roll.next <= Len(Targets)
          BY <1>1, <4>1 DEF Replace, VaultTypes, Roll
        <5>3. roll.next >= 1
          BY <5>2 DEF Under
        <5> QED BY <5>1, <5>2, <5>3
      <4>3. x.file \in Files /\ x.new \in Contents /\ IsContent(x.file, x.new)
        BY <1>1, <4>1, <4>2, TargetTypes DEF Targets
      <4>4. files' = [files EXCEPT ![x.file] = x.new]
        BY <4>1 DEF Replace
      <4> HIDE DEF x
      <4> QED BY <1>1, <4>3, <4>4 DEF VaultTypes
    <3> QED BY <3>1, <3>2
  <2> QED BY <1>1, <2>1, <2>2, <2>3 DEF VaultTypes
<1>5. ASSUME NEW f \in Files, HumanEdit(f) PROVE VaultTypes'
  <2>1. trouble' \in 0..MaxTrouble
    BY <1>1, <1>5, EditDoes, FadesType
  <2> QED BY <1>1, <1>5, <2>1, EditDoes DEF VaultTypes
<1>6. ASSUME NEW who \in {"driver", "maintenance"}, NEW t \in Txns, NEW s, Starts(who, t, s)
      PROVE  VaultTypes'
  <2>1. lease' = who /\ UNCHANGED <<files, trouble>>
    BY <1>1, <1>6, BeginDoes DEF Starts
  <2>2. /\ txns' \in [Txns -> TxnRec]
        /\ \A u \in Txns : \A i \in DOMAIN txns'[u].targets : IsTarget(txns'[u].targets[i])
        /\ roll' \in Roll
    BY <1>1, <1>6, StartTypes
  <2> QED BY <1>1, <2>1, <2>2 DEF VaultTypes, Holders
<1> QED BY <1>2, <1>3, <1>4, <1>5, <1>6, Moves

LEMMA StagesDoes ==
    ASSUME VaultTypes, NEW t \in Txns, NEW s, Stages(t, s)
    PROVE  /\ txns'[t].state = "staged" /\ txns'[t].targets = Effective(s) /\ ~txns'[t].receipt
           /\ \A u \in Txns : u # t => txns'[u] = txns[u]
           /\ roll'.txn = t /\ roll'.at = "manifest" /\ roll'.next = 1
           /\ txns[t].state = "none"
<1>1. txns' = [txns EXCEPT ![t] = [state |-> "staged", targets |-> Effective(s), receipt |-> FALSE]]
  BY DEF Stages
<1>2. /\ txns'[t] = [state |-> "staged", targets |-> Effective(s), receipt |-> FALSE]
      /\ \A u \in Txns : u # t => txns'[u] = txns[u]
  BY <1>1 DEF VaultTypes
<1>3. txns'[t].state = "staged" /\ txns'[t].targets = Effective(s) /\ ~txns'[t].receipt
  BY <1>2
<1> QED BY <1>2, <1>3, RollingType DEF Stages

LEMMA RollsKept ==
    ASSUME Types, Rolls, Next
    PROVE  Rolls'
<1>1. VaultTypes /\ Under
  BY DEF Types, Rolls, Under
<1>2. CASE Quiet
  BY <1>1, <1>2, NoRollType DEF Quiet, Rolls, VaultTypes
<1>3. CASE Drops
  BY <1>3, NoRollType DEF Drops, Release, Rolls, NoRoll
<1>4. CASE RollForward
  <2> DEFINE u == roll.txn
  <2>1. /\ u \in Txns /\ u' = u /\ lease' = lease /\ lease # "free"
        /\ roll.next \in Nat /\ roll.at # "none"
    BY <1>1, <1>4, ForwardDoes DEF Rolls, VaultTypes, Roll
  <2>2. CASE /\ roll.at = "manifest" /\ roll.at' = "validate" /\ roll.next' = roll.next
             /\ txns' = [txns EXCEPT ![u].state = "prepared"]
    <3>1. txns' \in [Txns -> TxnRec] /\ txns'[u].state = "prepared"
          /\ \A t \in Txns : t # u => txns'[t] = txns[t]
      BY <1>1, <2>1, <2>2, StateSet DEF States
    <3> QED BY <1>1, <2>1, <2>2, <3>1 DEF Rolls
  <2>3. CASE /\ roll.at = "validate" /\ roll.at' = "apply" /\ roll.next' = roll.next
             /\ \/ txns[u].state = "committed" /\ txns' = txns
                \/ txns[u].state # "committed" /\ txns' = [txns EXCEPT ![u].state = "applying"]
    <3>1. CASE txns[u].state = "committed" /\ txns' = txns
      BY <2>1, <2>3, <3>1 DEF Rolls
    <3>2. CASE txns[u].state # "committed" /\ txns' = [txns EXCEPT ![u].state = "applying"]
      BY <1>1, <2>1, <2>3, <3>2, StateSet DEF Rolls, States
    <3> QED BY <2>3, <3>1, <3>2
  <2>4. CASE roll.at = "apply" /\ roll.at' = "apply" /\ roll.next' = roll.next + 1 /\ UNCHANGED txns
    BY <2>1, <2>4 DEF Rolls
  <2>5. CASE /\ roll.at = "apply" /\ roll.at' = "receipt" /\ roll.next' = roll.next
             /\ txns' = [txns EXCEPT ![u].state = "committed"]
    BY <1>1, <2>1, <2>5, StateSet DEF Rolls, States
  <2>6. CASE /\ roll.at = "receipt" /\ roll.at' = "done" /\ roll.next' = roll.next
             /\ txns' = [txns EXCEPT ![u].receipt = TRUE]
    BY <1>1, <2>1, <2>6, ReceiptSet DEF Rolls
  <2>7. CASE roll.at' = "failed" /\ roll.next' = roll.next /\ UNCHANGED txns
    BY <2>1, <2>7 DEF Rolls
  <2> HIDE DEF u
  <2> QED BY <1>1, <1>4, <2>2, <2>3, <2>4, <2>5, <2>6, <2>7, ForwardDoes DEF u
<1>5. ASSUME NEW f \in Files, HumanEdit(f) PROVE Rolls'
  BY <1>1, <1>5, EditDoes DEF Rolls
<1>6. ASSUME NEW who \in {"driver", "maintenance"}, NEW t \in Txns, NEW s, Starts(who, t, s)
      PROVE  Rolls'
  <2>1. lease' = who /\ (BeginFails(t) \/ Loads(t) \/ Stages(t, s))
    BY <1>1, <1>6, BeginDoes DEF Starts
  <2>2. CASE BeginFails(t)
    BY <2>1, <2>2, RollingType DEF BeginFails, Rolls
  <2>3. CASE Loads(t)
    BY <2>1, <2>3, RollingType DEF Loads, Rolls
  <2>4. CASE Stages(t, s)
    BY <1>1, <2>1, <2>4, StagesDoes DEF Rolls
  <2> QED BY <2>1, <2>2, <2>3, <2>4
<1> QED BY <1>2, <1>3, <1>4, <1>5, <1>6, Moves

-----------------------------------------------------------------------------
(* Whole transactions and clean logs. *)

(* Over one step the targets of a transaction stay, unless it is staged.      *)
LEMMA ForwardTargets ==
    ASSUME VaultTypes, Under, RollForward
    PROVE  /\ \A t \in Txns : txns'[t].targets = txns[t].targets
<1>1. /\ roll.txn \in Txns
      /\ \/ txns' = txns
         \/ \E v \in States : txns' = [txns EXCEPT ![roll.txn].state = v]
         \/ txns' = [txns EXCEPT ![roll.txn].receipt = TRUE]
  BY ForwardDoes DEF States
<1> QED BY <1>1, StateSet, ReceiptSet

LEMMA ReplaceDoes ==
    ASSUME VaultTypes, Under, Replace, roll.at = "apply"
    PROVE  LET x == Targets[roll.next] IN
           /\ roll.next \in DOMAIN Targets /\ x.file \in Files
           /\ files'[x.file] = x.new
           /\ \A f \in Files : f # x.file => files'[f] = files[f]
           /\ UNCHANGED txns
<1> DEFINE x == Targets[roll.next]
<1>1. roll.txn \in Txns
  BY DEF Under
<1>2. Targets \in Seq(TargetRec)
  BY <1>1, TargetTypes DEF Targets
<1>3. roll.next \in Nat /\ roll.next <= Len(Targets) /\ roll.next # 0
  BY DEF Replace, VaultTypes, Roll, Under
<1>4. roll.next \in DOMAIN Targets
  BY <1>2, <1>3
<1>5. x.file \in Files
  BY <1>1, <1>4, TargetTypes DEF Targets
<1>6. files' = [files EXCEPT ![x.file] = x.new]
  BY DEF Replace
<1>7. UNCHANGED txns
  BY DEF Replace
<1> HIDE DEF x
<1>8. files'[x.file] = x.new /\ \A f \in Files : f # x.file => files'[f] = files[f]
  BY <1>5, <1>6 DEF VaultTypes
<1> QED BY <1>4, <1>5, <1>7, <1>8 DEF x

LEMMA ApartKept ==
    ASSUME Types, Under, Rolls, Next, \A t \in Txns : Apart(t)
    PROVE  \A t \in Txns : Apart(t)'
<1>1. VaultTypes
  BY DEF Types
<1>2. CASE Quiet \/ Drops
  BY <1>2 DEF Quiet, Drops, Apart
<1>3. CASE RollForward
  <2>1. \A t \in Txns : txns'[t].targets = txns[t].targets
    BY <1>1, <1>3, ForwardTargets
  <2> QED BY <2>1 DEF Apart
<1>4. ASSUME NEW f \in Files, HumanEdit(f) PROVE \A t \in Txns : Apart(t)'
  <2>1. txns' = txns
    BY <1>1, <1>4, EditDoes
  <2> QED BY <2>1 DEF Apart
<1>5. ASSUME NEW who \in {"driver", "maintenance"}, NEW t \in Txns, NEW s, Starts(who, t, s)
      PROVE  \A u \in Txns : Apart(u)'
  <2>1. BeginFails(t) \/ Loads(t) \/ Stages(t, s)
    BY <1>1, <1>5, BeginDoes DEF Starts
  <2>2. CASE BeginFails(t) \/ Loads(t)
    BY <2>2 DEF BeginFails, Loads, Apart
  <2>3. CASE Stages(t, s)
    <3>1. Prepares(t, s)
      BY <1>5, <2>3 DEF Stages, Starts
    <3>2. Different(Effective(s))
      BY <3>1, EffectiveKeeps DEF Prepares
    <3>3. txns'[t].targets = Effective(s) /\ \A u \in Txns : u # t => txns'[u] = txns[u]
      BY <1>1, <2>3, StagesDoes
    <3> QED BY <3>2, <3>3 DEF Apart, Different
  <2> QED BY <2>1, <2>2, <2>3
<1> QED BY <1>2, <1>3, <1>4, <1>5, Moves

LEMMA PassedKept ==
    ASSUME Types, Under, Rolls, Passed, Next
    PROVE  Passed'
<1>1. VaultTypes
  BY DEF Types
<1>2. \A t \in Txns : Apart(t)'
  BY ApartKept DEF Passed
<1>3. CASE Quiet
  BY <1>2, <1>3 DEF Quiet, Passed, Targets, Is, Apart
<1>4. CASE Drops
  BY <1>2, <1>4, NoRollType DEF Drops, Release, Passed
<1>5. CASE RollForward
  <2> DEFINE u == roll.txn
  <2>1. u \in Txns /\ u' = u /\ roll.next \in Nat
    BY <1>1, <1>5, ForwardDoes DEF VaultTypes, Roll
  <2>2. Targets' = Targets
    BY <1>1, <1>5, <2>1, ForwardTargets DEF Targets
  <2>3. Targets \in Seq(TargetRec)
    BY <1>1, <2>1, TargetTypes DEF Targets
  <2> HIDE DEF u
  <2>4. CASE roll.at = "manifest" /\ roll.at' = "validate" /\ roll.next' = roll.next
    BY <1>2, <2>4 DEF Passed
  <2>5. CASE /\ roll.at = "validate" /\ roll.at' = "apply" /\ roll.next' = roll.next
             /\ \A i \in DOMAIN Targets : ~Unexpected(Targets[i])
             /\ UNCHANGED files
    <3>1. roll.next = 1
      BY <2>5 DEF Passed
    <3>2. ASSUME NEW i \in DOMAIN Targets
          PROVE  files'[Targets[i].file] \in {Targets[i].new, Targets[i].old} /\ ~(i < 1)
      BY <2>3, <2>5 DEF Unexpected
    <3> QED BY <1>2, <2>2, <2>5, <3>1, <3>2 DEF Passed, Is
  <2>6. CASE /\ roll.at = "apply" /\ roll.at' = "apply" /\ roll.next' = roll.next + 1
             /\ roll.dirty' = roll.dirty /\ Replace /\ UNCHANGED txns
    <3> DEFINE k == roll.next
    <3>1. /\ k \in DOMAIN Targets
          /\ files'[Targets[k].file] = Targets[k].new
          /\ \A f \in Files : f # Targets[k].file => files'[f] = files[f]
      BY <1>1, <2>6, ReplaceDoes
    <3>2. \A i \in DOMAIN Targets : i # k => Targets[i].file # Targets[k].file
      BY <2>1, <3>1 DEF Passed, Apart, Targets, u
    <3>3. \A i \in DOMAIN Targets : Targets[i].file \in Files /\ i \in Nat
      BY <1>1, <2>1, <2>3, TargetTypes DEF Targets, u
    <3>4. ASSUME NEW i \in DOMAIN Targets, i # k
          PROVE  Is(Targets[i], {Targets[i].new} \cup IF i < roll.next THEN {} ELSE {Targets[i].old})'
      <4>1. files'[Targets[i].file] = files[Targets[i].file]
        BY <3>1, <3>2, <3>3, <3>4
      <4>2. i < k + 1 <=> i < k
        BY <2>1, <3>3, <3>4
      <4>3. Is(Targets[i], {Targets[i].new} \cup IF i < k THEN {} ELSE {Targets[i].old})
        BY <2>6 DEF Passed
      <4> QED BY <2>2, <2>6, <4>1, <4>2, <4>3 DEF Is
    <3> QED BY <1>2, <2>2, <2>6, <3>1, <3>4 DEF Passed, Is
  <2>7. CASE /\ roll.at = "apply" /\ roll.at' = "receipt" /\ roll.next > Len(Targets)
             /\ roll.dirty' = roll.dirty /\ UNCHANGED files
    <3>1. \A i \in DOMAIN Targets : i < roll.next
      BY <2>1, <2>3, <2>7
    <3> QED BY <1>2, <2>2, <2>7, <3>1 DEF Passed, Is
  <2>8. CASE roll.at' \in {"done", "failed"}
    BY <1>2, <2>8 DEF Passed
  <2> QED BY <1>1, <1>5, <2>4, <2>5, <2>6, <2>7, <2>8, ForwardDoes
<1>6. ASSUME NEW f \in Files, HumanEdit(f) PROVE Passed'
  <2>1. /\ \A g \in Files : g # f => files'[g] = files[g]
        /\ roll.at' = roll.at /\ roll.txn' = roll.txn /\ roll.next' = roll.next
        /\ roll.at \in {"apply", "receipt"} => roll.dirty' = roll.dirty \cup {f}
        /\ UNCHANGED txns
    BY <1>1, <1>6, EditDoes
  <2>2. Targets' = Targets
    BY <2>1 DEF Targets
  <2>3. roll.at # "none" => \A i \in DOMAIN Targets : Targets[i].file \in Files
    BY <1>1, TargetTypes DEF Targets, Under
  <2>4. ASSUME roll.at \in {"apply", "receipt"}, NEW i \in DOMAIN Targets, NEW set, Is(Targets[i], set)
        PROVE  files'[Targets[i].file] \in set \/ Targets[i].file \in roll.dirty'
    BY <2>1, <2>3, <2>4 DEF Is
  <2>5. CASE roll.at = "apply"
    <3>1. \A i \in DOMAIN Targets :
            LET set == {Targets[i].new} \cup IF i < roll.next THEN {} ELSE {Targets[i].old} IN
            files'[Targets[i].file] \in set \/ Targets[i].file \in roll.dirty'
      BY <2>4, <2>5 DEF Passed
    <3> QED BY <1>2, <2>1, <2>2, <2>5, <3>1 DEF Passed, Is
  <2>6. CASE roll.at = "receipt"
    <3>1. \A i \in DOMAIN Targets :
            files'[Targets[i].file] \in {Targets[i].new} \/ Targets[i].file \in roll.dirty'
      BY <2>4, <2>6 DEF Passed
    <3> QED BY <1>2, <2>1, <2>2, <2>6, <3>1 DEF Passed, Is
  <2>7. CASE roll.at \notin {"apply", "receipt"}
    BY <1>2, <2>1, <2>7 DEF Passed
  <2> QED BY <2>5, <2>6, <2>7
<1>7. ASSUME NEW who \in {"driver", "maintenance"}, NEW t \in Txns, NEW s, Starts(who, t, s)
      PROVE  Passed'
  <2>1. BeginFails(t) \/ Loads(t) \/ Stages(t, s)
    BY <1>1, <1>7, BeginDoes DEF Starts
  <2>2. roll'.at \notin {"apply", "receipt"} /\ roll'.next = 1
    BY <2>1, RollingType DEF BeginFails, Loads, Stages
  <2> QED BY <1>2, <2>2 DEF Passed
<1> QED BY <1>3, <1>4, <1>5, <1>6, <1>7, Moves

LEMMA OneLineMore ==
    ASSUME NEW s \in Lines, NEW x \in Txns \cup {Human}, Once(s), x \in Txns => ~Writes(x, s)
    PROVE  /\ Once(Append(s, x))
           /\ \A t \in Txns : Writes(t, Append(s, x)) => t = x \/ Writes(t, s)
<1> DEFINE a == Append(s, x)
           n == Len(s) + 1
<1>1. s \in Seq(Txns \cup {Human})
  BY DEF Lines
<1>2. /\ DOMAIN s = 1..Len(s) /\ DOMAIN a = 1..n /\ n \in Nat /\ n \notin DOMAIN s
      /\ \A i \in DOMAIN s : a[i] = s[i]
      /\ a[n] = x
  BY <1>1
<1>3. \A i \in DOMAIN a : i = n \/ i \in DOMAIN s
  BY <1>1, <1>2
<1> HIDE DEF a, n
<1>4. \A t \in Txns : Writes(t, a) => t = x \/ Writes(t, s)
  BY <1>2, <1>3 DEF Writes
<1>5. ASSUME NEW t \in Txns, NEW i \in DOMAIN a, NEW k \in DOMAIN a, a[i] = t, a[k] = t
      PROVE  i = k
  <2>1. CASE i \in DOMAIN s /\ k \in DOMAIN s
    BY <1>2, <1>5, <2>1 DEF Once
  <2>2. CASE i = n /\ k \in DOMAIN s
    BY <1>2, <1>5, <2>2 DEF Writes
  <2>3. CASE k = n /\ i \in DOMAIN s
    BY <1>2, <1>5, <2>3 DEF Writes
  <2> QED BY <1>3, <2>1, <2>2, <2>3
<1>6. Once(a)
  BY <1>5 DEF Once
<1> QED BY <1>4, <1>6 DEF a

(* What is applied or committed stays so. *)
LEMMA AppliedStays ==
    ASSUME Types, Under, Rolls, Next
    PROVE  /\ \A t \in Txns : Applied(t) => Applied(t)'
           /\ \A t \in Txns : txns[t].receipt => txns'[t].receipt
<1>1. VaultTypes
  BY DEF Types
<1>2. CASE Quiet \/ Drops \/ \E f \in Files : HumanEdit(f)
  <2>1. txns' = txns
    BY <1>1, <1>2, EditDoes DEF Quiet, Drops
  <2> QED BY <2>1 DEF Applied
<1>3. CASE RollForward
  <2> DEFINE u == roll.txn
  <2>1. u \in Txns
    BY <1>1, <1>3, ForwardDoes
  <2>2. CASE roll.at = "manifest" /\ txns' = [txns EXCEPT ![u].state = "prepared"]
    BY <1>1, <2>1, <2>2, StateSet DEF Rolls, States, Applied
  <2>3. CASE \E v \in {"applying", "committed"} : txns' = [txns EXCEPT ![u].state = v]
    BY <1>1, <2>1, <2>3, StateSet DEF States, Applied
  <2>4. CASE txns' = [txns EXCEPT ![u].receipt = TRUE]
    <3>1. \A t \in Txns : txns'[t].state = txns[t].state
      BY <1>1, <2>1, <2>4, ReceiptSet
    <3>2. \A t \in Txns : txns[t].receipt => txns'[t].receipt
      BY <1>1, <2>1, <2>4, ReceiptSet
    <3> QED BY <3>1, <3>2 DEF Applied
  <2>5. CASE UNCHANGED txns
    BY <2>5 DEF Applied
  <2> HIDE DEF u
  <2> QED BY <1>1, <1>3, <2>2, <2>3, <2>4, <2>5, ForwardDoes DEF u
<1>4. ASSUME NEW who \in {"driver", "maintenance"}, NEW t \in Txns, NEW s, Starts(who, t, s)
      PROVE  /\ \A u \in Txns : Applied(u) => Applied(u)'
             /\ \A u \in Txns : txns[u].receipt => txns'[u].receipt
  <2>1. BeginFails(t) \/ Loads(t) \/ Stages(t, s)
    BY <1>1, <1>4, BeginDoes DEF Starts
  <2>2. CASE UNCHANGED txns
    BY <2>2 DEF Applied
  <2>3. CASE Stages(t, s)
    <3>1. txns[t].state = "none" /\ \A u \in Txns : u # t => txns'[u] = txns[u]
      BY <1>1, <2>3, StagesDoes
    <3>2. ~txns[t].receipt /\ ~Applied(t)
      BY <3>1 DEF Rolls, Applied
    <3>3. \A u \in Txns : u # t => (Applied(u) => Applied(u)')
      BY <3>1 DEF Applied
    <3> QED BY <3>1, <3>2, <3>3
  <2> QED BY <2>1, <2>2, <2>3 DEF BeginFails, Loads
<1> QED BY <1>2, <1>3, <1>4, Moves

LEMMA LogKept ==
    ASSUME Types, Under, Rolls, LogIsClean, Next
    PROVE  LogIsClean'
<1>1. VaultTypes
  BY DEF Types
<1>2. \A t \in Txns : Applied(t) => Applied(t)'
  BY AppliedStays
<1>3. ASSUME \A t \in Txns : txns'[t].targets = txns[t].targets
      PROVE  \A u \in Txns : \A i \in DOMAIN txns'[u].targets :
               LET x == txns'[u].targets[i] IN
               x.file = Log => /\ Once(x.new)
                               /\ \A t \in Txns : Writes(t, x.new) => t = u \/ Applied(t)'
  BY <1>2, <1>3 DEF LogIsClean
<1>4. ASSUME files'[Log] = files[Log], \A t \in Txns : txns'[t].targets = txns[t].targets
      PROVE  LogIsClean'
  <2>1. Once(files'[Log]) /\ \A t \in Txns : Writes(t, files'[Log]) => Applied(t)'
    BY <1>2, <1>4 DEF LogIsClean
  <2> QED BY <1>3, <1>4, <2>1 DEF LogIsClean, Once, Writes
<1>5. CASE Quiet \/ Drops
  BY <1>4, <1>5 DEF Quiet, Drops
<1>6. CASE RollForward
  <2>1. \A t \in Txns : txns'[t].targets = txns[t].targets
    BY <1>1, <1>6, ForwardTargets
  <2>2. CASE files'[Log] = files[Log]
    BY <1>4, <2>1, <2>2
  <2>3. CASE files'[Log] # files[Log]
    <3>1. roll.at = "apply" /\ Replace /\ roll.txn \in Txns
      BY <1>1, <1>6, <2>3, ForwardDoes
    <3> DEFINE k == roll.next
    <3>2. /\ k \in DOMAIN Targets /\ files'[Targets[k].file] = Targets[k].new
          /\ \A f \in Files : f # Targets[k].file => files'[f] = files[f]
      BY <1>1, <3>1, ReplaceDoes
    <3>3. Targets[k].file = Log /\ files'[Log] = Targets[k].new
      BY <2>3, <3>2, Names
    <3>4. Applied(roll.txn)
      BY <3>1 DEF Rolls, Applied
    <3>5. /\ Once(files'[Log])
          /\ \A t \in Txns : Writes(t, files'[Log]) => t = roll.txn \/ Applied(t)
      BY <3>1, <3>2, <3>3 DEF LogIsClean, Targets
    <3>6. \A t \in Txns : Writes(t, files'[Log]) => Applied(t)'
      BY <1>2, <3>1, <3>4, <3>5
    <3> QED BY <1>3, <2>1, <3>5, <3>6 DEF LogIsClean, Once, Writes
  <2> QED BY <2>2, <2>3
<1>7. ASSUME NEW f \in Files, HumanEdit(f) PROVE LogIsClean'
  <2>1. UNCHANGED txns /\ \A g \in Files : g # f => files'[g] = files[g]
    BY <1>1, <1>7, EditDoes
  <2>2. CASE f # Log
    BY <1>4, <2>1, <2>2, Names
  <2>3. CASE f = Log
    <3>1. files'[Log] = Append(files[Log], Human) /\ files[Log] \in Lines
      BY <1>1, <1>7, <2>3, EditDoes, Names
    <3>2. Once(files[Log]) /\ \A t \in Txns : Writes(t, files[Log]) => Applied(t)
      BY DEF LogIsClean
    <3>3. Human \in Txns \cup {Human} /\ Human \notin Txns
      BY Names
    <3>4. /\ Once(files'[Log])
          /\ \A t \in Txns : Writes(t, files'[Log]) => t = Human \/ Writes(t, files[Log])
      BY <3>1, <3>2, <3>3, OneLineMore
    <3>5. \A t \in Txns : Writes(t, files'[Log]) => Applied(t)'
      BY <1>2, <3>2, <3>3, <3>4
    <3> QED BY <1>3, <2>1, <3>4, <3>5 DEF LogIsClean, Once, Writes
  <2> QED BY <2>2, <2>3
<1>8. ASSUME NEW who \in {"driver", "maintenance"}, NEW t \in Txns, NEW s, Starts(who, t, s)
      PROVE  LogIsClean'
  <2>1. UNCHANGED files /\ (BeginFails(t) \/ Loads(t) \/ Stages(t, s))
    BY <1>1, <1>8, BeginDoes DEF Starts
  <2>2. CASE BeginFails(t) \/ Loads(t)
    BY <1>4, <2>1, <2>2 DEF BeginFails, Loads
  <2>3. CASE Stages(t, s)
    <3>1. Prepares(t, s)
      BY <1>8, <2>3 DEF Stages, Starts
    <3>2. \A i \in DOMAIN Effective(s) : \E k \in DOMAIN s : Effective(s)[i] = s[k]
      BY <3>1, EffectiveKeeps DEF Prepares
    <3>3. /\ txns'[t].targets = Effective(s) /\ txns[t].state = "none"
          /\ \A u \in Txns : u # t => txns'[u] = txns[u]
      BY <1>1, <2>3, StagesDoes
    <3>4. ~Writes(t, files[Log]) /\ Once(files[Log]) /\ files[Log] \in Lines
      BY <1>1, <3>3, FileTypes DEF LogIsClean, Applied
    <3>5. /\ Once(Append(files[Log], t))
          /\ \A u \in Txns : Writes(u, Append(files[Log], t)) => u = t \/ Applied(u)
      BY <3>4, OneLineMore DEF LogIsClean
    <3>6. ASSUME NEW i \in DOMAIN txns'[t].targets, txns'[t].targets[i].file = Log
          PROVE  txns'[t].targets[i].new = Append(files[Log], t)
      BY <3>1, <3>2, <3>3, <3>6 DEF Prepares
    <3>7. \A u \in Txns : \A i \in DOMAIN txns'[u].targets :
            LET x == txns'[u].targets[i] IN
            x.file = Log => /\ Once(x.new)
                            /\ \A v \in Txns : Writes(v, x.new) => v = u \/ Applied(v)'
      <4> SUFFICES ASSUME NEW u \in Txns, NEW i \in DOMAIN txns'[u].targets,
                          txns'[u].targets[i].file = Log
                   PROVE  /\ Once(txns'[u].targets[i].new)
                          /\ \A v \in Txns : Writes(v, txns'[u].targets[i].new) => v = u \/ Applied(v)'
        OBVIOUS
      <4>1. CASE u = t
        BY <1>2, <3>5, <3>6, <4>1
      <4>2. CASE u # t
        BY <1>2, <3>3, <4>2 DEF LogIsClean
      <4> QED BY <4>1, <4>2
    <3>8. Once(files'[Log]) /\ \A u \in Txns : Writes(u, files'[Log]) => Applied(u)'
      BY <1>2, <2>1 DEF LogIsClean
    <3> QED BY <3>7, <3>8 DEF LogIsClean, Once, Writes
  <2> QED BY <2>1, <2>2, <2>3
<1> QED BY <1>5, <1>6, <1>7, <1>8, Moves

-----------------------------------------------------------------------------
(* The jobs. *)

LEMMA Somebody ==
    /\ (CHOOSE j \in Jobs : TRUE) \in Jobs /\ (CHOOSE p \in Pages : TRUE) \in Pages
    /\ Original \in Bindings /\ NoBinding \notin Bindings
BY TransactionAssumption, BindingAssumption DEF NoBinding

LEMMA NoRunType ==
    /\ NoReceipt \in Rec /\ NoReceipt.outcome = "none"
    /\ NoRun \in Run /\ NoRun.at = "idle" /\ NoRun.attempt = 1 /\ NoRun.receipt = NoReceipt
    /\ NoRun.binding = Original
<1>1. NoReceipt \in Rec /\ NoReceipt.outcome = "none"
  BY DEF NoReceipt, Rec, Outcomes, Codes, Kinds
<1>2. <<>> \in Lines
  BY DEF Lines
<1>3. [p \in Pages |-> <<>>] \in [Pages -> Lines]
  BY <1>2
<1> HIDE DEF NoReceipt
<1>4. NoRun \in Run /\ NoRun.at = "idle" /\ NoRun.attempt = 1 /\ NoRun.receipt = NoReceipt
      /\ NoRun.binding = Original
  BY <1>1, <1>3, Somebody DEF NoRun, Run, Places, Attempts
<1> QED BY <1>1, <1>4

LEMMA NothingType ==
    ASSUME NEW kind \in {"none", "unknown", "schema", "unsafe", "model"}
    PROVE  Nothing \in Gen /\ Ended(kind) \in Gen /\ Ended(kind).kind = kind
<1>1. <<>> \in Lines
  BY DEF Lines
<1>2. Nothing \in Gen
  BY <1>1, Somebody DEF Nothing, Gen, Kinds
<1> QED BY <1>2 DEF Ended, Gen, Kinds

LEMMA ReceiptType ==
    ASSUME run \in Run, NEW o \in Outcomes, NEW b \in Bindings \cup {NoBinding}, NEW c \in Codes
    PROVE  LET r == Receipt(o, b, c) IN
           /\ r \in Rec /\ r.outcome = o /\ r.binding = b
           /\ AtReceipt(r) \in Run /\ AtReceipt(r).at = "receipt" /\ AtReceipt(r).receipt = r
           /\ AtReceipt(r).job = run.job /\ AtReceipt(r).binding = run.binding
<1> DEFINE r == Receipt(o, b, c)
<1>1. r \in Rec /\ r.outcome = o /\ r.binding = b
  BY DEF Receipt, Rec
<1> HIDE DEF r
<1>2. /\ AtReceipt(r) \in Run /\ AtReceipt(r).at = "receipt" /\ AtReceipt(r).receipt = r
      /\ AtReceipt(r).job = run.job /\ AtReceipt(r).binding = run.binding
  BY <1>1 DEF AtReceipt, Run, Places
<1> QED BY <1>1, <1>2 DEF r

(* What the machine makes of a generation: it goes on to commit, generates    *)
(* once more, or is done with a receipt that is not of success.               *)
Bad == {"Pending", "Failed"}
Ahead(r) == /\ r \in Run /\ r.job = run.job /\ r.binding = run.binding
            /\ r.at \in {"generate", "commit", "receipt"}
            /\ r.at = "receipt" => r.receipt.outcome \in Bad

LEMMA JudgedAhead ==
    ASSUME run \in Run, NEW g \in Gen
    PROVE  Ahead(Judged(g))
<1>1. g.kind \in Kinds /\ g.kind \in Codes /\ run.binding \in Bindings \cup {NoBinding}
  BY DEF Gen, Run, Codes
<1>2. \A c \in Codes : Ahead(Failed(c)) /\ Ahead(Pending(c))
  BY <1>1, ReceiptType DEF Failed, Pending, Ahead, Bad, Outcomes
<1>3. Ahead([run EXCEPT !.at = "commit"])
  BY DEF Ahead, Run, Places
<1>4. ASSUME run.attempt < 2
      PROVE  Ahead([run EXCEPT !.at = "generate", !.attempt = run.attempt + 1])
  <2>1. run.attempt + 1 \in Attempts
    BY <1>4 DEF Run, Attempts
  <2>2. \A a \in Attempts : Ahead([run EXCEPT !.at = "generate", !.attempt = a])
    BY DEF Ahead, Run, Places
  <2> QED BY <2>1, <2>2
<1>5. {"stale", "schema_repair_exhausted", "unsafe"} \subseteq Codes
  BY DEF Codes, Kinds
<1>6. CASE g.kind = "accepted"
  <2>1. CASE Fits(g)
    BY <1>3, <1>6, <2>1 DEF Judged
  <2>2. CASE ~Fits(g)
    BY <1>2, <1>5, <1>6, <2>2 DEF Judged
  <2> QED BY <2>1, <2>2
<1>7. CASE g.kind = "schema"
  <2>1. run.attempt < 2 \/ run.attempt = 2
    BY DEF Run, Attempts
  <2>2. CASE run.attempt < 2
    BY <1>4, <1>7, <2>2 DEF Judged
  <2>3. CASE run.attempt = 2
    BY <1>2, <1>5, <1>7, <2>3 DEF Judged
  <2> QED BY <2>1, <2>2, <2>3
<1>8. CASE g.kind = "unsafe"
  BY <1>2, <1>5, <1>8 DEF Judged
<1>9. CASE g.kind \notin {"accepted", "schema", "unsafe"}
  <2>1. Judged(g) = Pending(g.kind)
    BY <1>9 DEF Judged
  <2> QED BY <1>1, <1>2, <2>1
<1> QED BY <1>6, <1>7, <1>8, <1>9

LEMMA PublishedType ==
    ASSUME run \in Run
    PROVE  /\ Published \in Run
           /\ Published = NoRun \/ (/\ Published.at = "generate" /\ Published.job = run.job
                                    /\ run.receipt.outcome = "Pending")
<1>1. CASE Published = NoRun
  BY <1>1, NoRunType
<1>2. CASE Published # NoRun
  <2>1. /\ Published = [run EXCEPT !.at = "generate", !.binding = run.rebind, !.attempt = 1,
                                   !.receipt = NoReceipt]
        /\ run.receipt.outcome = "Pending" /\ run.rebind # NoBinding
    BY <1>2 DEF Published
  <2>2. run.rebind \in Bindings /\ 1 \in Attempts /\ NoReceipt \in Rec
    BY <2>1, NoRunType DEF Run, Attempts
  <2> QED BY <2>1, <2>2 DEF Run, Places
<1> QED BY <1>1, <1>2

LEMMA StoredType ==
    ASSUME JobTypes
    PROVE  /\ Stored \in Gen
           /\ \A g \in Gen : StoreEnd(g) =>
                /\ journal' \in [Jobs -> Jrn]
                /\ \A j \in Jobs : /\ journal'[j].started = journal[j].started
                                   /\ journal'[j].receipts = journal[j].receipts
<1>1. /\ run.job \in Jobs /\ run.binding \in Bindings /\ run.attempt \in Attempts
      /\ journal \in [Jobs -> Jrn]
  BY DEF JobTypes, Run
<1>2. Stored \in Gen
  BY <1>1 DEF Jrn, Stored
<1>3. ASSUME NEW g \in Gen, StoreEnd(g)
      PROVE  /\ journal' \in [Jobs -> Jrn]
             /\ \A j \in Jobs : /\ journal'[j].started = journal[j].started
                                /\ journal'[j].receipts = journal[j].receipts
  <2> DEFINE e == [journal[run.job].ended EXCEPT ![run.binding][run.attempt] = g]
             n == [journal[run.job] EXCEPT !.ended = e]
  <2>1. journal' = [journal EXCEPT ![run.job] = n]
    BY <1>3 DEF StoreEnd
  <2>2. e \in [Bindings -> [Attempts -> Gen]]
    BY <1>1 DEF Jrn
  <2> HIDE DEF e
  <2>3. /\ n \in Jrn /\ n.started = journal[run.job].started
        /\ n.receipts = journal[run.job].receipts
    BY <1>1, <2>2 DEF Jrn
  <2> HIDE DEF n
  <2> QED BY <1>1, <2>1, <2>3
<1> QED BY <1>2, <1>3

(* A run that is begun. *)
LEMMA RunStartDoes ==
    ASSUME Types, NEW j \in Jobs, NEW wish \in (Bindings \ {Original}) \cup {NoBinding}, RunStart(j, wish)
    PROVE  /\ journal' \in [Jobs -> Jrn]
           /\ \A i \in Jobs : /\ journal'[i].started = journal[i].started
                              /\ journal'[i].receipts = journal[i].receipts
           /\ run.at = "idle"
           /\ \/ run' = run
              \/ /\ run' \in Run /\ run'.job = j
                 /\ \/ run'.at = "generate" /\ j \in durable
                    \/ run'.at = "receipt" /\ j \notin durable /\ run'.receipt.outcome = "NoOp"
<1> DEFINE asked == IF wish # NoBinding THEN wish ELSE journal[j].rebind
           new == [NoRun EXCEPT !.job = j, !.rebind = asked, !.pages = PagesNow]
<1>1. JobTypes /\ VaultTypes /\ journal \in [Jobs -> Jrn]
  BY DEF Types, JobTypes
<1>2. asked \in Bindings \cup {NoBinding}
  BY <1>1 DEF Jrn
<1>3. /\ run.at = "idle" /\ journal' = [journal EXCEPT ![j].rebind = asked]
      /\ run' = run \/ run' = Evaluated(new)
  BY DEF RunStart
<1> HIDE DEF asked
<1>4. /\ journal' \in [Jobs -> Jrn]
      /\ \A i \in Jobs : /\ journal'[i].started = journal[i].started
                         /\ journal'[i].receipts = journal[i].receipts
  BY <1>1, <1>2, <1>3 DEF Jrn
<1>5. PagesNow \in [Pages -> Lines]
  BY <1>1, FileTypes DEF PagesNow
<1>6. new \in Run /\ new.job = j
  BY <1>2, <1>5, NoRunType DEF Run
<1> HIDE DEF new
<1> DEFINE r == Receipt("NoOp", Original, "no_signal")
<1>7. r \in Rec /\ r.outcome = "NoOp"
  BY Somebody DEF Receipt, Rec, Codes, Outcomes
<1> HIDE DEF r
<1>8. Evaluated(new) = IF j \in durable THEN [new EXCEPT !.at = "generate"]
                       ELSE [new EXCEPT !.at = "receipt", !.receipt = r]
  BY <1>6 DEF Evaluated, r
<1>9. CASE j \in durable /\ run' = Evaluated(new)
  <2>1. /\ [new EXCEPT !.at = "generate"] \in Run
        /\ [new EXCEPT !.at = "generate"].at = "generate"
        /\ [new EXCEPT !.at = "generate"].job = j
    BY <1>6 DEF Run, Places
  <2> QED BY <1>3, <1>4, <1>8, <1>9, <2>1
<1>10. CASE j \notin durable /\ run' = Evaluated(new)
  <2> DEFINE told == [new EXCEPT !.at = "receipt", !.receipt = r]
  <2>1. told \in Run /\ told.at = "receipt" /\ told.job = j /\ told.receipt = r
    BY <1>6, <1>7 DEF Run, Places
  <2>2. run' = told
    BY <1>8, <1>10
  <2> HIDE DEF told
  <2> QED BY <1>3, <1>4, <1>7, <1>10, <2>1, <2>2
<1> QED BY <1>3, <1>4, <1>9, <1>10

(* A receipt that is written: first its file, then its record. *)
LEMMA ReceiptFileDoes ==
    ASSUME Types, ReceiptFile
    PROVE  /\ run.at = "receipt" /\ lease = "free" /\ UNCHANGED <<durable, journal, calls, evidence, torn>>
           /\ \/ (run' = Published \/ run' = NoRun) /\ UNCHANGED <<receiptFile, lease>>
              \/ /\ run' = [run EXCEPT !.at = "record"] /\ lease' = "driver"
                 /\ receiptFile' = [receiptFile EXCEPT ![run.job] = run.receipt]
                 /\ Latest(run.job) # NoReceipt => Latest(run.job).outcome = "Pending"
<1> DEFINE written == IF Latest(run.job) = NoReceipt THEN receiptFile[run.job] \in {NoReceipt, run.receipt}
                      ELSE MayReplace(Latest(run.job))
<1>1. /\ run.at = "receipt" /\ lease = "free" /\ UNCHANGED <<durable, journal, calls, evidence, torn>>
      /\ \/ run' = Published /\ UNCHANGED <<receiptFile, lease>>
         \/ /\ written
            /\ receiptFile' = [receiptFile EXCEPT ![run.job] = run.receipt]
            /\ lease' = "driver" /\ run' = [run EXCEPT !.at = "record"]
         \/ run' = NoRun /\ UNCHANGED <<receiptFile, lease>>
  BY Zenon DEF ReceiptFile, Readable
<1>2. written /\ Latest(run.job) # NoReceipt => Latest(run.job).outcome = "Pending"
  BY DEF MayReplace
<1> HIDE DEF written
<1> QED BY <1>1, <1>2

LEMMA ReceiptRecordDoes ==
    ASSUME Types, ReceiptRecord
    PROVE  /\ run.at = "record" /\ lease' = "free" /\ run' = Published
           /\ UNCHANGED <<durable, receiptFile, calls, evidence, torn>>
           /\ journal' \in [Jobs -> Jrn]
           /\ \A j \in Jobs : journal'[j].started = journal[j].started
           /\ \A j \in Jobs : j # run.job => journal'[j].receipts = journal[j].receipts
           /\ \/ journal'[run.job].receipts = journal[run.job].receipts
              \/ journal'[run.job].receipts = Append(journal[run.job].receipts, run.receipt)
<1> DEFINE old == journal[run.job].receipts
           new == IF Contains(old, run.receipt) THEN old ELSE Append(old, run.receipt)
<1>1. journal \in [Jobs -> Jrn] /\ run.job \in Jobs /\ run.receipt \in Rec
  BY DEF Types, JobTypes, Run
<1>2. old \in Seq(Rec)
  BY <1>1 DEF Jrn
<1>3. new \in Seq(Rec) /\ (new = old \/ new = Append(old, run.receipt))
  BY <1>1, <1>2
<1>4. journal' = [journal EXCEPT ![run.job].receipts = new]
  BY DEF ReceiptRecord
<1> HIDE DEF new
<1>5. /\ journal' \in [Jobs -> Jrn] /\ journal'[run.job].receipts = new
      /\ \A j \in Jobs : journal'[j].started = journal[j].started
      /\ \A j \in Jobs : j # run.job => journal'[j].receipts = journal[j].receipts
  BY <1>1, <1>3, <1>4 DEF Jrn
<1> QED BY <1>3, <1>5 DEF ReceiptRecord, Release

LEMMA CallDoes ==
    ASSUME Types, Call
    PROVE  LET x == <<run.binding, run.attempt>> IN
           /\ run.at = "generate" /\ x \in Bindings \X Attempts /\ x \notin journal[run.job].started
           /\ journal' \in [Jobs -> Jrn] /\ calls' \in [Jobs -> [Bindings \X Attempts -> 0..2]]
           /\ \A j \in Jobs : journal'[j].receipts = journal[j].receipts
           /\ \A j \in Jobs : journal[j].started \subseteq journal'[j].started
           /\ x \in journal'[run.job].started
           /\ \A j \in Jobs, y \in Bindings \X Attempts :
                j # run.job \/ y # x => calls'[j][y] = calls[j][y]
           /\ calls[run.job][x] = 0 => calls'[run.job][x] = 1
           /\ run' = [run EXCEPT !.at = "calling"]
           /\ UNCHANGED <<durable, evidence, torn, receiptFile, lease>>
<1> DEFINE x == <<run.binding, run.attempt>>
           n == IF calls[run.job][x] < 2 THEN calls[run.job][x] + 1 ELSE 2
           c == [calls[run.job] EXCEPT ![x] = n]
           s == journal[run.job].started \cup {x}
<1>1. /\ journal \in [Jobs -> Jrn] /\ run.job \in Jobs /\ x \in Bindings \X Attempts
      /\ calls \in [Jobs -> [Bindings \X Attempts -> 0..2]]
  BY DEF Types, JobTypes, Run
<1>2. /\ run.at = "generate" /\ x \notin journal[run.job].started
      /\ journal' = [journal EXCEPT ![run.job].started = s]
      /\ calls' = [calls EXCEPT ![run.job] = c]
      /\ run' = [run EXCEPT !.at = "calling"]
      /\ UNCHANGED <<durable, evidence, torn, receiptFile, lease>>
  BY DEF Call, txnVars
<1> HIDE DEF x
<1>3. n \in 0..2 /\ (calls[run.job][x] = 0 => n = 1)
  BY <1>1
<1> HIDE DEF n
<1>4. /\ c \in [Bindings \X Attempts -> 0..2] /\ c[x] = n
      /\ \A y \in Bindings \X Attempts : y # x => c[y] = calls[run.job][y]
  BY <1>1, <1>3
<1>5. s \subseteq Bindings \X Attempts /\ journal[run.job].started \subseteq s /\ x \in s
  BY <1>1 DEF Jrn
<1> HIDE DEF c, s
<1>6. /\ calls' \in [Jobs -> [Bindings \X Attempts -> 0..2]]
      /\ calls'[run.job] = c /\ \A j \in Jobs : j # run.job => calls'[j] = calls[j]
  BY <1>1, <1>2, <1>4
<1>7. /\ journal' \in [Jobs -> Jrn] /\ journal'[run.job].started = s
      /\ \A j \in Jobs : j # run.job => journal'[j] = journal[j]
      /\ \A j \in Jobs : journal'[j].receipts = journal[j].receipts
  <2> DEFINE next == [journal[run.job] EXCEPT !.started = s]
  <2>1. journal[run.job] \in Jrn
    BY <1>1
  <2>2. next \in Jrn /\ next.started = s /\ next.receipts = journal[run.job].receipts
    BY <1>5, <2>1 DEF Jrn
  <2>3. journal' = [journal EXCEPT ![run.job] = next]
    BY <1>2
  <2> HIDE DEF next
  <2> QED BY <1>1, <2>2, <2>3
<1>8. \A j \in Jobs, y \in Bindings \X Attempts :
        j # run.job \/ y # x => calls'[j][y] = calls[j][y]
  BY <1>4, <1>6
<1>9. \A j \in Jobs : journal[j].started \subseteq journal'[j].started
  BY <1>5, <1>7
<1> QED BY <1>1, <1>2, <1>3, <1>4, <1>5, <1>6, <1>7, <1>8, <1>9 DEF x

(* The driver goes on with a run that is not being written; only the journal  *)
(* of its job, and the run itself, change.                                    *)
LEMMA OnwardDoes ==
    ASSUME Types, UseStored \/ GiveUpUnknown \/ \E kind \in {"accepted", "schema", "unsafe", "model"}, p \in Pages : Answer(kind, p)
    PROVE  /\ run.at \in {"generate", "calling"} /\ Ahead(run')
           /\ journal' \in [Jobs -> Jrn]
           /\ \A j \in Jobs : /\ journal'[j].started = journal[j].started
                              /\ journal'[j].receipts = journal[j].receipts
           /\ UNCHANGED <<durable, evidence, torn, receiptFile, calls, txnVars>>
<1>1. JobTypes /\ run \in Run /\ journal \in [Jobs -> Jrn]
  BY DEF Types, JobTypes
<1>2. CASE UseStored
  <2>1. Stored \in Gen
    BY <1>1, StoredType
  <2>2. Ahead(Judged(Stored))
    BY <1>1, <2>1, JudgedAhead
  <2> QED BY <1>1, <1>2, <2>2 DEF UseStored
<1>3. ASSUME NEW g \in Gen, StoreEnd(g), run' = Judged(g)
      PROVE  /\ Ahead(run') /\ journal' \in [Jobs -> Jrn]
             /\ \A j \in Jobs : /\ journal'[j].started = journal[j].started
                                /\ journal'[j].receipts = journal[j].receipts
  BY <1>1, <1>3, JudgedAhead, StoredType
<1>4. CASE GiveUpUnknown
  <2>1. Ended("unknown") \in Gen
    BY NothingType
  <2>2. StoreEnd(Ended("unknown")) /\ run' = Judged(Ended("unknown"))
    BY <1>4 DEF GiveUpUnknown
  <2>3. run.at = "generate" /\ UNCHANGED <<durable, evidence, torn, receiptFile, calls, txnVars>>
    BY <1>4 DEF GiveUpUnknown
  <2> QED BY <1>3, <2>1, <2>2, <2>3
<1>5. ASSUME NEW kind \in {"accepted", "schema", "unsafe", "model"}, NEW p \in Pages, Answer(kind, p)
      PROVE  /\ run.at \in {"generate", "calling"} /\ Ahead(run')
             /\ journal' \in [Jobs -> Jrn]
             /\ \A j \in Jobs : /\ journal'[j].started = journal[j].started
                                /\ journal'[j].receipts = journal[j].receipts
             /\ UNCHANGED <<durable, evidence, torn, receiptFile, calls, txnVars>>
  <2> DEFINE g == IF kind = "accepted" THEN [kind |-> kind, page |-> p, old |-> run.pages[p]] ELSE Ended(kind)
  <2>1. g \in Gen
    <3>1. CASE kind = "accepted"
      BY <1>1, <3>1 DEF Gen, Run, Kinds
    <3>2. CASE kind # "accepted"
      BY <3>2, NothingType
    <3> QED BY <3>1, <3>2
  <2>2. StoreEnd(g) /\ run' = Judged(g)
    BY <1>5 DEF Answer
  <2>3. run.at = "calling" /\ UNCHANGED <<durable, evidence, torn, receiptFile, calls, txnVars>>
    BY <1>5 DEF Answer
  <2> HIDE DEF g
  <2> QED BY <1>3, <2>1, <2>2, <2>3
<1> QED BY <1>2, <1>4, <1>5

LEMMA CommitEndsDoes ==
    ASSUME Types, CommitEnds
    PROVE  /\ run.at = "rolling" /\ run' \in Run /\ run'.at = "receipt" /\ run'.job = run.job
           /\ \/ roll.at = "done" /\ run'.receipt.outcome = "Synthesized" /\ run'.receipt.binding = run.binding
              \/ run'.receipt.outcome = "Pending"
           /\ UNCHANGED <<durable, evidence, journal, torn, receiptFile, calls>>
<1>1. run \in Run /\ run.binding \in Bindings \cup {NoBinding} /\ roll.code \in Codes /\ "synthesized" \in Codes
  BY DEF Types, JobTypes, VaultTypes, Run, Roll, Codes
<1>2. CASE roll.at = "done"
  <2> DEFINE r == Receipt("Synthesized", run.binding, "synthesized")
  <2>1. run' = AtReceipt(r)
    BY <1>2 DEF CommitEnds
  <2>2. /\ r.outcome = "Synthesized" /\ r.binding = run.binding
        /\ AtReceipt(r) \in Run /\ AtReceipt(r).at = "receipt" /\ AtReceipt(r).receipt = r
        /\ AtReceipt(r).job = run.job
    BY <1>1, ReceiptType DEF Outcomes
  <2> HIDE DEF r
  <2> QED BY <1>2, <2>1, <2>2 DEF CommitEnds
<1>3. CASE roll.at # "done"
  <2> DEFINE r == Receipt("Pending", run.binding, roll.code)
  <2>1. run' = AtReceipt(r)
    BY <1>3 DEF CommitEnds, Pending
  <2>2. /\ r.outcome = "Pending"
        /\ AtReceipt(r) \in Run /\ AtReceipt(r).at = "receipt" /\ AtReceipt(r).receipt = r
        /\ AtReceipt(r).job = run.job
    <3>1. "Pending" \in Outcomes /\ run \in Run /\ roll.code \in Codes
          /\ run.binding \in Bindings \cup {NoBinding}
      BY <1>1 DEF Outcomes
    <3> QED BY <3>1, ReceiptType
  <2> HIDE DEF r
  <2> QED BY <1>3, <2>1, <2>2 DEF CommitEnds
<1> QED BY <1>2, <1>3

LEMMA OthersDo ==
    ASSUME Types, Next, ~DriverNext
    PROVE  /\ UNCHANGED <<durable, journal, torn, receiptFile, run, calls>>
           /\ evidence' \in [Jobs -> {"whole", "metadata", "gone"}]
           /\ lease = "driver" => lease' = "driver"
<1>1. CASE RollForward /\ UNCHANGED flowVars
  BY <1>1 DEF RollForward, WriteManifest, Validate, Replace, Commit, WriteReceipt, RollFails,
              flowVars, Types, JobTypes
<1>2. CASE \E f \in Files : HumanEdit(f) /\ UNCHANGED flowVars
  BY <1>2 DEF HumanEdit, flowVars, Types, JobTypes
<1>3. CASE \E n \in PlanIds, j \in Jobs : PlanForget(n, j)
  BY <1>3 DEF PlanForget, flowVars, Types, JobTypes
<1>4. CASE \E n \in PlanIds : ForgetStart(n)
  BY <1>4 DEF ForgetStart, Begin, flowVars, Types, JobTypes
<1>5. CASE ForgetTombstone \/ ForgetRefused \/ ForgetFinish
  BY <1>5 DEF ForgetTombstone, ForgetRefused, ForgetFinish, flowVars, Types, JobTypes, ForgetTypes
<1>6. CASE ForgetEvents \/ ForgetMetadata
  <2>1. /\ forget.at # "idle" /\ UNCHANGED <<durable, journal, torn, receiptFile, run, calls, lease>>
        /\ \E left \in {"metadata", "gone"} :
             evidence' = [evidence EXCEPT ![plans[forget.plan].job] = left]
    BY <1>6 DEF ForgetEvents, ForgetMetadata, Delete, txnVars
  <2>2. evidence' \in [Jobs -> {"whole", "metadata", "gone"}]
    BY <2>1 DEF Types, JobTypes
  <2> QED BY <2>1, <2>2
<1>7. CASE \E t \in Txns : Repair(t)
  BY <1>7 DEF Repair, RepairTransaction, Begin, flowVars, Types, JobTypes
<1>8. CASE RepairEnds \/ MaintenanceCrash
  BY <1>8 DEF RepairEnds, MaintenanceCrash, flowVars, Types, JobTypes
<1> QED BY <1>1, <1>2, <1>3, <1>4, <1>5, <1>6, <1>7, <1>8 DEF Next

LEMMA JobTypesKept ==
    ASSUME Types, Next
    PROVE  JobTypes'
<1>1. JobTypes /\ run \in Run
  BY DEF Types, JobTypes
<1>2. CASE ~DriverNext
  BY <1>1, <1>2, OthersDo DEF JobTypes
<1>3. ASSUME NEW j \in Jobs, NEW wish \in (Bindings \ {Original}) \cup {NoBinding}, RunStart(j, wish)
      PROVE  JobTypes'
  <2>1. UNCHANGED <<durable, evidence, torn, receiptFile, calls>>
    BY <1>3 DEF RunStart
  <2>2. journal' \in [Jobs -> Jrn] /\ run' \in Run /\ run'.at \notin {"rolling", "record"}
    BY <1>1, <1>3, RunStartDoes
  <2> QED BY <1>1, <2>1, <2>2 DEF JobTypes
<1>4. CASE UseStored \/ GiveUpUnknown \/ \E kind \in {"accepted", "schema", "unsafe", "model"}, p \in Pages : Answer(kind, p)
  BY <1>1, <1>4, OnwardDoes DEF JobTypes, Ahead
<1>5. CASE Call
  <2>1. run' \in Run /\ run'.at = "calling"
    BY <1>1, <1>5, CallDoes DEF Run, Places
  <2> QED BY <1>1, <1>5, <2>1, CallDoes DEF JobTypes
<1>6. CASE CommitStart
  <2>1. run' = [run EXCEPT !.at = "rolling"] /\ UNCHANGED <<durable, evidence, journal, torn, receiptFile, calls>>
    BY <1>6 DEF CommitStart
  <2>2. lease' = "driver"
    BY <1>6 DEF CommitStart, Begin
  <2>3. run' \in Run
    BY <1>1, <2>1 DEF Run, Places
  <2> QED BY <1>1, <2>1, <2>2, <2>3 DEF JobTypes
<1>7. CASE CommitBusy
  <2>1. "unavailable" \in Codes /\ "Pending" \in Outcomes /\ run.binding \in Bindings \cup {NoBinding}
    BY <1>1 DEF Codes, Outcomes, Run
  <2> DEFINE r == Receipt("Pending", run.binding, "unavailable")
  <2>2. run \in Run
    BY <1>1
  <2>3. AtReceipt(r) \in Run /\ AtReceipt(r).at = "receipt"
    BY <2>1, <2>2, ReceiptType
  <2>4. run' = AtReceipt(r)
    BY <1>7 DEF CommitBusy, Pending
  <2> HIDE DEF r
  <2>5. run' \in Run /\ run'.at = "receipt"
    BY <2>3, <2>4
  <2> QED BY <1>1, <1>7, <2>5 DEF CommitBusy, JobTypes
<1>8. CASE CommitEnds
  BY <1>1, <1>8, CommitEndsDoes DEF JobTypes
<1>9. CASE ReceiptFile
  <2>1. CASE run' = Published \/ run' = NoRun
    <3>1. run' \in Run /\ run'.at \notin {"rolling", "record"}
      BY <1>1, <2>1, PublishedType, NoRunType
    <3>2. receiptFile' \in [Jobs -> Rec]
      BY <1>1, <1>9, <2>1, ReceiptFileDoes DEF JobTypes, Run
    <3> QED BY <1>1, <1>9, <3>1, <3>2, ReceiptFileDoes DEF JobTypes
  <2>2. CASE /\ run' = [run EXCEPT !.at = "record"] /\ lease' = "driver"
             /\ receiptFile' = [receiptFile EXCEPT ![run.job] = run.receipt]
    <3>1. run' \in Run
      BY <1>1, <2>2 DEF Run, Places
    <3>2. receiptFile' \in [Jobs -> Rec]
      BY <1>1, <2>2 DEF JobTypes, Run
    <3> QED BY <1>1, <1>9, <2>2, <3>1, <3>2, ReceiptFileDoes DEF JobTypes
  <2> QED BY <1>9, <2>1, <2>2, ReceiptFileDoes
<1>10. CASE ReceiptRecord
  <2>1. run' \in Run /\ run'.at \notin {"rolling", "record"}
    BY <1>1, <1>10, ReceiptRecordDoes, PublishedType, NoRunType
  <2> QED BY <1>1, <1>10, <2>1, ReceiptRecordDoes DEF JobTypes
<1>11. CASE RunRefused
  BY <1>1, <1>11, NoRunType DEF RunRefused, JobTypes
<1>12. CASE DriverCrash
  <2>1. torn' \subseteq Jobs
    BY <1>1, <1>12 DEF DriverCrash, JobTypes, Run
  <2> QED BY <1>1, <1>12, <2>1, NoRunType DEF DriverCrash, JobTypes
<1>13. CASE RepairTails
  BY <1>1, <1>13 DEF RepairTails, JobTypes, txnVars
<1> QED BY <1>2, <1>3, <1>4, <1>5, <1>6, <1>7, <1>8, <1>9, <1>10, <1>11, <1>12, <1>13 DEF DriverNext

(* What a receipt says stays true, and with it what a job says. *)
StillBacked(j, r) ==
    /\ r.outcome # "none"
    /\ r.outcome = "Synthesized" => r.binding \in Bindings /\ txns'[<<j, r.binding>>].receipt
    /\ r.outcome = "NoOp" <=> j \notin durable'

LEMMA BackedStays ==
    ASSUME Types, Under, Rolls, Next, UNCHANGED durable
    PROVE  \A j \in Jobs : \A r : Backed(j, r) => StillBacked(j, r)
<1> SUFFICES ASSUME NEW j \in Jobs, NEW r, Backed(j, r)
             PROVE  StillBacked(j, r)
  OBVIOUS
<1>1. \A t \in Txns : txns[t].receipt => txns'[t].receipt
  BY AppliedStays
<1>2. r.outcome = "Synthesized" => <<j, r.binding>> \in Txns
  BY Names DEF Backed
<1> QED BY <1>1, <1>2 DEF Backed, StillBacked

LEMMA LatestIs ==
    ASSUME Types, NEW j \in Jobs
    PROVE  LET s == journal[j].receipts IN
           /\ s \in Seq(Rec) /\ DOMAIN s = 1..Len(s) /\ Len(s) \in Nat
           /\ s = <<>> => Latest(j) = NoReceipt
           /\ s # <<>> => Len(s) \in DOMAIN s /\ Latest(j) = s[Len(s)]
<1> DEFINE s == journal[j].receipts
<1>1. s \in Seq(Rec)
  BY DEF Types, JobTypes, Jrn
<1>2. Latest(j) = IF s = <<>> THEN NoReceipt ELSE s[Len(s)]
  BY DEF Latest, Last
<1> HIDE DEF s
<1> QED BY <1>1, <1>2 DEF s

LEMMA JobThen ==
    ASSUME NEW j, Started(j)',
           \A i \in 1..(Len(journal'[j].receipts) - 1) : journal'[j].receipts[i].outcome = "Pending",
           \A i \in DOMAIN journal'[j].receipts : StillBacked(j, journal'[j].receipts[i]),
           journal'[j].receipts # <<>> /\ Latest(j)'.outcome # "Pending" => receiptFile'[j] = Latest(j)'
    PROVE  JobHonest(j)'
BY DEF JobHonest, OpenTo, Backed, StillBacked

LEMMA JobStays ==
    ASSUME Types, Under, Rolls, Next, UNCHANGED durable,
           NEW j \in Jobs, JobHonest(j), Started(j)',
           journal'[j].receipts = journal[j].receipts,
           \/ receiptFile'[j] = receiptFile[j]
           \/ journal[j].receipts = <<>> \/ Latest(j).outcome = "Pending"
    PROVE  JobHonest(j)'
<1>1. \A i \in 1..(Len(journal'[j].receipts) - 1) : journal'[j].receipts[i].outcome = "Pending"
  BY DEF JobHonest, OpenTo
<1>2. \A i \in DOMAIN journal'[j].receipts : StillBacked(j, journal'[j].receipts[i])
  BY BackedStays DEF JobHonest
<1>3. /\ Latest(j)' = Latest(j)
      /\ journal'[j].receipts # <<>> /\ Latest(j).outcome # "Pending" => receiptFile'[j] = Latest(j)
  BY DEF JobHonest, Latest
<1> QED BY <1>1, <1>2, <1>3, JobThen

LEMMA JobsStay ==
    ASSUME Types, Under, Rolls, Next, UNCHANGED <<durable, calls, receiptFile>>,
           \A j \in Jobs : JobHonest(j),
           \A j \in Jobs : /\ journal'[j].started = journal[j].started
                           /\ journal'[j].receipts = journal[j].receipts
    PROVE  \A j \in Jobs : JobHonest(j)'
<1> SUFFICES ASSUME NEW j \in Jobs PROVE JobHonest(j)'
  OBVIOUS
<1>1. Started(j)'
  BY DEF JobHonest, Started
<1> QED BY <1>1, JobStays

(* A job is honest when its receipt has been recorded. *)
LEMMA RecordIsHonest ==
    ASSUME Types, Under, Rolls, Next, Receipts, ReceiptRecord
    PROVE  Receipts'
<1> SUFFICES ASSUME NEW j, j = run.job, NEW r, r = run.receipt, NEW s, s = journal[j].receipts
             PROVE  Receipts'
  OBVIOUS
<1>1. j \in Jobs /\ r \in Rec
  BY DEF Types, JobTypes, Run
<1>2. /\ run.at = "record" /\ run' = Published
      /\ UNCHANGED <<durable, receiptFile, calls>>
      /\ \A i \in Jobs : journal'[i].started = journal[i].started
      /\ \A i \in Jobs : i # j => journal'[i].receipts = journal[i].receipts
      /\ journal'[j].receipts = s \/ journal'[j].receipts = Append(s, r)
  BY ReceiptRecordDoes
<1>3. Backed(j, r) /\ receiptFile[j] = r /\ \A i \in 1..Len(s) : s[i].outcome = "Pending"
  BY <1>2 DEF Receipts, RunHonest, OpenTo, Backed
<1>4. \A i \in Jobs : JobHonest(i) /\ Started(i)'
  BY <1>2 DEF Receipts, JobHonest, Started
<1>5. \A i \in Jobs : i # j => JobHonest(i)'
  BY <1>2, <1>4, JobStays
<1>6. JobHonest(j)'
  <2>1. CASE journal'[j].receipts = s
    BY <1>1, <1>2, <1>4, <2>1, JobStays
  <2>2. CASE journal'[j].receipts = Append(s, r)
    <3>1. s \in Seq(Rec) /\ DOMAIN s = 1..Len(s) /\ Len(s) \in Nat
      BY <1>1, LatestIs
    <3> DEFINE a == Append(s, r)
               n == Len(s) + 1
    <3>a. Len(a) = n /\ a[n] = r
      BY <1>1, <3>1
    <3>b. DOMAIN a = 1..n /\ a # <<>>
      BY <1>1, <3>1
    <3>c. \A i \in 1..Len(s) : a[i] = s[i]
      BY <1>1, <3>1
    <3>d. n - 1 = Len(s) /\ \A i \in 1..n : i = n \/ i \in 1..Len(s)
      BY <3>1
    <3>2. /\ Len(a) = n /\ DOMAIN a = 1..n /\ a[n] = r /\ a # <<>> /\ n - 1 = Len(s)
          /\ \A i \in 1..Len(s) : a[i] = s[i]
          /\ \A i \in 1..n : i = n \/ i \in 1..Len(s)
      BY <3>a, <3>b, <3>c, <3>d
    <3>3. journal'[j].receipts = a
      BY <2>2
    <3> HIDE DEF a, n
    <3>4. \A q : Backed(j, q) => StillBacked(j, q)
      BY <1>1, <1>2, BackedStays
    <3>5. \A i \in 1..Len(s) : StillBacked(j, s[i])
      BY <1>1, <1>4, <3>1, <3>4 DEF JobHonest
    <3>6. \A i \in DOMAIN a : StillBacked(j, a[i])
      BY <1>3, <3>2, <3>4, <3>5
    <3>7. \A i \in 1..(Len(a) - 1) : a[i].outcome = "Pending"
      BY <1>3, <3>2
    <3>8. Latest(j)' = r /\ receiptFile'[j] = r
      BY <1>2, <1>3, <3>2, <3>3 DEF Latest, Last
    <3> QED BY <1>1, <1>4, <3>3, <3>6, <3>7, <3>8, JobThen
  <2> QED BY <1>2, <2>1, <2>2
<1>7. RunHonest'
  <2>1. run \in Run
    BY DEF Types, JobTypes
  <2>2. run'.at = "idle" \/ (run'.at = "generate" /\ run'.job = j /\ r.outcome = "Pending")
    BY <1>2, <2>1, PublishedType, NoRunType
  <2>3. r.outcome = "Pending" => j \in durable
    BY <1>1, <1>3 DEF Backed
  <2> QED BY <1>2, <2>2, <2>3 DEF RunHonest
<1>8. \A i \in Jobs : JobHonest(i)'
  BY <1>5, <1>6
<1> QED BY <1>7, <1>8 DEF Receipts

(* The file of a receipt is written while what it replaces is still open. *)
LEMMA FileIsHonest ==
    ASSUME Types, Under, Rolls, Next, Receipts, ReceiptFile
    PROVE  Receipts'
<1> SUFFICES ASSUME NEW j, j = run.job, NEW r, r = run.receipt, NEW s, s = journal[j].receipts
             PROVE  Receipts'
  OBVIOUS
<1>1. j \in Jobs /\ run \in Run /\ receiptFile \in [Jobs -> Rec]
  BY DEF Types, JobTypes, Run
<1>2. /\ run.at = "receipt" /\ UNCHANGED <<durable, journal, calls>>
      /\ \/ (run' = Published \/ run' = NoRun) /\ UNCHANGED receiptFile
         \/ /\ run' = [run EXCEPT !.at = "record"]
            /\ receiptFile' = [receiptFile EXCEPT ![j] = r]
            /\ Latest(j) # NoReceipt => Latest(j).outcome = "Pending"
  BY ReceiptFileDoes
<1>3. Backed(j, r)
  BY <1>2 DEF Receipts, RunHonest
<1>4. \A i \in Jobs : JobHonest(i) /\ Started(i)'
  BY <1>2 DEF Receipts, JobHonest, Started
<1>5. CASE (run' = Published \/ run' = NoRun) /\ UNCHANGED receiptFile
  <2>1. \A i \in Jobs : JobHonest(i)'
    BY <1>2, <1>4, <1>5, JobStays
  <2>2. run'.at = "idle" \/ (run'.at = "generate" /\ run'.job = j /\ r.outcome = "Pending")
    BY <1>1, <1>5, PublishedType, NoRunType
  <2>3. r.outcome = "Pending" => j \in durable
    BY <1>1, <1>3 DEF Backed
  <2>4. RunHonest'
    BY <1>2, <2>2, <2>3 DEF RunHonest
  <2> QED BY <2>1, <2>4 DEF Receipts
<1>6. CASE /\ run' = [run EXCEPT !.at = "record"]
           /\ receiptFile' = [receiptFile EXCEPT ![j] = r]
           /\ Latest(j) # NoReceipt => Latest(j).outcome = "Pending"
  <2>1. /\ s \in Seq(Rec) /\ DOMAIN s = 1..Len(s) /\ Len(s) \in Nat
        /\ s = <<>> => Latest(j) = NoReceipt
        /\ s # <<>> => Len(s) \in DOMAIN s /\ Latest(j) = s[Len(s)]
    BY <1>1, LatestIs
  <2>2. s = <<>> \/ Latest(j).outcome = "Pending"
    <3>1. \A i \in DOMAIN s : Backed(j, s[i])
      BY <1>1, <1>4 DEF JobHonest
    <3>2. ASSUME s # <<>> PROVE Backed(j, s[Len(s)])
      BY <2>1, <3>1, <3>2
    <3>3. s # <<>> => Latest(j).outcome # "none"
      BY <2>1, <3>2 DEF Backed
    <3> QED BY <1>6, <2>1, <3>3, NoRunType
  <2>3. receiptFile'[j] = r /\ \A i \in Jobs : i # j => receiptFile'[i] = receiptFile[i]
    BY <1>1, <1>6
  <2>4. \A i \in Jobs : JobHonest(i)'
    BY <1>2, <1>4, <2>2, <2>3, JobStays
  <2>5. run'.at = "record" /\ run'.job = j /\ run'.receipt = r
    BY <1>1, <1>6 DEF Run
  <2>6. \A i \in 1..Len(s) : s[i].outcome = "Pending"
    <3>1. \A i \in 1..(Len(s) - 1) : s[i].outcome = "Pending"
      BY <1>1, <1>4 DEF JobHonest, OpenTo
    <3>2. s # <<>> => s[Len(s)].outcome = "Pending"
      BY <2>1, <2>2
    <3>3. ASSUME NEW i \in 1..Len(s) PROVE s # <<>> /\ (i = Len(s) \/ i \in 1..(Len(s) - 1))
      BY <2>1
    <3> QED BY <3>1, <3>2, <3>3
  <2>7. StillBacked(j, r)
    BY <1>1, <1>2, <1>3, BackedStays
  <2>8. RunHonest'
    BY <1>2, <2>3, <2>5, <2>6, <2>7 DEF RunHonest, OpenTo, Backed, StillBacked
  <2> QED BY <2>4, <2>8 DEF Receipts
<1> QED BY <1>2, <1>5, <1>6

(* The model is called when the start of the call has been recorded. *)
LEMMA CallIsHonest ==
    ASSUME Types, Under, Rolls, Next, Receipts, Call
    PROVE  Receipts'
<1> SUFFICES ASSUME NEW j, j = run.job, NEW x, x = <<run.binding, run.attempt>>
             PROVE  Receipts'
  OBVIOUS
<1>1. j \in Jobs /\ run \in Run
  BY DEF Types, JobTypes, Run
<1>2. /\ run.at = "generate" /\ x \in Bindings \X Attempts /\ x \notin journal[j].started
      /\ \A i \in Jobs : journal'[i].receipts = journal[i].receipts
      /\ \A i \in Jobs : journal[i].started \subseteq journal'[i].started
      /\ x \in journal'[j].started
      /\ \A i \in Jobs, y \in Bindings \X Attempts :
           i # j \/ y # x => calls'[i][y] = calls[i][y]
      /\ calls[j][x] = 0 => calls'[j][x] = 1
      /\ run' = [run EXCEPT !.at = "calling"]
      /\ UNCHANGED <<durable, receiptFile>>
  BY CallDoes
<1>3. j \in durable
  BY <1>2 DEF Receipts, RunHonest
<1>4. \A i \in Jobs : JobHonest(i) /\ Started(i)
  BY DEF Receipts, JobHonest
<1>5. ASSUME NEW i \in Jobs PROVE Started(i)'
  <2>1. ASSUME NEW y \in Bindings \X Attempts, i # j \/ y # x
        PROVE  calls'[i][y] <= 1 /\ (calls'[i][y] # 0 => y \in journal'[i].started /\ i \in durable')
    <3>1. calls'[i][y] = calls[i][y] /\ journal[i].started \subseteq journal'[i].started /\ durable' = durable
      BY <1>2, <2>1
    <3>2. calls[i][y] <= 1 /\ (calls[i][y] # 0 => y \in journal[i].started /\ i \in durable)
      BY <1>4 DEF Started
    <3> QED BY <3>1, <3>2
  <2>2. calls'[j][x] = 1
    BY <1>1, <1>2, <1>4 DEF Started
  <2>3. i = j => calls'[i][x] <= 1 /\ x \in journal'[i].started /\ i \in durable'
    BY <1>2, <1>3, <2>2
  <2> QED BY <2>1, <2>3 DEF Started
<1>6. \A i \in Jobs : JobHonest(i)'
  BY <1>2, <1>4, <1>5, JobStays
<1>7. run'.at = "calling" /\ run'.job = j
  BY <1>1, <1>2 DEF Run
<1>8. RunHonest'
  BY <1>2, <1>3, <1>7 DEF RunHonest
<1> QED BY <1>6, <1>8 DEF Receipts

LEMMA ReceiptsKept ==
    ASSUME Types, Under, Rolls, Whose, Receipts, Next
    PROVE  Receipts'
<1>1. run \in Run /\ run.job \in Jobs /\ run.binding \in Bindings
  BY DEF Types, JobTypes, Run
<1>2. ASSUME UNCHANGED <<durable, calls, receiptFile>>,
             \A j \in Jobs : /\ journal'[j].started = journal[j].started
                             /\ journal'[j].receipts = journal[j].receipts,
             \/ run' = run \/ run'.at = "idle"
             \/ run'.job \in durable /\ run'.at \in {"generate", "calling", "commit", "rolling"}
             \/ run'.at = "receipt" /\ run'.job \in Jobs /\ StillBacked(run'.job, run'.receipt)
      PROVE  Receipts'
  <2>1. \A j \in Jobs : JobHonest(j)'
    BY <1>2, JobsStay DEF Receipts
  <2>2. CASE run' = run
    <3> SUFFICES ASSUME NEW j, j = run.job, NEW r, r = run.receipt PROVE RunHonest'
      BY <2>1 DEF Receipts
    <3>1. run.at \in {"receipt", "record"} => StillBacked(j, r)
      BY <1>1, <1>2, BackedStays DEF Receipts, RunHonest
    <3>2. run.at = "record" => receiptFile[j] = r /\ \A i \in 1..Len(journal[j].receipts) : journal[j].receipts[i].outcome = "Pending"
      BY DEF Receipts, RunHonest, OpenTo
    <3>3. run.at \in {"generate", "calling", "commit", "rolling"} => j \in durable
      BY DEF Receipts, RunHonest
    <3>4. journal'[j].receipts = journal[j].receipts
      BY <1>1, <1>2
    <3> QED BY <1>2, <2>2, <3>1, <3>2, <3>3, <3>4 DEF RunHonest, Backed, StillBacked, OpenTo
  <2>3. CASE \/ run'.at = "idle"
             \/ run'.job \in durable /\ run'.at \in {"generate", "calling", "commit", "rolling"}
             \/ run'.at = "receipt" /\ run'.job \in Jobs /\ StillBacked(run'.job, run'.receipt)
    <3>1. RunHonest'
      BY <1>2, <2>3 DEF RunHonest, Backed, StillBacked
    <3> QED BY <2>1, <3>1 DEF Receipts
  <2> QED BY <1>2, <2>2, <2>3
<1>3. ASSUME UNCHANGED durable, NEW r, r.outcome \in Bad, run.job \in durable
      PROVE  StillBacked(run.job, r)
  BY <1>3 DEF StillBacked, Bad
<1>4. CASE ~DriverNext
  BY <1>2, <1>4, OthersDo
<1>5. ASSUME NEW j \in Jobs, NEW wish \in (Bindings \ {Original}) \cup {NoBinding}, RunStart(j, wish)
      PROVE  Receipts'
  <2>1. UNCHANGED <<durable, receiptFile, calls>>
    BY <1>5 DEF RunStart
  <2>2. /\ \A i \in Jobs : /\ journal'[i].started = journal[i].started
                           /\ journal'[i].receipts = journal[i].receipts
        /\ \/ run' = run
           \/ /\ run' \in Run /\ run'.job = j
              /\ \/ run'.at = "generate" /\ j \in durable
                 \/ run'.at = "receipt" /\ j \notin durable /\ run'.receipt.outcome = "NoOp"
    BY <1>5, RunStartDoes
  <2>3. j \notin durable /\ run'.receipt.outcome = "NoOp" => StillBacked(j, run'.receipt)
    BY <2>1 DEF StillBacked
  <2> QED BY <1>2, <2>1, <2>2, <2>3
<1>6. CASE UseStored \/ GiveUpUnknown \/ \E kind \in {"accepted", "schema", "unsafe", "model"}, p \in Pages : Answer(kind, p)
  <2>1. /\ run.at \in {"generate", "calling"} /\ Ahead(run')
        /\ \A j \in Jobs : /\ journal'[j].started = journal[j].started
                           /\ journal'[j].receipts = journal[j].receipts
        /\ UNCHANGED <<durable, receiptFile, calls>>
    BY <1>6, OnwardDoes
  <2>2. run.job \in durable
    BY <2>1 DEF Receipts, RunHonest
  <2> QED BY <1>1, <1>2, <1>3, <2>1, <2>2 DEF Ahead
<1>7. CASE CommitStart
  <2>1. run.at = "commit" /\ run' = [run EXCEPT !.at = "rolling"] /\ UNCHANGED <<durable, journal, receiptFile, calls>>
    BY <1>7 DEF CommitStart
  <2>2. run'.at = "rolling" /\ run'.job = run.job /\ run.job \in durable
    BY <1>1, <2>1 DEF Run, Receipts, RunHonest
  <2> QED BY <1>2, <2>1, <2>2
<1>8. CASE CommitBusy
  <2>1. "unavailable" \in Codes /\ "Pending" \in Outcomes /\ run.binding \in Bindings \cup {NoBinding}
    BY <1>1 DEF Codes, Outcomes
  <2>2. run.at = "commit" /\ run' = Pending("unavailable") /\ UNCHANGED <<durable, journal, receiptFile, calls>>
    BY <1>8 DEF CommitBusy
  <2>3. run'.at = "receipt" /\ run'.job = run.job /\ run'.receipt.outcome = "Pending"
    BY <1>1, <2>1, <2>2, ReceiptType DEF Pending
  <2>4. run.job \in durable
    BY <2>2 DEF Receipts, RunHonest
  <2> QED BY <1>1, <1>2, <1>3, <2>2, <2>3, <2>4 DEF Bad
<1>9. CASE CommitEnds
  <2>1. /\ run.at = "rolling" /\ run'.at = "receipt" /\ run'.job = run.job
        /\ \/ roll.at = "done" /\ run'.receipt.outcome = "Synthesized" /\ run'.receipt.binding = run.binding
           \/ run'.receipt.outcome = "Pending"
        /\ UNCHANGED <<durable, journal, receiptFile, calls>>
    BY <1>9, CommitEndsDoes
  <2>2. run.job \in durable
    BY <2>1 DEF Receipts, RunHonest
  <2>3. roll.txn = <<run.job, run.binding>>
    BY <2>1 DEF Whose
  <2>4. txns' = txns
    BY <1>9 DEF CommitEnds
  <2>5. StillBacked(run.job, run'.receipt)
    BY <1>1, <2>1, <2>2, <2>3, <2>4 DEF Rolls, StillBacked
  <2> QED BY <1>1, <1>2, <2>1, <2>5
<1>10. CASE RunRefused \/ DriverCrash
  BY <1>2, <1>10, NoRunType DEF RunRefused, DriverCrash
<1>11. CASE RepairTails
  BY <1>2, <1>11 DEF RepairTails
<1>12. CASE Call
  BY <1>12, CallIsHonest
<1>13. CASE ReceiptFile
  BY <1>13, FileIsHonest
<1>14. CASE ReceiptRecord
  BY <1>14, RecordIsHonest
<1> QED BY <1>4, <1>5, <1>6, <1>7, <1>8, <1>9, <1>10, <1>11, <1>12, <1>13, <1>14 DEF DriverNext

-----------------------------------------------------------------------------
(* Who holds the lease, and what forgetting leaves. *)

(* While the driver goes on, the files, the evidence and what is forgotten    *)
(* stay, and a transaction of the other process is not touched.               *)
LEMMA DriverLeaves ==
    ASSUME Types, Whose, DriverNext
    PROVE  /\ UNCHANGED <<files, evidence>>
           /\ lease = "maintenance" => UNCHANGED <<lease, roll, txns>>
           /\ run'.at = "rolling" => roll'.txn = <<run'.job, run'.binding>> /\ roll'.at # "none"
<1>1. VaultTypes /\ run \in Run /\ (run.at \in {"rolling", "record"} => lease = "driver")
  BY DEF Types, JobTypes
<1>2. CASE \E j \in Jobs, b \in (Bindings \ {Original}) \cup {NoBinding} : RunStart(j, b)
  <2>1. PICK j \in Jobs, b \in (Bindings \ {Original}) \cup {NoBinding} : RunStart(j, b)
    BY <1>2
  <2>2. run'.at # "rolling"
    BY <2>1, RunStartDoes
  <2> QED BY <2>1, <2>2 DEF RunStart, txnVars
<1>3. CASE UseStored \/ GiveUpUnknown \/ \E kind \in {"accepted", "schema", "unsafe", "model"}, p \in Pages : Answer(kind, p)
  BY <1>3, OnwardDoes DEF txnVars, Ahead
<1>4. CASE Call
  <2>1. run'.at = "calling"
    BY <1>1, <1>4, CallDoes DEF Run
  <2> QED BY <1>4, <2>1 DEF Call, txnVars
<1>5. CASE CommitStart
  <2> SUFFICES ASSUME NEW t, t = <<run.job, run.binding>>
               PROVE  /\ UNCHANGED <<files, evidence>> /\ lease = "free"
                      /\ run'.at = "rolling" => roll'.txn = <<run'.job, run'.binding>> /\ roll'.at # "none"
    OBVIOUS
  <2>1. t \in Txns
    BY <1>1, Names DEF Run
  <2>2. /\ Begin("driver", t, PatchChanges(t)) /\ run' = [run EXCEPT !.at = "rolling"]
        /\ UNCHANGED evidence
    BY <1>5 DEF CommitStart
  <2>3. /\ lease = "free" /\ UNCHANGED files
        /\ BeginFails(t) \/ Loads(t) \/ Stages(t, PatchChanges(t))
    BY <1>1, <2>1, <2>2, BeginDoes
  <2>4. roll'.txn = t /\ roll'.at # "none"
    BY <2>1, <2>3, RollingType DEF BeginFails, Loads, Stages
  <2>5. run'.job = run.job /\ run'.binding = run.binding
    BY <1>1, <2>2 DEF Run
  <2> QED BY <2>2, <2>3, <2>4, <2>5
<1>6. CASE CommitBusy
  <2>1. "unavailable" \in Codes /\ "Pending" \in Outcomes /\ run.binding \in Bindings \cup {NoBinding}
    BY <1>1 DEF Codes, Outcomes, Run
  <2>2. run'.at = "receipt"
    BY <1>1, <1>6, <2>1, ReceiptType DEF CommitBusy, Pending
  <2> QED BY <1>6, <2>2 DEF CommitBusy, txnVars
<1>7. CASE CommitEnds
  <2>1. run.at = "rolling" /\ run'.at = "receipt"
    BY <1>7, CommitEndsDoes
  <2> QED BY <1>1, <1>7, <2>1 DEF CommitEnds
<1>8. CASE ReceiptFile
  <2>1. run'.at # "rolling"
    <3>1. [run EXCEPT !.at = "record"].at = "record"
      BY <1>1 DEF Run
    <3> QED BY <1>1, <1>8, <3>1, ReceiptFileDoes, PublishedType, NoRunType
  <2> QED BY <1>8, <2>1, ReceiptFileDoes DEF ReceiptFile
<1>9. CASE ReceiptRecord
  <2>1. run'.at # "rolling" /\ run.at = "record"
    BY <1>1, <1>9, ReceiptRecordDoes, PublishedType, NoRunType
  <2> QED BY <1>1, <1>9, <2>1 DEF ReceiptRecord
<1>10. CASE RunRefused
  BY <1>10, NoRunType DEF RunRefused, txnVars
<1>11. CASE DriverCrash
  BY <1>11, NoRunType DEF DriverCrash
<1>12. CASE RepairTails
  BY <1>12 DEF RepairTails, txnVars, Whose
<1> QED BY <1>2, <1>3, <1>4, <1>5, <1>6, <1>7, <1>8, <1>9, <1>10, <1>11, <1>12 DEF DriverNext

LEMMA ForwardFrom ==
    ASSUME VaultTypes, Under, RollForward
    PROVE  /\ roll.at \in {"manifest", "validate", "apply", "receipt"}
           /\ roll.txn' = roll.txn /\ roll.at' # "none" /\ lease' = lease
<1>1. roll.at \in {"manifest", "validate", "apply", "receipt"}
  BY DEF RollForward, WriteManifest, Validate, Replace, Commit, WriteReceipt, RollFails
<1> QED BY <1>1, ForwardDoes

(* The plans and what is begun with one. *)
LEMMA PlanDoes ==
    ASSUME Types, NEW n \in PlanIds, NEW j \in Jobs, PlanForget(n, j)
    PROVE  /\ lease = "free" /\ ~plans[n].made /\ plans' \in [PlanIds -> Plan] /\ plans'[n].made
           /\ \A m \in PlanIds : m # n => plans'[m] = plans[m]
           /\ UNCHANGED <<tombs, forget, files, txns, lease, roll, flowVars>>
<1> DEFINE new == [made |-> TRUE, job |-> j, pages |-> Affected(j), seen |-> PagesNow]
<1>1. PagesNow \in [Pages -> Lines]
  BY FileTypes DEF Types, PagesNow
<1>2. new \in Plan /\ new.made
  BY <1>1 DEF Plan, Affected
<1>3. plans' = [plans EXCEPT ![n] = new] /\ plans \in [PlanIds -> Plan]
  BY DEF PlanForget, Types, ForgetTypes
<1> HIDE DEF new
<1>4. /\ plans' \in [PlanIds -> Plan] /\ plans'[n] = new
      /\ \A m \in PlanIds : m # n => plans'[m] = plans[m]
  BY <1>2, <1>3
<1> QED BY <1>2, <1>4 DEF PlanForget

LEMMA StartDoes ==
    ASSUME Types, NEW n \in PlanIds, NEW t, t = <<"forget", n>>, ForgetStart(n)
    PROVE  /\ lease = "free" /\ lease' = "maintenance" /\ forget' = [plan |-> n, at |-> "rolling"]
           /\ roll'.txn = t /\ UNCHANGED <<plans, tombs, files, flowVars>>
           /\ plans[n].made /\ PlanHolds(n)
           /\ \/ BeginFails(t) /\ roll'.at = "failed"
              \/ Loads(t) /\ roll'.at = "validate" /\ roll'.next = 1
              \/ Stages(t, ForgetChanges(n)) /\ roll'.at = "manifest" /\ roll'.next = 1
<1>1. t \in Txns /\ VaultTypes
  BY Names DEF Types
<1>2. Begin("maintenance", t, ForgetChanges(n))
  BY DEF ForgetStart
<1>3. /\ lease = "free" /\ lease' = "maintenance" /\ UNCHANGED files
      /\ BeginFails(t) \/ Loads(t) \/ Stages(t, ForgetChanges(n))
  BY <1>1, <1>2, BeginDoes
<1>4. ASSUME BeginFails(t) PROVE roll'.txn = t /\ roll'.at = "failed"
  BY <1>1, <1>4, RollingType DEF BeginFails
<1>5. ASSUME Loads(t) PROVE roll'.txn = t /\ roll'.at = "validate" /\ roll'.next = 1
  BY <1>1, <1>5, RollingType DEF Loads
<1>6. ASSUME Stages(t, ForgetChanges(n)) PROVE roll'.txn = t /\ roll'.at = "manifest" /\ roll'.next = 1
  BY <1>1, <1>6, RollingType DEF Stages
<1> QED BY <1>3, <1>4, <1>5, <1>6 DEF ForgetStart

LEMMA ForgetTypesKept ==
    ASSUME Types, Under, Rolls, Whose, Next
    PROVE  ForgetTypes'
<1>1. VaultTypes /\ JobTypes /\ ForgetTypes
  BY DEF Types
<1>2. CASE DriverNext /\ UNCHANGED forgetVars
  BY <1>1, <1>2, DriverLeaves DEF ForgetTypes, forgetVars
<1>3. CASE RollForward /\ UNCHANGED <<flowVars, forgetVars>>
  BY <1>1, <1>3, ForwardFrom DEF ForgetTypes, forgetVars
<1>4. CASE \E f \in Files : HumanEdit(f) /\ UNCHANGED <<flowVars, forgetVars>>
  BY <1>1, <1>4, EditDoes DEF ForgetTypes, forgetVars
<1>5. CASE \E n \in PlanIds, j \in Jobs : PlanForget(n, j)
  BY <1>1, <1>5, PlanDoes DEF ForgetTypes
<1>6. ASSUME NEW n \in PlanIds, ForgetStart(n) PROVE ForgetTypes'
  <2>1. /\ lease' = "maintenance" /\ forget' = [plan |-> n, at |-> "rolling"]
        /\ UNCHANGED <<plans, tombs>>
    BY <1>6, StartDoes
  <2> QED BY <1>1, <2>1 DEF ForgetTypes
<1>7. CASE ForgetTombstone
  <2>1. forget.plan \in PlanIds
    BY <1>7 DEF ForgetTombstone, Whose
  <2>2. CASE /\ tombs' = [tombs EXCEPT ![forget.plan] = "prepared"]
             /\ forget' = [forget EXCEPT !.at = "events"] /\ UNCHANGED <<lease, roll>>
    BY <1>1, <1>7, <2>1, <2>2 DEF ForgetTombstone, ForgetTypes
  <2>3. CASE Release /\ forget' = Idle /\ UNCHANGED tombs
    BY <1>1, <1>7, <2>3 DEF ForgetTombstone, ForgetTypes, Idle
  <2> QED BY <1>7, <2>2, <2>3 DEF ForgetTombstone
<1>8. CASE ForgetRefused \/ MaintenanceCrash
  BY <1>1, <1>8 DEF ForgetRefused, MaintenanceCrash, ForgetTypes, Idle
<1>9. CASE ForgetEvents \/ ForgetMetadata
  BY <1>1, <1>9 DEF ForgetEvents, ForgetMetadata, Delete, txnVars, ForgetTypes
<1>10. CASE ForgetFinish
  BY <1>1, <1>10 DEF ForgetFinish, ForgetTypes, Idle
<1>11. CASE \E t \in Txns : Repair(t)
  BY <1>1, <1>11 DEF Repair, RepairTransaction, Begin, forgetVars, ForgetTypes
<1>12. CASE RepairEnds
  BY <1>1, <1>12 DEF RepairEnds, forgetVars, ForgetTypes
<1> QED BY <1>2, <1>3, <1>4, <1>5, <1>6, <1>7, <1>8, <1>9, <1>10, <1>11, <1>12 DEF Next

LEMMA WhoseKept ==
    ASSUME Types, Under, Rolls, Whose, Next
    PROVE  Whose'
<1>1. VaultTypes /\ JobTypes /\ ForgetTypes
  BY DEF Types
<1>2. CASE DriverNext /\ UNCHANGED forgetVars
  BY <1>1, <1>2, DriverLeaves DEF ForgetTypes, forgetVars, Whose
<1>3. CASE RollForward /\ UNCHANGED <<flowVars, forgetVars>>
  BY <1>1, <1>3, ForwardFrom DEF Whose, forgetVars, flowVars
<1>4. CASE \E f \in Files : HumanEdit(f) /\ UNCHANGED <<flowVars, forgetVars>>
  BY <1>1, <1>4, EditDoes DEF Whose, forgetVars, flowVars
<1>5. CASE \E n \in PlanIds, j \in Jobs : PlanForget(n, j)
  BY <1>1, <1>5, PlanDoes DEF Whose, JobTypes, ForgetTypes, flowVars
<1>6. ASSUME NEW n \in PlanIds, ForgetStart(n) PROVE Whose'
  <2>1. /\ lease = "free" /\ forget' = [plan |-> n, at |-> "rolling"]
        /\ roll'.txn = <<"forget", n>> /\ UNCHANGED run
    BY <1>6, StartDoes DEF flowVars
  <2> QED BY <1>1, <2>1 DEF Whose, JobTypes
<1>7. CASE ForgetTombstone
  <2>1. forget.plan \in PlanIds /\ lease = "maintenance" /\ forget.at = "rolling" /\ roll.at = "done"
    BY <1>1, <1>7 DEF ForgetTombstone, Whose, ForgetTypes
  <2>2. UNCHANGED <<run, plans>> /\ run.at # "rolling"
    BY <1>1, <1>7, <2>1 DEF ForgetTombstone, flowVars, JobTypes
  <2>3. CASE /\ tombs' = [tombs EXCEPT ![forget.plan] = "prepared"]
             /\ forget' = [forget EXCEPT !.at = "events"] /\ UNCHANGED <<lease, roll>>
    <3>1. forget'.plan = forget.plan /\ forget'.at = "events" /\ tombs'[forget.plan] = "prepared"
      BY <1>1, <2>1, <2>3 DEF ForgetTypes
    <3> QED BY <2>1, <2>2, <2>3, <3>1 DEF Whose
  <2>4. CASE Release /\ forget' = Idle /\ UNCHANGED tombs
    BY <2>2, <2>4 DEF Whose, Idle
  <2> QED BY <1>7, <2>3, <2>4 DEF ForgetTombstone
<1>8. ASSUME forget.at # "idle" \/ lease = "maintenance", UNCHANGED flowVars, forget'.at = "idle"
      PROVE  Whose'
  BY <1>1, <1>8 DEF Whose, ForgetTypes, JobTypes, flowVars
<1>9. CASE ForgetRefused \/ ForgetFinish \/ RepairEnds \/ MaintenanceCrash
  BY <1>8, <1>9 DEF ForgetRefused, ForgetFinish, RepairEnds, MaintenanceCrash, Idle, forgetVars
<1>10. CASE ForgetEvents
  BY <1>1, <1>10 DEF ForgetEvents, Delete, txnVars, Whose, ForgetTypes
<1>11. CASE ForgetMetadata
  <2>1. /\ forget.at = "metadata" /\ forget' = [forget EXCEPT !.at = "finish"]
        /\ evidence' = [evidence EXCEPT ![plans[forget.plan].job] = "gone"]
        /\ UNCHANGED <<plans, tombs, roll, run>>
    BY <1>11 DEF ForgetMetadata, Delete, txnVars
  <2>2. forget.plan \in PlanIds /\ plans[forget.plan].job \in Jobs
    BY <1>1, <2>1 DEF Whose, ForgetTypes, Plan
  <2>3. evidence'[plans[forget.plan].job] = "gone" /\ forget'.plan = forget.plan /\ forget'.at = "finish"
    BY <1>1, <2>1, <2>2 DEF JobTypes, ForgetTypes
  <2> QED BY <2>1, <2>3 DEF Whose
<1>12. ASSUME NEW t \in Txns, Repair(t) PROVE Whose'
  <2>1. lease = "free" /\ UNCHANGED <<run, forget>>
    BY <1>12 DEF Repair, RepairTransaction, Begin, flowVars, forgetVars
  <2> QED BY <1>1, <2>1 DEF Whose, JobTypes, ForgetTypes
<1> QED BY <1>2, <1>3, <1>4, <1>5, <1>6, <1>7, <1>9, <1>10, <1>11, <1>12 DEF Next

(* The transaction of a plan is staged by that plan's application only. *)
LEMMA ForgettingDoes ==
    ASSUME Types, Under, Rolls, Next, NEW n \in PlanIds, NEW t, t = <<"forget", n>>
    PROVE  \/ /\ txns'[t].targets = txns[t].targets
              /\ txns[t].state = "none" => txns'[t].state = "none"
           \/ ForgetStart(n) /\ Stages(t, ForgetChanges(n))
<1>1. VaultTypes /\ t \in Txns
  BY Names DEF Types
<1>2. CASE UNCHANGED txns
  BY <1>2
<1>3. CASE RollForward
  <2>1. txns'[t].targets = txns[t].targets /\ roll.txn \in Txns
    BY <1>1, <1>3, ForwardTargets, ForwardDoes
  <2>2. txns'[t].state = "none" \/ txns[t].state # "none"
    <3>1. roll.at \in {"manifest", "validate", "apply", "receipt"}
      BY <1>1, <1>3, ForwardFrom
    <3>2. txns[roll.txn].state # "none"
      BY <3>1 DEF Rolls
    <3>3. CASE t = roll.txn
      BY <3>2, <3>3
    <3>4. CASE t # roll.txn
      <4>1. txns'[t] = txns[t]
        <5>1. \/ txns' = txns
              \/ \E v \in States : txns' = [txns EXCEPT ![roll.txn].state = v]
              \/ txns' = [txns EXCEPT ![roll.txn].receipt = TRUE]
          BY <1>1, <1>3, ForwardDoes DEF States
        <5> QED BY <1>1, <2>1, <3>4, <5>1, StateSet, ReceiptSet
      <4> QED BY <4>1
    <3> QED BY <3>3, <3>4
  <2> QED BY <2>1, <2>2
<1>4. ASSUME NEW m \in PlanIds, ForgetStart(m)
      PROVE  UNCHANGED txns \/ txns'[t] = txns[t] \/ (m = n /\ Stages(t, ForgetChanges(n)))
  <2> SUFFICES ASSUME NEW u, u = <<"forget", m>>
               PROVE  UNCHANGED txns \/ txns'[t] = txns[t] \/ (m = n /\ Stages(t, ForgetChanges(n)))
    OBVIOUS
  <2>1. BeginFails(u) \/ Loads(u) \/ Stages(u, ForgetChanges(m))
    BY <1>4, StartDoes
  <2>2. CASE BeginFails(u) \/ Loads(u)
    BY <2>2 DEF BeginFails, Loads
  <2>3. CASE Stages(u, ForgetChanges(m)) /\ m = n
    BY <2>3
  <2>4. CASE Stages(u, ForgetChanges(m)) /\ m # n
    <3>1. u \in Txns /\ u # t
      BY <2>4, Names
    <3> QED BY <1>1, <2>4, <3>1, StagesDoes
  <2> QED BY <2>1, <2>2, <2>3, <2>4
<1>5. CASE CommitStart
  <2> SUFFICES ASSUME NEW u, u = <<run.job, run.binding>>
               PROVE  UNCHANGED txns \/ txns'[t] = txns[t]
    BY <1>2
  <2>1. run.job \in Jobs /\ run.binding \in Bindings
    BY DEF Types, JobTypes, Run
  <2>2. u \in Txns /\ u # t
    BY <2>1, Names
  <2>3. Begin("driver", u, PatchChanges(u))
    BY <1>5 DEF CommitStart
  <2>4. BeginFails(u) \/ Loads(u) \/ Stages(u, PatchChanges(u))
    BY <1>1, <2>2, <2>3, BeginDoes
  <2> QED BY <1>1, <2>2, <2>4, StagesDoes DEF BeginFails, Loads
<1>6. CASE \E u \in Txns : Repair(u)
  <2>1. PICK u \in Txns : Begin("maintenance", u, <<>>) /\ txns[u].state # "none"
    BY <1>6 DEF Repair, RepairTransaction, Unfinished
  <2>2. UNCHANGED txns
    BY <1>1, <2>1, BeginDoes DEF BeginFails, Loads, Stages
  <2> QED BY <1>2, <2>2
<1>7. CASE DriverNext /\ ~CommitStart
  <2>1. UNCHANGED txns
    BY <1>7 DEF DriverNext, RunStart, UseStored, GiveUpUnknown, Call, Answer, CommitBusy, CommitEnds,
                ReceiptFile, ReceiptRecord, RunRefused, DriverCrash, RepairTails, txnVars
  <2> QED BY <1>2, <2>1
<1>8. CASE \/ \E f \in Files : HumanEdit(f)
           \/ \E m \in PlanIds, j \in Jobs : PlanForget(m, j)
           \/ ForgetTombstone \/ ForgetRefused \/ ForgetEvents \/ ForgetMetadata \/ ForgetFinish
           \/ RepairEnds \/ MaintenanceCrash
  <2>1. UNCHANGED txns
    BY <1>8 DEF HumanEdit, PlanForget, ForgetTombstone, ForgetRefused, ForgetEvents, ForgetMetadata, Delete,
                ForgetFinish, RepairEnds, MaintenanceCrash, txnVars
  <2> QED BY <1>2, <2>1
<1> QED BY <1>2, <1>3, <1>4, <1>5, <1>6, <1>7, <1>8 DEF Next

(* A plan is made once, while nobody is in a transaction. *)
LEMMA PlansStay ==
    ASSUME Types, Next, NEW n \in PlanIds
    PROVE  plans'[n] = plans[n] \/ (~plans[n].made /\ plans'[n].made /\ lease = "free" /\ UNCHANGED txns)
<1>1. CASE \E m \in PlanIds, j \in Jobs : PlanForget(m, j)
  BY <1>1, PlanDoes
<1>2. CASE ~\E m \in PlanIds, j \in Jobs : PlanForget(m, j)
  <2>1. UNCHANGED plans
    BY <1>2 DEF Next, forgetVars, ForgetStart, ForgetTombstone, ForgetRefused, ForgetEvents, ForgetMetadata,
                Delete, ForgetFinish, Repair, RepairEnds, MaintenanceCrash
  <2> QED BY <2>1
<1> QED BY <1>1, <1>2

(* Of the transaction that forgets, every page of the plan is a target. *)
LEMMA StagedCovers ==
    ASSUME Types, NEW n \in PlanIds, NEW t, t = <<"forget", n>>, PlanHolds(n)
    PROVE  LET e == Effective(ForgetChanges(n)) IN
           /\ \A p \in plans[n].pages : \E i \in DOMAIN e : e[i].file = p
           /\ \A i \in DOMAIN e : e[i].file \in Pages => e[i].new = <<t>>
           /\ DOMAIN e \subseteq Nat \ {0}
<1> SUFFICES ASSUME NEW s, s = ForgetChanges(n), NEW e, e = Effective(s)
             PROVE  /\ \A p \in plans[n].pages : \E i \in DOMAIN e : e[i].file = p
                    /\ \A i \in DOMAIN e : e[i].file \in Pages => e[i].new = <<t>>
                    /\ DOMAIN e \subseteq Nat \ {0}
  OBVIOUS
<1>1. /\ Prepares(t, s)
      /\ \A i \in DOMAIN s : s[i].file \in Pages => s[i].new = <<t>>
      /\ \A p \in plans[n].pages : \E i \in DOMAIN s : s[i] = Target(p, files[p], <<t>>)
  BY ForgetPrepares
<1>2. /\ e \in Seq(TargetRec)
      /\ \A i \in DOMAIN e : \E k \in DOMAIN s : e[i] = s[k]
      /\ \A k \in DOMAIN s : s[k].old # s[k].new => \E i \in DOMAIN e : e[i] = s[k]
  BY <1>1, EffectiveKeeps DEF Prepares
<1>3. ASSUME NEW p \in plans[n].pages PROVE \E i \in DOMAIN e : e[i].file = p
  <2>1. PICK k \in DOMAIN s : s[k] = Target(p, files[p], <<t>>)
    BY <1>1
  <2>2. s[k].file = p /\ s[k].old = files[p] /\ s[k].new = <<t>>
    BY <2>1 DEF Target
  <2>3. files[p] # <<t>>
    <3>1. files[p][1][1] = plans[n].job /\ plans[n].job \in Jobs
      BY DEF PlanHolds, Affected, Cites, Types, ForgetTypes, Plan
    <3>2. <<t>>[1][1] = "forget"
      OBVIOUS
    <3> QED BY <3>1, <3>2, Names
  <2>4. PICK i \in DOMAIN e : e[i] = s[k]
    BY <1>2, <2>2, <2>3
  <2> QED BY <2>2, <2>4
<1>4. \A i \in DOMAIN e : e[i].file \in Pages => e[i].new = <<t>>
  BY <1>1, <1>2
<1>5. DOMAIN e \subseteq Nat \ {0}
  BY <1>2
<1> QED BY <1>3, <1>4, <1>5

LEMMA CoversKept ==
    ASSUME Types, Under, Rolls, Next, NEW n \in PlanIds, Covers(n)
    PROVE  Covers(n)'
<1> SUFFICES ASSUME NEW t, t = <<"forget", n>>
             PROVE  /\ txns'[t].state # "none" =>
                         /\ plans'[n].made
                         /\ \A p \in plans'[n].pages : \E i \in DOMAIN txns'[t].targets :
                              txns'[t].targets[i].file = p
                    /\ \A i \in DOMAIN txns'[t].targets :
                         txns'[t].targets[i].file \in Pages => txns'[t].targets[i].new = <<t>>
  BY DEF Covers
<1>1. VaultTypes /\ t \in Txns
  BY Names DEF Types
<1>2. /\ txns[t].state # "none" =>
           /\ plans[n].made
           /\ \A p \in plans[n].pages : \E i \in DOMAIN txns[t].targets : txns[t].targets[i].file = p
      /\ \A i \in DOMAIN txns[t].targets :
           txns[t].targets[i].file \in Pages => txns[t].targets[i].new = <<t>>
  BY DEF Covers
<1>3. CASE /\ txns'[t].targets = txns[t].targets
           /\ txns[t].state = "none" => txns'[t].state = "none"
  <2>1. txns'[t].state # "none" => plans'[n] = plans[n]
    BY <1>2, <1>3, PlansStay
  <2> QED BY <1>2, <1>3, <2>1
<1>4. CASE ForgetStart(n) /\ Stages(t, ForgetChanges(n))
  <2>1. plans[n].made /\ PlanHolds(n) /\ plans' = plans
    BY <1>4, StartDoes
  <2>2. txns'[t].targets = Effective(ForgetChanges(n))
    BY <1>1, <1>4, StagesDoes
  <2> QED BY <2>1, <2>2, StagedCovers
<1> QED BY <1>3, <1>4, ForgettingDoes

(* The pages that cite a session become fewer while it is forgotten. *)
StillCites(p, j) == files'[p] # <<>> /\ files'[p][1][1] = j

LEMMA UncitedThen ==
    ASSUME NEW j, j = plans'[forget'.plan].job, NEW s, s = Targets',
           roll'.at \in {"manifest", "validate", "apply"} =>
             \A p \in Pages : StillCites(p, j) => \E i \in DOMAIN s : s[i].file = p /\ i >= roll'.next,
           roll'.at \in {"receipt", "done"} => \A p \in Pages : ~StillCites(p, j)
    PROVE  Uncited'
BY DEF Uncited, Affected, Cites, StillCites

LEMMA UncitedNow ==
    ASSUME Uncited, forget.at # "idle", NEW j, j = plans[forget.plan].job, NEW s, s = Targets
    PROVE  /\ roll.at \in {"manifest", "validate", "apply"} =>
                \A p \in Pages : Cites(p, j) => \E i \in DOMAIN s : s[i].file = p /\ i >= roll.next
           /\ roll.at \in {"receipt", "done"} => \A p \in Pages : ~Cites(p, j)
BY DEF Uncited, Affected

(* Nothing that goes on beside a transaction adds a citation. *)
LEMMA UncitedStays ==
    ASSUME Types, Whose, Uncited, forget.at # "idle", forget'.plan = forget.plan,
           plans'[forget.plan] = plans[forget.plan],
           roll.txn' = roll.txn, roll.at' = roll.at, roll.next' = roll.next,
           txns'[roll.txn].targets = txns[roll.txn].targets,
           \A p \in Pages : files'[p] = files[p] \/ (files'[p] = Append(files[p], Human))
    PROVE  Uncited'
<1> SUFFICES ASSUME NEW j, j = plans[forget.plan].job, NEW s, s = Targets
             PROVE  Uncited'
  OBVIOUS
<1>1. j \in Jobs /\ j # "human"
  BY Names DEF Types, ForgetTypes, Whose, Plan
<1>2. Targets' = s
  BY DEF Targets
<1>3. ASSUME NEW p \in Pages, StillCites(p, j) PROVE Cites(p, j)
  <2>1. CASE files'[p] = files[p]
    BY <1>3, <2>1 DEF StillCites, Cites
  <2>2. CASE files'[p] = Append(files[p], Human)
    <3>1. files[p] \in Lines
      BY FileTypes DEF Types
    <3>2. CASE files[p] = <<>>
      <4>1. files'[p][1] = Human
        BY <2>2, <3>2
      <4>2. files'[p][1][1] = "human"
        BY <4>1 DEF Human
      <4> QED BY <1>1, <1>3, <4>2 DEF StillCites
    <3>3. CASE files[p] # <<>>
      <4>1. files'[p][1] = files[p][1]
        BY <2>2, <3>1, <3>3 DEF Lines
      <4> QED BY <1>3, <3>3, <4>1 DEF StillCites, Cites
    <3> QED BY <3>2, <3>3
  <2> QED BY <1>3, <2>1, <2>2
<1> QED BY <1>2, <1>3, UncitedNow, UncitedThen

LEMMA UncitedForward ==
    ASSUME Types, Under, Rolls, Whose, Uncited, Covers(forget.plan), forget.at # "idle", RollForward,
           UNCHANGED <<flowVars, forgetVars>>
    PROVE  Uncited'
<1> SUFFICES ASSUME NEW j, j = plans[forget.plan].job, NEW s, s = Targets,
                    NEW n, n = forget.plan, NEW t, t = <<"forget", n>>
             PROVE  Uncited'
  OBVIOUS
<1>1. /\ VaultTypes /\ n \in PlanIds /\ roll.txn = t /\ t \in Txns
      /\ roll.next \in Nat /\ j \in Jobs /\ j # "forget"
  BY Names DEF Types, VaultTypes, ForgetTypes, Whose, Plan, Roll
<1>2. Targets' = s /\ s = txns[t].targets /\ forget' = forget /\ plans' = plans
  BY <1>1, ForwardFrom, ForwardTargets DEF Targets, forgetVars
<1>3. s \in Seq(TargetRec)
  BY <1>1, <1>2, TargetTypes
<1>4. \A i \in DOMAIN s : s[i].file \in Pages => s[i].new = <<t>>
  BY <1>2 DEF Covers
<1>5. CASE roll.at \in {"manifest", "validate"} /\ roll.at' \in {"validate", "apply"}
           /\ roll.next' = roll.next /\ UNCHANGED files
  <2>1. \A p \in Pages : StillCites(p, j) => Cites(p, j)
    BY <1>5 DEF StillCites, Cites
  <2> QED BY <1>2, <1>5, <2>1, UncitedNow, UncitedThen
<1>6. CASE roll.at = "apply" /\ roll.at' = "apply" /\ roll.next' = roll.next + 1 /\ Replace
  <2> DEFINE k == roll.next
  <2>1. /\ k \in DOMAIN s /\ files'[s[k].file] = s[k].new
        /\ \A f \in Files : f # s[k].file => files'[f] = files[f]
    BY <1>1, <1>6, ReplaceDoes
  <2> HIDE DEF k
  <2>2. ASSUME NEW p \in Pages, StillCites(p, j) PROVE \E i \in DOMAIN s : s[i].file = p /\ i >= k + 1
    <3>1. p # s[k].file
      <4>1. ASSUME p = s[k].file PROVE FALSE
        <5>1. files'[p] = <<t>>
          BY <1>4, <2>1, <4>1
        <5>2. <<t>>[1] = t /\ t[1] = "forget"
          OBVIOUS
        <5> QED BY <1>1, <2>2, <5>1, <5>2 DEF StillCites
      <4> QED BY <4>1
    <3>2. files'[p] = files[p]
      BY <2>1, <3>1, Names
    <3>3. Cites(p, j)
      BY <2>2, <3>2 DEF StillCites, Cites
    <3>4. PICK i \in DOMAIN s : s[i].file = p /\ i >= k
      BY <1>6, <3>3, UncitedNow DEF k
    <3>5. i # k /\ i \in Nat /\ k \in Nat
      BY <1>1, <1>3, <3>1, <3>4 DEF k
    <3> QED BY <3>4, <3>5
  <2>3. roll'.next = k + 1 /\ roll'.at = "apply"
    BY <1>6 DEF k
  <2> QED BY <1>2, <2>2, <2>3, UncitedThen
<1>7. CASE roll.at = "apply" /\ roll.at' = "receipt" /\ roll.next > Len(Targets) /\ UNCHANGED files
  <2>1. \A i \in DOMAIN s : ~(i >= roll.next)
    BY <1>1, <1>3, <1>7
  <2>2. \A p \in Pages : StillCites(p, j) => Cites(p, j)
    BY <1>7 DEF StillCites, Cites
  <2>3. \A p \in Pages : ~Cites(p, j)
    BY <1>7, <2>1, UncitedNow
  <2> QED BY <1>2, <1>7, <2>2, <2>3, UncitedThen
<1>8. CASE roll.at = "receipt" /\ roll.at' = "done" /\ UNCHANGED files
  <2>1. \A p \in Pages : StillCites(p, j) => Cites(p, j)
    BY <1>8 DEF StillCites, Cites
  <2> QED BY <1>2, <1>8, <2>1, UncitedNow, UncitedThen
<1>9. CASE roll.at' = "failed"
  BY <1>2, <1>9, UncitedThen
<1> QED BY <1>1, <1>5, <1>6, <1>7, <1>8, <1>9, ForwardDoes

LEMMA UncitedStart ==
    ASSUME Types, Under, Rolls, NEW n \in PlanIds, Covers(n), ForgetStart(n)
    PROVE  Uncited'
<1> SUFFICES ASSUME NEW t, t = <<"forget", n>>, NEW j, j = plans[n].job, NEW s, s = Targets'
             PROVE  Uncited'
  OBVIOUS
<1>1. /\ forget' = [plan |-> n, at |-> "rolling"] /\ roll'.txn = t /\ UNCHANGED <<plans, files>>
      /\ PlanHolds(n)
      /\ \/ BeginFails(t) /\ roll'.at = "failed"
         \/ Loads(t) /\ roll'.at = "validate" /\ roll'.next = 1
         \/ Stages(t, ForgetChanges(n)) /\ roll'.at = "manifest" /\ roll'.next = 1
  BY StartDoes
<1>2. VaultTypes /\ t \in Txns /\ s = txns'[t].targets /\ j = plans'[forget'.plan].job
  BY <1>1, Names DEF Types, Targets
<1>3. \A p \in Pages : StillCites(p, j) => p \in plans[n].pages
  BY <1>1 DEF StillCites, PlanHolds, Affected, Cites
<1>4. CASE roll'.at = "failed"
  BY <1>2, <1>4, UncitedThen
<1>5. CASE Loads(t) /\ roll'.at = "validate" /\ roll'.next = 1
  <2>1. s = txns[t].targets /\ txns[t].state # "none"
    BY <1>2, <1>5 DEF Loads
  <2>2. s \in Seq(TargetRec)
    BY <1>2, <2>1, TargetTypes
  <2>3. \A i \in DOMAIN s : i >= 1
    BY <2>2
  <2>4. \A p \in plans[n].pages : \E i \in DOMAIN s : s[i].file = p
    BY <2>1 DEF Covers
  <2> QED BY <1>2, <1>3, <1>5, <2>3, <2>4, UncitedThen
<1>6. CASE Stages(t, ForgetChanges(n)) /\ roll'.at = "manifest" /\ roll'.next = 1
  <2>1. s = Effective(ForgetChanges(n))
    BY <1>2, <1>6, StagesDoes
  <2>2. /\ \A p \in plans[n].pages : \E i \in DOMAIN s : s[i].file = p
        /\ \A i \in DOMAIN s : i >= 1
    BY <1>1, <2>1, StagedCovers
  <2> QED BY <1>2, <1>3, <1>6, <2>2, UncitedThen
<1> QED BY <1>1, <1>4, <1>5, <1>6

LEMMA UncitedKept ==
    ASSUME Types, Under, Rolls, Whose, Forgets, Next
    PROVE  Uncited'
<1>1. VaultTypes /\ ForgetTypes /\ Uncited /\ \A n \in PlanIds : Covers(n)
  BY DEF Types, Forgets
<1>2. CASE forget'.at = "idle"
  BY <1>2 DEF Uncited
<1>3. ASSUME NEW n \in PlanIds, ForgetStart(n) PROVE Uncited'
  BY <1>1, <1>3, UncitedStart
<1>4. CASE forget'.at # "idle" /\ forget.at # "idle"
  <2>1. forget.plan \in PlanIds /\ lease = "maintenance"
    BY <1>1, <1>4 DEF Whose, ForgetTypes
  <2>2. CASE RollForward /\ UNCHANGED <<flowVars, forgetVars>>
    BY <1>1, <1>4, <2>1, <2>2, UncitedForward
  <2>3. CASE DriverNext /\ UNCHANGED forgetVars
    <3>1. UNCHANGED <<files, roll, txns, forget, plans>>
      BY <2>1, <2>3, DriverLeaves DEF forgetVars
    <3> QED BY <1>1, <1>4, <3>1, UncitedStays
  <2>4. ASSUME NEW f \in Files, HumanEdit(f), UNCHANGED forgetVars PROVE Uncited'
    <3>1. /\ \A p \in Pages : files'[p] = files[p] \/ files'[p] = Append(files[p], Human)
          /\ roll.txn' = roll.txn /\ roll.at' = roll.at /\ roll.next' = roll.next
          /\ UNCHANGED <<txns, forget, plans>>
      <4>1. f = Index => \A p \in Pages : files'[p] = files[p]
        BY <1>1, <2>4, EditDoes, Names
      <4> QED BY <1>1, <2>4, <4>1, EditDoes, Names DEF forgetVars
    <3> QED BY <1>1, <1>4, <3>1, UncitedStays
  <2>5. CASE ForgetTombstone \/ ForgetEvents \/ ForgetMetadata
    <3>1. CASE ForgetTombstone
      <4>1. forget' = [forget EXCEPT !.at = "events"] /\ UNCHANGED <<lease, roll, files, txns, plans>>
        BY <1>4, <3>1 DEF ForgetTombstone, Idle
      <4>2. forget'.plan = forget.plan
        BY <1>1, <4>1 DEF ForgetTypes
      <4> QED BY <1>1, <1>4, <4>1, <4>2, UncitedStays
    <3>2. CASE ForgetEvents \/ ForgetMetadata
      <4>1. forget'.plan = forget.plan /\ UNCHANGED <<roll, files, txns, plans>>
        BY <1>1, <3>2 DEF ForgetEvents, ForgetMetadata, Delete, txnVars, ForgetTypes
      <4> QED BY <1>1, <1>4, <4>1, UncitedStays
    <3> QED BY <2>5, <3>1, <3>2
  <2>6. CASE \/ \E n \in PlanIds, j \in Jobs : PlanForget(n, j)
             \/ ForgetRefused \/ ForgetFinish \/ \E t \in Txns : Repair(t)
             \/ RepairEnds \/ MaintenanceCrash
    BY <1>4, <2>1, <2>6 DEF PlanForget, ForgetRefused, ForgetFinish, Repair, RepairTransaction, Begin,
                            RepairEnds, MaintenanceCrash, Idle
  <2> QED BY <1>3, <2>2, <2>3, <2>4, <2>5, <2>6 DEF Next
<1>5. CASE forget'.at # "idle" /\ forget.at = "idle" /\ ~\E n \in PlanIds : ForgetStart(n)
  BY <1>5 DEF Next, forgetVars, PlanForget, ForgetTombstone, ForgetRefused, ForgetEvents, ForgetMetadata,
              Delete, ForgetFinish, Repair, RepairEnds, MaintenanceCrash, Idle
<1> QED BY <1>2, <1>3, <1>4, <1>5

LEMMA ForgetsKept ==
    ASSUME Types, Under, Rolls, Whose, Forgets, Next
    PROVE  Forgets'
<1>1. \A n \in PlanIds : Covers(n)'
  BY CoversKept DEF Forgets
<1> QED BY <1>1, UncitedKept DEF Forgets

-----------------------------------------------------------------------------
(* The invariant holds, and what the runs check follows from it. *)

LEMMA InitTypes == Init => Types
<1> SUFFICES ASSUME Init PROVE Types
  OBVIOUS
<1>1. <<>> \in Lines /\ <<>> \in Contents /\ {} \in Contents
  BY DEF Lines, Contents
<1>2. VaultTypes
  <2>1. files = [f \in Files |-> IF f = Index THEN {} ELSE <<>>]
    BY DEF Init, TransactionInit
  <2>2. files \in [Files -> Contents] /\ \A f \in Files : IsContent(f, files[f])
    BY <1>1, <2>1 DEF IsContent, Lines
  <2>3. NoTransaction \in TxnRec /\ NoTransaction.targets = <<>>
    BY DEF NoTransaction, TxnRec
  <2>4. txns = [t \in Txns |-> NoTransaction]
    BY DEF Init, TransactionInit
  <2>5. txns \in [Txns -> TxnRec] /\ \A t \in Txns : txns[t].targets = <<>>
    BY <2>3, <2>4
  <2>6. trouble \in 0..MaxTrouble
    BY NaturalBounds DEF Init, TransactionInit
  <2> QED BY <2>2, <2>5, <2>6, NoRollType DEF Init, TransactionInit, VaultTypes, Holders
<1>3. JobTypes
  <2>1. EmptyJournal \in Jrn
    <3>1. Nothing \in Gen
      BY NothingType
    <3>2. [b \in Bindings |-> [a \in Attempts |-> Nothing]] \in [Bindings -> [Attempts -> Gen]]
      BY <3>1
    <3>3. <<>> \in Seq(Rec)
      OBVIOUS
    <3> QED BY <3>2, <3>3 DEF EmptyJournal, Jrn
  <2>2. [j \in Jobs |-> [x \in Bindings \X Attempts |-> 0]] \in [Jobs -> [Bindings \X Attempts -> 0..2]]
    OBVIOUS
  <2>3. NoReceipt \in Rec /\ NoRun \in Run /\ NoRun.at = "idle"
    BY NoRunType
  <2> QED BY <2>1, <2>2, <2>3 DEF Init, WorkflowInit, JobTypes
<1>4. ForgetTypes
  <2>1. [p \in Pages |-> <<>>] \in [Pages -> Lines]
    BY <1>1
  <2>2. Unmade \in Plan
    BY <2>1, Somebody DEF Unmade, Plan
  <2> QED BY <2>2 DEF Init, ForgetTypes, Idle
<1> QED BY <1>2, <1>3, <1>4 DEF Types

LEMMA InitHolds == Init => IInv
<1> SUFFICES ASSUME Init PROVE IInv
  OBVIOUS
<1>1. Types
  BY InitTypes
<1>2. /\ roll.at = "none" /\ roll.next = 1 /\ run.at = "idle" /\ forget.at = "idle"
      /\ \A t \in Txns : txns[t] = NoTransaction
      /\ files[Log] = <<>>
      /\ \A j \in Jobs : journal[j] = EmptyJournal
      /\ \A j \in Jobs, x \in Bindings \X Attempts : calls[j][x] = 0
  BY Names, NoRunType DEF Init, TransactionInit, WorkflowInit, NoRoll, Idle
<1>3. \A t \in Txns : /\ txns[t].state = "none" /\ txns[t].targets = <<>> /\ txns[t].receipt = FALSE
                      /\ DOMAIN txns[t].targets = {}
  BY <1>2 DEF NoTransaction
<1>4. Rolls /\ Passed
  BY <1>2, <1>3 DEF Rolls, Passed, Apart
<1>5. LogIsClean
  BY <1>2, <1>3 DEF LogIsClean, Once, Writes
<1>6. Whose
  BY <1>2 DEF Whose
<1>7. Receipts
  <2>1. ASSUME NEW j \in Jobs PROVE JobHonest(j)
    <3>1. journal[j].receipts = <<>>
      BY <1>2 DEF EmptyJournal
    <3>2. \A x \in Bindings \X Attempts : calls[j][x] = 0
      BY <1>2
    <3> QED BY <3>1, <3>2 DEF JobHonest, Started, OpenTo
  <2> QED BY <1>2, <2>1 DEF Receipts, RunHonest
<1>8. Forgets
  BY <1>2, <1>3, Names DEF Forgets, Covers, Uncited
<1> QED BY <1>1, <1>4, <1>5, <1>6, <1>7, <1>8 DEF IInv

LEMMA StepHolds == IInv /\ [Next]_vars => IInv'
<1> SUFFICES ASSUME IInv, [Next]_vars PROVE IInv'
  OBVIOUS
<1>1. CASE Next
  <2>1. Types /\ Rolls /\ Passed /\ LogIsClean /\ Whose /\ Receipts /\ Forgets /\ Under
    BY DEF IInv, Rolls, Under
  <2>2. Types'
    BY <1>1, <2>1, VaultTypesKept, JobTypesKept, ForgetTypesKept DEF Types
  <2> QED BY <1>1, <2>1, <2>2, RollsKept, PassedKept, LogKept, WhoseKept, ReceiptsKept, ForgetsKept DEF IInv
<1>2. CASE UNCHANGED vars
  <2>1. UNCHANGED <<files, txns, lease, roll, trouble, durable, evidence, journal, torn, receiptFile,
                    run, calls, plans, tombs, forget>>
    BY <1>2 DEF vars, txnVars, flowVars, forgetVars
  <2>2. Types'
    BY <2>1 DEF IInv, Types, VaultTypes, JobTypes, ForgetTypes
  <2>3. Rolls'
    BY <2>1 DEF IInv, Rolls
  <2>4. Passed'
    BY <2>1 DEF IInv, Passed, Apart, Targets, Is
  <2>5. LogIsClean' /\ Whose' /\ Forgets'
    <3>1. LogIsClean'
      <4>1. Once(files[Log])' /\ \A t \in Txns : Writes(t, files'[Log]) => Applied(t)'
        BY <2>1 DEF IInv, LogIsClean, Once, Applied
      <4>2. ASSUME NEW u \in Txns, NEW i \in DOMAIN txns[u].targets, NEW x, x = txns[u].targets[i],
                   x.file = Log
            PROVE  Once(x.new) /\ \A t \in Txns : Writes(t, x.new) => t = u \/ Applied(t)'
        BY <2>1, <4>2 DEF IInv, LogIsClean, Applied
      <4>3. ASSUME NEW u \in Txns, NEW i \in DOMAIN txns'[u].targets,
                   txns'[u].targets[i].file = Log
            PROVE  /\ Once(txns'[u].targets[i].new)
                   /\ \A t \in Txns : Writes(t, txns'[u].targets[i].new) => t = u \/ Applied(t)'
        BY <2>1, <4>2, <4>3
      <4> QED BY <4>1, <4>3, Zenon DEF LogIsClean
    <3>2. Whose'
      BY <2>1 DEF IInv, Whose
    <3>3. Forgets'
      BY <2>1 DEF IInv, Forgets, Covers, Uncited, Affected, Cites, Targets
    <3> QED BY <3>1, <3>2, <3>3
  <2>6. Receipts'
    <3>1. \A j, r : Backed(j, r) => StillBacked(j, r)
      BY <2>1 DEF Backed, StillBacked
    <3>2. ASSUME NEW j \in Jobs PROVE JobHonest(j)'
      <4>1. JobHonest(j) /\ Started(j)' /\ Latest(j)' = Latest(j)
        BY <2>1 DEF IInv, Receipts, JobHonest, Started, Latest
      <4>2. /\ \A i \in 1..(Len(journal[j].receipts) - 1) : journal[j].receipts[i].outcome = "Pending"
            /\ \A i \in DOMAIN journal[j].receipts : StillBacked(j, journal[j].receipts[i])
            /\ journal[j].receipts # <<>> /\ Latest(j).outcome # "Pending" => receiptFile[j] = Latest(j)
        BY <3>1, <4>1 DEF JobHonest, OpenTo
      <4> QED BY <2>1, <4>1, <4>2, JobThen
    <3>3. RunHonest'
      <4> SUFFICES ASSUME NEW j, j = run.job, NEW r, r = run.receipt PROVE RunHonest'
        OBVIOUS
      <4>1. run.at \in {"receipt", "record"} => StillBacked(j, r)
        BY <3>1 DEF IInv, Receipts, RunHonest
      <4> QED BY <2>1, <4>1 DEF IInv, Receipts, RunHonest, Backed, StillBacked, OpenTo
    <3> QED BY <3>2, <3>3 DEF Receipts
  <2> QED BY <2>2, <2>3, <2>4, <2>5, <2>6 DEF IInv
<1> QED BY <1>1, <1>2

LEMMA Invariance == Spec => []IInv
BY InitHolds, StepHolds, PTL DEF Spec

LEMMA AtMostOne ==
    ASSUME NEW x, NEW T \in SUBSET {x}
    PROVE  Cardinality(T) <= 1
<1>1. IsFiniteSet({x}) /\ Cardinality({x}) = 1
  BY FS_Singleton
<1> QED BY <1>1, FS_Subset

(* Every variable keeps to its type, and only the holder of the lease is in   *)
(* the middle of a transaction: the vault, its transactions and the journals  *)
(* of the jobs, over every edit, crash and failure.                           *)
THEOREM TypeCorrect == Spec => []TypeOK
<1>1. IInv => TypeOK
  <2> SUFFICES ASSUME IInv PROVE TypeOK
    OBVIOUS
  <2>1. VaultTypes /\ JobTypes /\ ForgetTypes
    BY DEF IInv, Types
  <2>2. TransactionTypeOK
    BY <2>1 DEF VaultTypes, TransactionTypeOK, IsTransaction, TxnRec
  <2>3. \A r \in Rec : IsReceipt(r)
    BY DEF Rec, IsReceipt
  <2>4. \A g \in Gen : IsGeneration(g)
    BY Names DEF Gen, IsGeneration, Kinds, IsContent, Lines
  <2>5. \A x \in Jrn : IsJournal(x)
    BY <2>3, <2>4 DEF Jrn, IsJournal
  <2>6. WorkflowTypeOK
    BY <2>1, <2>3, <2>5 DEF JobTypes, WorkflowTypeOK, Run
  <2>7. \A x \in Plan : IsPlan(x)
    BY Names DEF Plan, IsPlan, IsContent, Lines
  <2> QED BY <2>1, <2>2, <2>6, <2>7 DEF ForgetTypes, TypeOK
<1> QED BY <1>1, Invariance, PTL

(* Over crashes, restarts, repairs and a change of the model, the model is    *)
(* called at most once for each attempt of each binding, and what a job says  *)
(* became of it is so: one final receipt, the same in journal and file, and   *)
(* "synthesized" only with the patch committed (append_receipt, run_job).     *)
THEOREM JobsAreTruthful == Spec => []JobsTruthful
<1>1. IInv => JobsTruthful
  <2> SUFFICES ASSUME IInv, NEW j \in Jobs, NEW s, s = journal[j].receipts,
                      NEW final, final = {i \in DOMAIN s : s[i].outcome # "Pending"}
               PROVE  /\ \A x \in Bindings \X Attempts : calls[j][x] <= 1
                      /\ Cardinality(final) <= 1
                      /\ \A i \in final :
                           /\ i = Len(s) /\ receiptFile[j] = s[i]
                           /\ s[i].outcome = "Synthesized" =>
                                txns[<<j, s[i].binding>>].state = "committed" /\ txns[<<j, s[i].binding>>].receipt
                           /\ s[i].outcome = "NoOp" => \A x \in Bindings \X Attempts : calls[j][x] = 0
    BY DEF JobsTruthful
  <2>1. Types /\ Rolls /\ JobHonest(j) /\ Started(j)
    BY DEF IInv, Receipts, JobHonest
  <2>2. /\ s \in Seq(Rec) /\ DOMAIN s = 1..Len(s) /\ Len(s) \in Nat
        /\ s # <<>> => Latest(j) = s[Len(s)]
    BY <2>1, LatestIs
  <2>3. \A x \in Bindings \X Attempts : calls[j][x] <= 1
    BY <2>1 DEF Started
  <2>4. /\ \A i \in 1..(Len(s) - 1) : s[i].outcome = "Pending"
        /\ \A i \in DOMAIN s : Backed(j, s[i])
        /\ s # <<>> /\ Latest(j).outcome # "Pending" => receiptFile[j] = Latest(j)
    BY <2>1 DEF JobHonest, OpenTo
  <2>5. final \in SUBSET {Len(s)}
    <3>1. ASSUME NEW i \in DOMAIN s, i # Len(s) PROVE i \in 1..(Len(s) - 1)
      BY <2>2, <3>1
    <3> QED BY <2>4, <3>1
  <2>6. Cardinality(final) <= 1
    BY <2>5, AtMostOne
  <2>7. ASSUME NEW i \in final
        PROVE  /\ i = Len(s) /\ receiptFile[j] = s[i]
               /\ s[i].outcome = "Synthesized" =>
                    txns[<<j, s[i].binding>>].state = "committed" /\ txns[<<j, s[i].binding>>].receipt
               /\ s[i].outcome = "NoOp" => \A x \in Bindings \X Attempts : calls[j][x] = 0
    <3>1. i = Len(s) /\ i \in DOMAIN s /\ s[i].outcome # "Pending" /\ Backed(j, s[i])
      BY <2>4, <2>5
    <3>2. receiptFile[j] = s[i]
      BY <2>2, <2>4, <3>1
    <3>3. ASSUME s[i].outcome = "Synthesized"
          PROVE  txns[<<j, s[i].binding>>].state = "committed" /\ txns[<<j, s[i].binding>>].receipt
      <4>1. s[i].binding \in Bindings /\ txns[<<j, s[i].binding>>].receipt
        BY <3>1, <3>3 DEF Backed
      <4>2. <<j, s[i].binding>> \in Txns
        BY <4>1, Names
      <4> QED BY <2>1, <4>1, <4>2 DEF Rolls
    <3>4. s[i].outcome = "NoOp" => \A x \in Bindings \X Attempts : calls[j][x] = 0
      BY <2>1, <3>1 DEF Backed, Started
    <3> QED BY <3>1, <3>2, <3>3, <3>4
  <2> QED BY <2>3, <2>6, <2>7
<1> QED BY <1>1, Invariance, PTL

(* Over crashes, failures and recoveries a transaction that is called         *)
(* committed has replaced every target, or a human has come in between; no    *)
(* line of the log is written twice; and what is replaced is what the         *)
(* transaction was prepared against, or an edit made after it had checked     *)
(* (validate_prepared and apply in transaction.rs).                           *)
THEOREM CommitsAreWhole == Spec => CommitsWhole
<1>1. IInv => Whole
  <2> SUFFICES ASSUME IInv PROVE Whole
    OBVIOUS
  <2>1. VaultTypes /\ Passed /\ Once(files[Log])
    BY DEF IInv, Types, LogIsClean
  <2>2. ASSUME NEW t \in Txns PROVE Occurrences(t) <= 1
    <3> DEFINE at == {i \in DOMAIN files[Log] : files[Log][i] = t}
    <3>1. \E i : at \in SUBSET {i}
      <4>1. \A i \in at, k \in at : i = k
        BY <2>1 DEF Once
      <4> HIDE DEF at
      <4> QED BY <4>1
    <3> HIDE DEF at
    <3>2. Cardinality(at) <= 1
      BY <3>1, AtMostOne
    <3> QED BY <3>2 DEF at, Occurrences
  <2>3. roll.at = "receipt" =>
          \A i \in DOMAIN Targets :
            files[Targets[i].file] = Targets[i].new \/ Targets[i].file \in roll.dirty
    BY <2>1 DEF Passed, Is
  <2> QED BY <2>2, <2>3 DEF Whole
<1> DEFINE Keeps == \A f \in Files :
                      files'[f] # files[f] /\ trouble' = trouble =>
                        \/ f \in roll.dirty
                        \/ \E i \in DOMAIN Targets : Targets[i].file = f /\ Targets[i].old = files[f]
<1>2. IInv /\ [Next]_vars => [Keeps]_txnVars
  <2> SUFFICES ASSUME IInv, Next, NEW f \in Files, files'[f] # files[f], trouble' = trouble
               PROVE  \/ f \in roll.dirty
                      \/ \E i \in DOMAIN Targets : Targets[i].file = f /\ Targets[i].old = files[f]
    BY DEF vars, txnVars
  <2>1. Types /\ VaultTypes /\ Rolls /\ Under /\ Passed
    BY DEF IInv, Types, Rolls, Under
  <2>2. CASE RollForward
    <3>1. roll.at = "apply" /\ Replace
      BY <2>1, <2>2, ForwardDoes
    <3> DEFINE k == roll.next
    <3>2. /\ k \in DOMAIN Targets /\ files'[Targets[k].file] = Targets[k].new
          /\ \A g \in Files : g # Targets[k].file => files'[g] = files[g]
      BY <2>1, <3>1, ReplaceDoes
    <3>3. f = Targets[k].file /\ files[f] # Targets[k].new
      BY <3>2
    <3>4. Is(Targets[k], {Targets[k].new} \cup IF k < roll.next THEN {} ELSE {Targets[k].old})
      BY <2>1, <3>1, <3>2 DEF Passed
    <3> HIDE DEF k
    <3>5. files[f] = Targets[k].old \/ f \in roll.dirty
      BY <3>3, <3>4 DEF Is
    <3> QED BY <3>2, <3>3, <3>5
  <2>3. CASE \E g \in Files : HumanEdit(g)
    <3>1. trouble \in Nat /\ trouble' = trouble - 1
      BY <2>1, <2>3, NaturalBounds DEF HumanEdit, Trouble, VaultTypes
    <3> QED BY <3>1
  <2>4. CASE Quiet \/ Drops \/ \E who \in {"driver", "maintenance"}, t \in Txns : \E s : Starts(who, t, s)
    BY <2>1, <2>4, BeginDoes DEF Quiet, Drops, Starts
  <2> QED BY <2>1, <2>2, <2>3, <2>4, Moves
<1>3. IInv /\ [Next]_vars => [\A f \in Files :
                      files'[f] # files[f] /\ trouble' = trouble =>
                        \/ f \in roll.dirty
                        \/ \E i \in DOMAIN Targets : Targets[i].file = f /\ Targets[i].old = files[f]]_txnVars
  BY <1>2
<1>4. Spec => []Whole
  BY <1>1, Invariance, PTL
<1>5. Spec => KeepsEdits
  BY <1>3, Invariance, PTL DEF Spec, KeepsEdits
<1> QED BY <1>4, <1>5, PTL DEF CommitsWhole

(* Evidence is touched only when the transaction that removes its citations   *)
(* has its receipt and a tombstone is left; and when the tombstone says       *)
(* forgotten, the evidence is gone and no page cites it (forget.rs).          *)
THEOREM ForgettingIsThorough == Spec => ForgetIsThorough
<1> DEFINE Touched == \A j \in Jobs : evidence'[j] # evidence[j] =>
                        \E n \in PlanIds : plans[n].job = j /\ tombs[n] = "prepared" /\ txns[<<"forget", n>>].receipt
           Closed == \A n \in PlanIds : tombs'[n] = "forgotten" /\ tombs[n] # "forgotten" =>
                       evidence[plans[n].job] = "gone" /\ Affected(plans[n].job) = {}
<1>1. IInv /\ Next => Touched
  <2> SUFFICES ASSUME IInv, Next, NEW j \in Jobs, evidence'[j] # evidence[j]
               PROVE  \E n \in PlanIds : plans[n].job = j /\ tombs[n] = "prepared" /\ txns[<<"forget", n>>].receipt
    OBVIOUS
  <2>1. Types /\ Rolls /\ Whose /\ JobTypes
    BY DEF IInv, Types
  <2>2. ForgetEvents \/ ForgetMetadata
    <3>1. ~DriverNext
      BY <2>1, DriverLeaves
    <3> QED BY <3>1 DEF Next, flowVars, PlanForget, ForgetStart, ForgetTombstone, ForgetRefused, ForgetFinish,
                        Repair, RepairEnds, MaintenanceCrash
  <2>3. /\ forget.at \in {"events", "metadata"}
        /\ \E left : evidence' = [evidence EXCEPT ![plans[forget.plan].job] = left]
    BY <2>2 DEF ForgetEvents, ForgetMetadata, Delete
  <2>4. j = plans[forget.plan].job
    BY <2>1, <2>3 DEF JobTypes
  <2>5. forget.plan \in PlanIds /\ tombs[forget.plan] = "prepared" /\ txns[<<"forget", forget.plan>>].receipt
    BY <2>1, <2>3 DEF Whose, Rolls
  <2> QED BY <2>4, <2>5
<1>2. IInv /\ Next => Closed
  <2> SUFFICES ASSUME IInv, Next, NEW n \in PlanIds, tombs'[n] = "forgotten", tombs[n] # "forgotten"
               PROVE  evidence[plans[n].job] = "gone" /\ Affected(plans[n].job) = {}
    OBVIOUS
  <2>1. ForgetTypes /\ Whose /\ Uncited
    BY DEF IInv, Types, Forgets
  <2>2. ForgetTombstone \/ ForgetFinish
    BY DEF Next, forgetVars, PlanForget, ForgetStart, ForgetRefused, ForgetEvents, ForgetMetadata, Delete,
           Repair, RepairEnds, MaintenanceCrash
  <2>3. ForgetFinish
    BY <2>1, <2>2 DEF ForgetTombstone, ForgetTypes
  <2>4. forget.at = "finish" /\ n = forget.plan
    BY <2>1, <2>3 DEF ForgetFinish, ForgetTypes
  <2> QED BY <2>1, <2>4 DEF Whose, Uncited
<1>3. IInv /\ [Next]_vars => [Touched /\ Closed]_vars
  BY <1>1, <1>2
<1>4. IInv /\ [Next]_vars =>
        [/\ \A j \in Jobs : evidence'[j] # evidence[j] =>
              \E n \in PlanIds : plans[n].job = j /\ tombs[n] = "prepared" /\ txns[<<"forget", n>>].receipt
         /\ \A n \in PlanIds : tombs'[n] = "forgotten" /\ tombs[n] # "forgotten" =>
              evidence[plans[n].job] = "gone" /\ Affected(plans[n].job) = {}]_vars
  BY <1>3
<1> QED BY <1>4, Invariance, PTL DEF Spec, ForgetIsThorough
=============================================================================
