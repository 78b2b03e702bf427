------------------------------- MODULE Discovery -------------------------------
(* Capability discovery: the searches of cli/src/index.rs over the catalogs   *)
(* of projects, Skills and MCP servers, the wiki and the builtin commands,    *)
(* with the retrieval crate's exact and BM25 baseline, the embedding helper   *)
(* that may reorder it, and the two ways a user gets at them: a command and   *)
(* an agent's prompt.                                                         *)
(*                                                                            *)
(* Abstractions.  A card is its kind and a number, in the order of the ids;   *)
(* whether the query is one of its exact keys; the BM25 score it has for the  *)
(* query, 0 standing for one too low to be useful; and the first thing wrong  *)
(* with its fields.  Hashing is injective: the fingerprint of a catalog is    *)
(* the sequence of its cards.  The difference of two ranks outweighs every    *)
(* score, as 1e-9 times a BM25 score does in the code.  The helper is         *)
(* external and may answer anything at any time.                              *)
EXTENDS ToolPolicy, SequencesExt

CONSTANTS MaxCards,          \* MAX_CARDS_PER_CATALOG
          CandidateLimit     \* BM25_CANDIDATE_LIMIT

ASSUME MaxCardsAssumption == MaxCards \in Nat \ {0}
ASSUME CandidateLimitAssumption == CandidateLimit \in Nat \ {0}

VARIABLES query,     \* what is asked: the scope, the catalogs, the inventory, the resource
          stage,     \* how far the search has come
          helper,    \* the helper process: its state, whether it has read, whether its output stays open
          answer,    \* what it has written
          found      \* the response

searchVars == <<query, stage, helper, answer, found>>

KindOrder == <<"project", "skill", "mcp">>   \* the order of CapabilityKind
IdOrder == <<"mcp", "project", "skill">>     \* the order of the prefixes of the ids
Rank(order, x) == CHOOSE i \in DOMAIN order : order[i] = x

Id(card) == <<card.kind, card.n>>
IdBefore(a, b) == \/ Rank(IdOrder, a[1]) < Rank(IdOrder, b[1])
                  \/ a[1] = b[1] /\ a[2] < b[2]
Prefix(s, n) == SubSeq(s, 1, Min({n, Len(s)}))
-----------------------------------------------------------------------------
(* Catalogs: CapabilityCatalog.validate, ProjectCatalog.validate and          *)
(* CapabilityWorkspaceCatalog.from_slices.                                    *)
CardCheck(catalog, i) ==
  LET card == catalog.cards[i] IN
  Outcome(<< <<card.kind # catalog.kind, Failed("kind_mismatch")>>,
             <<card.defect = "invalid_card", Failed("invalid_card")>>,
             <<\E j \in 1..(i - 1) : Id(catalog.cards[j]) = Id(card), Failed("duplicate_card")>>,
             <<card.defect # "none", Failed(card.defect)>> >>)

CatalogCheck(catalog) ==
  Outcome(<< <<catalog.file = "unreadable", Failed("read")>>,
             <<catalog.file = "invalid_source", Failed("invalid_source")>>,
             <<catalog.scope = "projects" /\ catalog.cards = <<>>, Failed("empty_catalog")>>,
             <<Len(catalog.cards) > MaxCards, Failed("too_many_cards")>> >>
          \o [i \in DOMAIN catalog.cards |-> <<CardCheck(catalog, i) # Passed, CardCheck(catalog, i)>>]
          \o << <<catalog.fingerprint # catalog.cards, Failed("invalid_fingerprint")>> >>)

WorkspaceCheck(catalogs) ==
  LET all == FlattenSeq([k \in DOMAIN catalogs |-> catalogs[k].cards])
  IN Outcome([k \in DOMAIN catalogs |-> <<CatalogCheck(catalogs[k]) # Passed, CatalogCheck(catalogs[k])>>]
             \o << <<\E k \in DOMAIN catalogs : catalogs[k].kind # KindOrder[k], Failed("kind_mismatch")>>,
                   <<~IsInjective([i \in DOMAIN all |-> Id(all[i])]), Failed("duplicate_card")>> >>)

Fingerprint(catalogs) == [k \in DOMAIN catalogs |-> catalogs[k].fingerprint]
Cards(catalogs) == UNION {ToSet(catalogs[k].cards) : k \in DOMAIN catalogs}

(* CapabilityInventory: what is installed and what is authorised. *)
InventoryCheck(inventory, catalogs) ==
  Outcome(<< <<inventory.file = "unreadable", Failed("read")>>,
             <<~IsInjective(inventory.installed) \/ ~IsInjective(inventory.authorized), Failed("invalid_inventory")>>,
             <<~(ToSet(inventory.installed \o inventory.authorized) \subseteq {Id(c) : c \in Cards(catalogs)}),
               Failed("invalid_inventory")>> >>)

Readiness(card, inventory) ==
  IF ~card.bundled /\ Id(card) \notin ToSet(inventory.installed) THEN "NeedsInstall"
  ELSE IF card.asks /\ Id(card) \notin ToSet(inventory.authorized) THEN "NeedsAccess"
  ELSE "Ready"
-----------------------------------------------------------------------------
(* LexicalIndex: the first document one of whose exact keys is the query, or  *)
(* the best by score; only current wiki pages are searchable.                 *)
Indexed(catalog) == SelectSeq(catalog.cards, LAMBDA card : card.searchable)
Recalled(card, rank, mode) == [card |-> card, rank |-> rank, mode |-> mode]

LexicalSearch(catalog, limit) ==
  LET documents == Indexed(catalog)
      exact == SelectSeq(documents, LAMBDA card : card.key)
      useful == {card \in ToSet(documents) : card.score > 0}
      best == Prefix(SetToSortSeq(useful, LAMBDA a, b : \/ a.score > b.score
                                                        \/ a.score = b.score /\ IdBefore(Id(a), Id(b))), limit)
  IN IF limit = 0 THEN <<>>
     ELSE IF exact # <<>> THEN <<Recalled(exact[1], 1, "Exact")>>
     ELSE [i \in DOMAIN best |-> Recalled(best[i], i, "Bm25")]

(* CapabilityWorkspace.recall and the ordering at the head of discover, which *)
(* an index of its own (ProjectDiscovery, the wiki, the commands) does not    *)
(* need: its one list is in that order.                                       *)
Recall(catalogs, kinds) ==
  FlattenSeq([k \in DOMAIN catalogs |->
    IF catalogs[k].kind \in kinds THEN LexicalSearch(catalogs[k], CandidateLimit) ELSE <<>>])

Baseline(catalogs, kinds) ==
  LET all == ToSet(Recall(catalogs, kinds))
      exact == {r \in all : r.mode = "Exact"}
      kind(r) == Rank(KindOrder, r.card.kind)
      later(a, b) == kind(a) < kind(b) \/ (kind(a) = kind(b) /\ IdBefore(Id(a.card), Id(b.card)))
      better(a, b) == \/ a.rank < b.rank
                      \/ a.rank = b.rank /\ a.card.score > b.card.score
                      \/ a.rank = b.rank /\ a.card.score = b.card.score /\ later(a, b)
  IN Prefix(IF exact # {} THEN SetToSortSeq(exact, later) ELSE SetToSortSeq(all, better), CandidateLimit)

Mode(baseline) == IF baseline = <<>> THEN "Bm25" ELSE baseline[1].mode
BaselineIds(baseline) == [i \in DOMAIN baseline |-> Id(baseline[i].card)]
-----------------------------------------------------------------------------
(* The embedding resource: validate_embedding_resource.  Its manifest says    *)
(* for which catalogs its vectors are; a file may be missing, changed or      *)
(* outside; the helper must be one of the files.                              *)
ResourceCheck(resource, fingerprint) ==
  Outcome(<< <<resource.state \in {"none", "missing"}, Failed("EmbeddingMissing")>>,
             <<resource.state = "bad_manifest", Failed("InvalidManifest")>>,
             <<~resource.cpu, Failed("IncompatibleCpu")>>,
             <<resource.made_for # fingerprint, Failed("FingerprintMismatch")>>,
             <<resource.state = "bad_path", Failed("InvalidManifest")>>,
             <<resource.state = "changed_file", Failed("HashMismatch")>>,
             <<resource.state = "helper_unlisted", Failed("InvalidManifest")>> >>)

(* EmbeddingRequest.valid and the limit on its encoding. *)
RequestFits(q) == q.size # "too_large"

(* validate_embedding_output: the vectors must be for this request, of the    *)
(* right dimension, finite and not null, one for every candidate.             *)
AnswerCheck(a, ids) ==
  Outcome(<< <<"not_json" \in a.faults \/ "too_long" \in a.faults, Failed("MalformedVector")>>,
             <<"fingerprint" \in a.faults, Failed("FingerprintMismatch")>>,
             <<"dimension" \in a.faults, Failed("WrongDimension")>>,
             <<"not_finite" \in a.faults, Failed("NonFiniteVector")>>,
             <<ToSet(a.ids) # ToSet(ids) \/ ~IsInjective(a.ids), Failed("MalformedVector")>>,
             <<"null_vector" \in a.faults, Failed("MalformedVector")>> >>)

SemanticOrder(a) ==
  LET pairs == {<<a.ids[i], a.scores[i]>> : i \in DOMAIN a.ids}
      order == SetToSortSeq(pairs, LAMBDA x, y : x[2] > y[2] \/ (x[2] = y[2] /\ IdBefore(x[1], y[1])))
  IN [i \in DOMAIN order |-> order[i][1]]

(* reciprocal_rank_fusion of the two rankings, with the code's constant: the  *)
(* sum 1/l + 1/s compared as a fraction, ties in the order of the ids.        *)
Fuse(lexical, semantic) ==
  LET l(id) == 60 + Rank(lexical, id)
      s(id) == 60 + Rank(semantic, id)
      above(a, b) == (l(a) + s(a)) * l(b) * s(b) - (l(b) + s(b)) * l(a) * s(a)
  IN SetToSortSeq(ToSet(lexical), LAMBDA a, b : above(a, b) > 0 \/ (above(a, b) = 0 /\ IdBefore(a, b)))
-----------------------------------------------------------------------------
(* The searches.  A query has a scope: the workspace by command or prompt,    *)
(* the projects, the wiki, the commands, or a status.                         *)
Response(mode, reason, hits) == [mode |-> mode, reason |-> reason, hits |-> hits]
NoResponse == Response("none", "ok", <<>>)
NoQuery == [scope |-> "none"]
NoHelper == [state |-> "none", fed |-> FALSE, open |-> FALSE]
NoAnswer == [faults |-> {}, ids |-> <<>>, scores |-> <<>>]

Workspace(q) == q.scope \in {"workspace", "prompt", "workspace_status"}
Projects(q) == q.scope \in {"projects", "project_status"}
Status(q) == q.scope \in {"workspace_status", "project_status"}
Semantic(q) == q.scope \in {"workspace", "prompt", "projects"}

LoadCheck(q) ==
  Outcome(<< <<Workspace(q) /\ WorkspaceCheck(q.catalogs) # Passed, WorkspaceCheck(q.catalogs)>>,
             <<Projects(q) /\ CatalogCheck(q.catalogs[1]) # Passed, CatalogCheck(q.catalogs[1])>>,
             <<q.scope = "wiki" /\ q.catalogs[1].file = "unreadable", Failed("vault")>>,
             <<q.scope \in {"workspace", "prompt"} /\ InventoryCheck(q.inventory, q.catalogs) # Passed,
               InventoryCheck(q.inventory, q.catalogs)>> >>)

AskedBaseline(q) ==
  IF Semantic(q) THEN Baseline(q.catalogs, q.kinds) ELSE LexicalSearch(q.catalogs[1], q.limit)

HitOf(q, ids, i) ==
  LET card == CHOOSE c \in Cards(q.catalogs) : Id(c) = ids[i]
  IN [id |-> ids[i], readiness |-> Readiness(card, q.inventory)]
Hits(q, ids) == [i \in 1..Min({q.limit, Len(ids)}) |-> HitOf(q, ids, i)]

Answered(q, mode, reason, ids) ==
  /\ stage' = "done"
  /\ found' = Response(mode, reason, Hits(q, ids))

(* What a degraded search answers: the baseline as it is. *)
Degrade(reason) == Answered(query, "Bm25", reason, BaselineIds(AskedBaseline(query)))

StartSearch(Queries) ==
  /\ stage = "idle"
  /\ \E q \in Queries :
       LET baseline == AskedBaseline(q)
           resource == ResourceCheck(q.resource, Fingerprint(q.catalogs))
       IN /\ query' = q
          /\ IF q.scope = "prompt" /\ ~q.intent
             THEN stage' = "done" /\ UNCHANGED found
             ELSE IF LoadCheck(q) # Passed
             THEN stage' = "done" /\ found' = Response("error", LoadCheck(q).code, <<>>)
             ELSE IF Status(q) THEN Answered(q, "Bm25", resource.code, <<>>)
             ELSE IF ~Semantic(q) \/ Mode(baseline) = "Exact"
             THEN Answered(q, Mode(baseline), "ok", BaselineIds(baseline))
             ELSE IF baseline = <<>> \/ resource # Passed
             THEN Answered(q, "Bm25", resource.code, BaselineIds(baseline))
             ELSE stage' = "asking" /\ UNCHANGED found
  /\ UNCHANGED <<helper, answer>>

(* ProcessEmbeddingRunner.embed: the request is checked, the helper started.  *)
SpawnHelper ==
  /\ stage = "asking"
  /\ UNCHANGED <<query, answer>>
  /\ \/ ~RequestFits(query) /\ Degrade("MalformedVector") /\ UNCHANGED helper
     \/ RequestFits(query) /\ Degrade("HelperUnavailable") /\ UNCHANGED helper
     \/ /\ RequestFits(query)
        /\ stage' = "writing"
        /\ helper' = [state |-> "running", fed |-> FALSE, open |-> TRUE]
        /\ UNCHANGED found

(* The request is written with no deadline: a small one fits into the pipe, a *)
(* large one waits for the helper to read.  If the helper is gone the write   *)
(* fails, and dropping the child kills whatever is left.                      *)
WriteRequest ==
  /\ stage = "writing"
  /\ UNCHANGED <<query, answer>>
  /\ \/ /\ helper.fed \/ query.size = "small"
        /\ stage' = "waiting"
        /\ UNCHANGED <<helper, found>>
     \/ /\ helper.state # "running"
        /\ Degrade("HelperCrashed")
        /\ UNCHANGED helper

(* The helper's output has ended and it has been waited for. *)
CollectAnswer ==
  LET ids == BaselineIds(AskedBaseline(query)) IN
  /\ stage = "waiting"
  /\ helper.state \in {"succeeded", "failed"} /\ ~helper.open
  /\ UNCHANGED <<query, helper, answer>>
  /\ IF helper.state = "failed" THEN Degrade("HelperCrashed")
     ELSE IF AnswerCheck(answer, ids) # Passed THEN Degrade(AnswerCheck(answer, ids).code)
     ELSE Answered(query, "HybridVerified", "ok", Fuse(ids, SemanticOrder(answer)))

(* The deadline passes while the host reads and waits: it kills the helper.   *)
HelperDeadline ==
  /\ stage = "waiting"
  /\ helper' = IF helper.state = "running" THEN [helper EXCEPT !.state = "killed"] ELSE helper
  /\ Degrade("HelperTimeout")
  /\ UNCHANGED <<query, answer>>
-----------------------------------------------------------------------------
(* The helper: it reads, and it ends, well or badly, having written anything; *)
(* a process it leaves behind may keep its output open.                       *)
HelperReads ==
  /\ helper.state = "running" /\ ~helper.fed
  /\ helper' = [helper EXCEPT !.fed = TRUE]
  /\ UNCHANGED <<query, stage, answer, found>>

HelperAnswers(ids) ==
  LET shuffled == {ids, Reverse(ids)} \cup {Tail(ids), Append(ids, ids[1]), Append(Tail(ids), Last(ids))}
  IN {[faults |-> f, ids |-> s, scores |-> t] :
        f \in {{}}, s \in shuffled, t \in [1..(Len(ids) + 1) -> 1..2]}
     \cup {[faults |-> {f}, ids |-> ids, scores |-> [i \in DOMAIN ids |-> 1]] :
             f \in {"not_json", "too_long", "fingerprint", "dimension", "not_finite", "null_vector"}}

HelperEnds ==
  /\ helper.state = "running"
  /\ \E state \in {"succeeded", "failed"}, open \in BOOLEAN :
       helper' = [helper EXCEPT !.state = state, !.open = open]
  /\ answer' \in HelperAnswers(BaselineIds(AskedBaseline(query)))
  /\ UNCHANGED <<query, stage, found>>

SearchInit ==
  /\ query = NoQuery /\ stage = "idle"
  /\ helper = NoHelper /\ answer = NoAnswer
  /\ found = NoResponse

SearchNext(Queries) ==
  \/ StartSearch(Queries) \/ SpawnHelper \/ WriteRequest \/ CollectAnswer \/ HelperDeadline
  \/ HelperReads \/ HelperEnds
-----------------------------------------------------------------------------
Reasons == {"EmbeddingMissing", "InvalidManifest", "IncompatibleCpu", "FingerprintMismatch", "HashMismatch",
            "HelperUnavailable", "HelperCrashed", "HelperTimeout", "MalformedVector", "NonFiniteVector",
            "WrongDimension"}

(* Every variable has its type. *)
SearchTypeOK ==
  /\ stage \in {"idle", "asking", "writing", "waiting", "done"}
  /\ helper.state \in {"none", "running", "succeeded", "failed", "killed"}
  /\ helper.fed \in BOOLEAN /\ helper.open \in BOOLEAN
  /\ found.mode \in {"none", "error", "Exact", "Bm25", "HybridVerified"}
  /\ found.mode \in {"Exact", "HybridVerified"} => found.reason = "ok"
  /\ found.mode = "Bm25" => found.reason \in Reasons \cup {"ok"}

Asked(q) == {c \in Cards(q.catalogs) : c.searchable /\ (Semantic(q) => c.kind \in q.kinds)}
HitIds == [i \in DOMAIN found.hits |-> found.hits[i].id]
CardOf(id) == CHOOSE c \in Cards(query.catalogs) : Id(c) = id
Listed(card) == Id(card) \in ToSet(HitIds)
Above(a, b) == Listed(a) /\ (Listed(b) => Rank(HitIds, Id(a)) < Rank(HitIds, Id(b)))

(* A search lists each card at most once, of the kind asked, from catalogs    *)
(* that were sound, and none when it failed; what it calls ready needs        *)
(* neither installation nor access.                                           *)
HitsSound ==
  /\ IsInjective(HitIds) /\ Len(found.hits) <= query.limit
  /\ \A i \in DOMAIN found.hits :
       /\ CardOf(HitIds[i]) \in Asked(query) /\ CardOf(HitIds[i]).defect = "none"
       /\ found.hits[i].readiness = "Ready" =>
            LET card == CardOf(HitIds[i]) IN
            /\ card.bundled \/ Id(card) \in ToSet(query.inventory.installed)
            /\ card.asks => Id(card) \in ToSet(query.inventory.authorized)

(* If the query is the key of a card asked for, the answer is exact and every *)
(* hit has that key; otherwise within one kind no card is listed below a card *)
(* that scores less, or left out for it, unless the helper said so.           *)
LexicalSound ==
  IF \E c \in Asked(query) : c.key
  THEN /\ query.limit > 0 => found.mode = "Exact"
       /\ \A i \in DOMAIN HitIds : CardOf(HitIds[i]).key
       /\ helper = NoHelper
  ELSE /\ found.mode # "Exact"
       /\ \A i \in DOMAIN HitIds : CardOf(HitIds[i]).score > 0
       /\ found.mode = "Bm25" =>
            \A a, b \in Asked(query) : a.kind = b.kind /\ a.score > b.score /\ Listed(b) => Above(a, b)

(* A search that is over has left no helper running.  An exact answer asked   *)
(* none; an answer is called hybrid only if a helper that ended well, with    *)
(* vectors made for these catalogs, answered for exactly the candidates of    *)
(* the baseline, each once; and a degraded answer has the reason.             *)
HelperSound ==
  stage = "done" =>
    /\ helper.state # "running"
    /\ Semantic(query) =>
         LET ids == BaselineIds(AskedBaseline(query)) IN
         /\ found.mode = "Exact" => helper = NoHelper
         /\ found.mode = "Bm25" /\ ids # <<>> => found.reason \in Reasons
         /\ found.mode = "HybridVerified" =>
              /\ helper.state = "succeeded" /\ ~helper.open /\ answer.faults = {}
              /\ ToSet(answer.ids) = ToSet(ids) /\ IsInjective(answer.ids)
              /\ query.resource.cpu /\ query.resource.made_for = Fingerprint(query.catalogs)

(* In a hybrid answer no card comes after one that is behind it both in the   *)
(* baseline and for the helper; without the helper the answer is the baseline.*)
HybridSound ==
  LET ids == BaselineIds(AskedBaseline(query))
      behind(a, b) ==
        /\ Rank(ids, a) > Rank(ids, b)
        /\ answer.scores[Rank(answer.ids, a)] < answer.scores[Rank(answer.ids, b)]
  IN IF found.mode = "HybridVerified"
     THEN /\ Semantic(query) /\ query.resource.state = "ok"
          /\ Len(HitIds) = Min({query.limit, Len(ids)}) /\ ToSet(HitIds) \subseteq ToSet(ids)
          /\ \A i, j \in DOMAIN HitIds : i < j => ~behind(HitIds[i], HitIds[j])
          /\ \A x \in ToSet(ids) \ ToSet(HitIds), i \in DOMAIN HitIds : ~behind(HitIds[i], x)
     ELSE HitIds = Prefix(ids, query.limit)

(* When a search is over its hits are sound, in the order of the evidence it  *)
(* claims to have.                                                            *)
SearchHonest ==
  /\ HelperSound
  /\ stage = "done" =>
       IF found.mode \in {"none", "error"} \/ Status(query)
       THEN found.hits = <<>> /\ found.mode # "HybridVerified"
       ELSE HitsSound /\ LexicalSound /\ HybridSound
=============================================================================
