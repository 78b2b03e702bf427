------------------------------- MODULE MCEdges -------------------------------
(* The edges of the program, for TLC: the file tools, the process tools, the  *)
(* output of shell sessions, the provider client and capability discovery     *)
(* share no state, and each behaviour takes one of them.                      *)
EXTENDS FileTool, ProcessTool, OutputBuffer, ProviderStream, Discovery

CONSTANTS FileCalls,     \* what the agent may ask of the file tools
          ProcessCalls,  \* and of the process tools
          Requests,      \* what may be asked of a provider, with its answer
          Queries        \* what may be looked for, and where
ASSUME CallsAssumption ==
  /\ \A inv \in FileCalls : FileCall(inv)
  /\ \A inv \in ProcessCalls : ProcessCall(inv)

Symmetry == Permutations(Sessions)

VARIABLE part   \* the one this behaviour takes

allVars == <<part, fileVars, processVars, bufferVars, streamVars, searchVars>>

P(to) == [form |-> "relative", name |-> "public", to |-> to]
OddPaths == {[P("file") EXCEPT !.form = "other"], [P("file") EXCEPT !.name = "protected"],
             [P("file") EXCEPT !.name = "secret"]}
-----------------------------------------------------------------------------
(* The calls of the file tools.                                               *)
EdgeTexts == {<<"a", "b", "a">>, <<"a", "a", "a">>, <<"s">>, <<"0">>, <<"b", "b", "b", "b", "b", "b">>}
Edit(old, new, times) == [old |-> old, new |-> new, times |-> times]
EditLists == {<<Edit(<<"a">>, <<"b", "a">>, 2)>>, <<Edit(<<"a">>, <<>>, 1), Edit(<<"b">>, <<"a">>, 1)>>,
              <<Edit(<<"a", "a">>, <<"b">>, 1)>>, <<Edit(<<>>, <<>>, 1)>>, <<>>,
              <<Edit(<<"b">>, <<"s">>, 1)>>, <<Edit(<<"a">>, <<"b">>, 1)>>}
FileArgs(tool, args) == Invocation(tool, IF tool \in {"read_file", "list_directory"} THEN "Read" ELSE "Write",
                                   args, "fit", FALSE)
FileInvocations ==
  {FileArgs("read_file", [path |-> p]) :
     p \in {P(n) : n \in {"file", "link", "outside", "nowhere", "root"}} \cup OddPaths}
  \cup {FileArgs("list_directory", [path |-> P(n)]) : n \in {"root", "file", "outside"}}
  \cup {FileArgs("apply_patch", [path |-> P(n), expected_sha256 |-> h, edits |-> l]) :
          n \in {"file", "link", "root"}, h \in {<<"a", "b", "a">>, <<"a", "a", "a">>}, l \in EditLists}
  \cup {FileArgs("write_file", [path |-> P(n), mode |-> "create", content |-> <<"b">>]) :
          n \in {"file", "link", "outside", "nowhere"}}
  \cup {FileArgs("write_file", [path |-> P(n), mode |-> "replace", content |-> c,
                                expected_sha256 |-> <<"a", "b", "a">>]) :
          n \in {"file", "link"}, c \in {<<"b">>, <<"s">>, <<"0">>, <<"b", "b", "b", "b", "b", "b">>}}
  \cup {FileArgs("write_file", [path |-> P("file"), mode |-> "replace", content |-> <<"b">>]),
        FileArgs("write_file", [path |-> P("file"), mode |-> "create", content |-> <<"b">>,
                                expected_sha256 |-> <<"b">>])}
  \cup {Invocation("read_file", "Write", [path |-> P("file")], "fit", FALSE),
        Invocation("sing", "Read", [path |-> P("file")], "fit", FALSE),
        Invocation("read_file", "Read", [x |-> P("file")], "fit", FALSE),
        Invocation("read_file", "Read", [path |-> P("file")], "too_large", FALSE),
        Invocation("write_file", "Write", [path |-> P("file"), mode |-> "create", content |-> <<"b">>], "fit", TRUE),
        Invocation("shell_command", "Process", [command |-> "x"], "fit", FALSE)}
-----------------------------------------------------------------------------
(* The calls of the process tools.                                            *)
ProcessArgs(tool, args) == Invocation(tool, "Process", args, "fit", FALSE)
ProcessPaths == {P(n) : n \in {"script", "file", "missing", "outside", "option"}}
                \cup {[P("file") EXCEPT !.form = "other"]}
ProcessInvocations ==
  {ProcessArgs("git_status", <<>>), ProcessArgs("git_diff", <<>>)}
  \cup {ProcessArgs("git_status", [path |-> p]) : p \in ProcessPaths}
  \cup {ProcessArgs("npm_diagnostic", [script |-> s]) :
          s \in ScriptKinds}
  \cup {ProcessArgs("run_diagnostic", [action |-> a]) : a \in {"cargo_check", "node_check", "rg_search"}}
  \cup {ProcessArgs("run_diagnostic", [action |-> a, path |-> p]) :
          a \in {"cargo_check", "node_check"}, p \in ProcessPaths}
  \cup {ProcessArgs("run_diagnostic", [action |-> "rg_search", path |-> p, pattern |-> x]) :
          x \in PatternKinds, p \in ProcessPaths}
  \cup {ProcessArgs("run_diagnostic", [action |-> "rg_search", path |-> P("script"), pattern |-> "word",
                                       max_results |-> n]) : n \in ResultLimits}
-----------------------------------------------------------------------------
(* What a reader reads at once.                                               *)
EdgeChunks == {<<c>> : c \in {"text", "lead", "cont", "esc", "]"}}
-----------------------------------------------------------------------------
(* The answers of a provider: every division of some texts into three deltas, *)
(* every order of some pieces of calls, and every kind of line end.           *)
LF == [line |-> "LF"]
CR == [line |-> "CR"]
Note == [line |-> "comment"]
Junk == [line |-> "junk"]
Data(frame) == [line |-> "data", frame |-> frame]
Done == [kind |-> "done"]
Delta(text) == [kind |-> "delta", text |-> text]
Wire(frames, end) == FlattenSeq([i \in DOMAIN frames |-> <<Data(frames[i])>> \o end])
LineEndings == {<<LF, LF>>, <<CR, LF, CR, LF>>, <<LF, Note, CR, CR>>}

Talks == {<<"a", "<", "t", ">", "r", "<", "/", "t", ">", "a">>, <<"<", "<", "t", ">", "r", "<", "<", "/", "t", ">">>,
          <<"<", "t", ">", "r", "r", "<", "t">>, <<"a", "<", "/", "t", ">", "<">>}
Splits(text) ==
  UNION {{<<Delta(SubSeq(text, 1, i)), Delta(SubSeq(text, i + 1, j)), Delta(SubSeq(text, j + 1, Len(text)))>> :
            j \in i..Len(text)} : i \in 1..Len(text)}

NamedCall(call, n, pieces) == [id |-> <<"call", call>>, index |-> <<n>>, name |-> <<"n">>, pieces |-> pieces]
ChatFrames ==
  {[kind |-> "delta", calls |-> <<NamedCall("c1", "0", <<"{1">>)>>],
   [kind |-> "delta", calls |-> <<[pieces |-> <<"}1">>], NamedCall("c2", "1", <<"{2", "}2">>)>>],
   [kind |-> "delta", calls |-> <<[pieces |-> <<"}1">>]>>],
   [kind |-> "delta", usage |-> <<"u">>], [kind |-> "delta", reasoning |-> <<"r">>], [kind |-> "failed"], Done}
NoCalls == [kind |-> "delta", calls |-> <<>>]
Item(kind, item) == [kind |-> kind, item |-> <<item>>]
ResponsesFrames ==
  {Item("added", "x1") @@ [call |-> <<"call", "c1">>, name |-> <<"n">>],
   Item("arguments", "x1") @@ [pieces |-> <<"{1">>], Item("arguments", "x1") @@ [pieces |-> <<"}1">>],
   [kind |-> "arguments", call |-> <<"call", "c1">>, pieces |-> <<"}1">>],
   Item("item_done", "x1") @@ [call |-> <<"call", "c1">>, name |-> <<"n">>, pieces |-> <<"{1", "}1">>],
   Item("item_done", "c2") @@ [name |-> <<"n">>, pieces |-> <<"{2", "}2">>]}
OtherFrames == {[kind |-> "text", text |-> <<"a">>], [kind |-> "reasoning"], [kind |-> "failed"], [kind |-> "unknown"],
                [kind |-> "completed", usage |-> <<"u">>], [kind |-> "completed"], [kind |-> "arguments"]}

Plain == [l \in ToSet(Sources) |-> <<>>]
Chat == [Plain EXCEPT !.cli = [protocol |-> "chat"]]
Ask(layers, tokens) ==
  [layers |-> layers, tokens |-> tokens, answer |-> "ok", interactive |-> TRUE,
   environment |-> [KEY |-> "absent", SPARE |-> "key2"], keyring |-> [official |-> "key3", second |-> "locked"]]

Identity(host, scheme) == [provider_id |-> "second", endpoint |-> [scheme |-> scheme, host |-> host, extra |-> FALSE]]
LayerSets ==
  {[Plain EXCEPT !.user = u, !.project = p, !.cli = c] :
     u \in {<<>>, Identity("remote", "https"), [version |-> 2], Identity("127.0.0.2", "http")},
     p \in {<<>>, [provider_id |-> "second"], [environment_key |-> "SPARE"], [endpoint |-> Identity("remote", "https").endpoint]},
     c \in {<<>>, [loopback |-> TRUE], Identity("localhost", "http"), [timeout |-> "too_long"]}}

ProviderRequests ==
  {Ask(Chat, Wire(Append(l, Done), <<LF, LF>>)) : l \in UNION {Splits(t) : t \in Talks}}
  \cup {Ask(Chat, Wire(<<a, b, c, Done>>, <<LF, LF>>)) : a, b, c \in ChatFrames}
  \cup {Ask(Plain, Wire(<<a, b, c, Done>>, <<LF, LF>>)) : a, b, c \in ResponsesFrames}
  \cup {Ask(Plain, Wire(<<a, b, Done>>, e) \o <<LF>>) : a \in {Malformed} \cup OtherFrames, b \in OtherFrames, e \in LineEndings}
  \cup {Ask(Chat, Wire(<<NoCalls, f, Done>>, <<LF, LF>>)) : f \in {NoCalls, [NoCalls EXCEPT !.kind = "failed"],
                                                                NoCalls @@ [usage |-> <<"u">>]}}
  \cup {Ask(Plain, Wire(<<[kind |-> "text", text |-> <<"a">>], f, Done>>, <<LF, LF>>)) :
          f \in {Item(k, "x1") : k \in {"added", "item_done"}}}
  \cup {Ask(Plain, tokens) : tokens \in {<<Data(Done), CR, Junk, LF>>, <<Data(Done), Data(Done), CR, LF, CR>>,
                                         <<Note, LF, Data(Done), LF, LF>>, <<Note, LF, Note, LF, Note, LF>>}}
  \cup {[Ask(l, <<>>) EXCEPT !.interactive = i, !.answer = a] :
          l \in LayerSets, i \in BOOLEAN, a \in {"http", "TransportNetwork"}}
-----------------------------------------------------------------------------
(* What is looked for: small catalogs, and the ways a catalog, an inventory   *)
(* and a resource may be wrong.                                               *)
Card(kind, n, key, score) ==
  [kind |-> kind, n |-> n, key |-> key, score |-> score, bundled |-> FALSE, asks |-> FALSE,
   searchable |-> TRUE, defect |-> "none"]
Catalog(scope, kind, cards) ==
  [scope |-> scope, kind |-> kind, file |-> "sound", cards |-> cards, fingerprint |-> cards]
Three(p, s, m) == <<Catalog("workspace", "project", p), Catalog("workspace", "skill", s), Catalog("workspace", "mcp", m)>>
One(scope, cards) == <<Catalog(scope, "project", cards)>>
Lookup(scope, catalogs) ==
  [scope |-> scope, kinds |-> ToSet(KindOrder), limit |-> 2, catalogs |-> catalogs, intent |-> TRUE, size |-> "small",
   inventory |-> [file |-> "sound", installed |-> <<>>, authorized |-> <<>>],
   resource |-> [state |-> "ok", cpu |-> TRUE, made_for |-> Fingerprint(catalogs)]]

Scored == {<<Card("project", 1, FALSE, i), Card("project", 2, k, j)>> : i \in 0..2, j \in 0..2, k \in BOOLEAN}
Skill == Card("skill", 1, FALSE, 2)
Workspaces == {Three(p, s, <<Card("mcp", 1, FALSE, 1)>>) : p \in Scored,
                 s \in {<<>>, <<[Skill EXCEPT !.bundled = TRUE]>>, <<[Skill EXCEPT !.key = TRUE]>>}}
Base == Three(<<Card("project", 1, FALSE, 2), Card("project", 2, FALSE, 1)>>, <<[Skill EXCEPT !.asks = TRUE]>>, <<>>)
Broken ==
  {[Base EXCEPT ![k].file = f] : k \in {1, 3}, f \in {"unreadable", "invalid_source"}}
  \cup {[Base EXCEPT ![1].kind = "skill"], [Base EXCEPT ![1].fingerprint = <<>>], [Base EXCEPT ![1] = Base[2], ![2] = Base[1]],
        Three(<<Card("project", 1, FALSE, 1), Card("project", 1, FALSE, 2)>>, <<>>, <<>>),
        Three(<<Card("project", 1, FALSE, 1), Card("project", 2, FALSE, 2), Card("project", 3, FALSE, 2)>>, <<>>, <<>>)}
  \cup {Three(<<[Card("project", 1, TRUE, 1) EXCEPT !.defect = d]>>, <<>>, <<>>) :
          d \in {"invalid_card", "invalid_url", "unsafe_guidance", "invalid_fact"}}
OldPages == {<<[p[1] EXCEPT !.searchable = FALSE], p[2]>> : p \in Scored}
SkillId == <<"skill", 1>>

SearchQueries ==
  {[Lookup("workspace", c) EXCEPT !.kinds = k] : c \in Workspaces, k \in {ToSet(KindOrder), {"project"}, {"skill"}}}
  \cup {Lookup("workspace", c) : c \in Broken}
  \cup {Lookup("workspace_status", Base), Lookup("prompt", Base), [Lookup("prompt", Base) EXCEPT !.intent = FALSE]}
  \cup {[Lookup("projects", One("projects", c)) EXCEPT !.limit = n] : c \in Scored \cup {<<>>}, n \in {1, 2}}
  \cup {Lookup("project_status", One("projects", c)) : c \in Scored}
  \cup {[Lookup("wiki", One("wiki", c)) EXCEPT !.limit = n] : c \in Scored \cup OldPages, n \in 0..2}
  \cup {Lookup("wiki", <<[Catalog("wiki", "project", <<>>) EXCEPT !.file = "unreadable"]>>)}
  \cup {Lookup("commands", One("commands", c)) : c \in Scored}
  \cup {[Lookup("workspace", Base) EXCEPT !.resource.state = r] :
          r \in {"none", "missing", "bad_manifest", "bad_path", "changed_file", "helper_unlisted"}}
  \cup {[Lookup("workspace", Base) EXCEPT !.resource.cpu = FALSE], [Lookup("workspace", Base) EXCEPT !.resource.made_for = <<>>],
        [Lookup("workspace", Base) EXCEPT !.inventory.file = "unreadable"]}
  \cup {[Lookup("workspace", Base) EXCEPT !.size = z] : z \in {"large", "too_large"}}
  \cup {[Lookup("workspace", Base) EXCEPT !.inventory.installed = i, !.inventory.authorized = j] :
          i \in {<<>>, <<SkillId>>, <<SkillId, SkillId>>, <<<<"mcp", 9>>>>}, j \in {<<>>, <<SkillId>>}}
-----------------------------------------------------------------------------
(* What is asked, as definitions, which TLC computes once and constants that  *)
(* stand for definitions each time.                                           *)
AllFileCalls == FileCalls
AllProcessCalls == ProcessCalls
AllRequests == Requests
AllQueries == Queries

EdgesInit ==
  /\ part \in {"files", "processes", "output", "provider", "search"}
  /\ FileInit /\ ProcessInit /\ BufferInit /\ StreamInit /\ SearchInit
  /\ part # "files" => entries = [n \in Names |-> Absent] /\ ~hidden

EdgesNext ==
  /\ UNCHANGED part
  /\ \/ part = "files" /\ FileNext(AllFileCalls) /\ UNCHANGED <<processVars, bufferVars, streamVars, searchVars>>
     \/ part = "processes" /\ ProcessNext(AllProcessCalls) /\ UNCHANGED <<fileVars, bufferVars, streamVars, searchVars>>
     \/ part = "output" /\ BufferNext /\ UNCHANGED <<fileVars, processVars, streamVars, searchVars>>
     \/ part = "provider" /\ StreamNext(AllRequests) /\ UNCHANGED <<fileVars, processVars, bufferVars, searchVars>>
     \/ part = "search" /\ SearchNext(AllQueries) /\ UNCHANGED <<fileVars, processVars, bufferVars, streamVars>>

EdgesSpec == EdgesInit /\ [][EdgesNext]_allVars

ToolsTypeOK == FileTypeOK /\ ProcessTypeOK /\ BufferTypeOK

(* The programs the host starts for a tool are not left behind, what is said  *)
(* of them is what they did, and the output of a shell session reaches those  *)
(* who wait for it whole, or they are told.                                   *)
ToolsHonest == ProcessHonest /\ BufferExact

(* An answer of a provider does not depend on how it arrives, an answer of a  *)
(* search is what its evidence says, and both are of their type.              *)
AnswersHonest == StreamTypeOK /\ StreamHonest /\ SearchTypeOK /\ SearchHonest
=============================================================================
