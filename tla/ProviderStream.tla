---------------------------- MODULE ProviderStream ----------------------------
(* The provider crate: from the layers of configuration and the credential    *)
(* (config.rs, credentials.rs) through the request and the chunks of its      *)
(* answer (client.rs, sse.rs) to the events that are published, by way of the *)
(* two protocols (fixture_protocol.rs, chat_completions.rs, responses.rs),    *)
(* the filter of reasoning (reasoning_filter.rs), the assembly of tool calls  *)
(* and core/src/sequence.rs.                                                  *)
(*                                                                            *)
(* Abstractions.  The answer is a sequence of tokens: a line of data, which   *)
(* carries one frame, a comment, the ends of lines "CR" and "LF", or bytes    *)
(* that are no UTF-8.  A frame is what its JSON says.  Text is a sequence of  *)
(* characters, the tags are <t> and </t>, and the arguments of a call are     *)
(* pieces, valid when they go from "{" to "}".                                *)
EXTENDS ToolPolicy, SequencesExt

CONSTANTS MaxEvent   \* MAX_SSE_EVENT_BYTES, in tokens
ASSUME StreamAssumption == MaxEvent \in Nat \ {0}

VARIABLES request,    \* what is asked: the layers, the credential and the answer to come
          client,     \* the client: its step, its configuration, its credential, its result
          decoder,    \* how much has arrived, the bytes and the frames not used yet
          tools,      \* the calls being assembled
          filter,     \* the mode of the filter and the text it holds back
          published,  \* the events so far
          signals     \* cancelled: the token is used; expired: the deadline is over

streamVars == <<request, client, decoder, tools, filter, published, signals>>
-----------------------------------------------------------------------------
(* config.rs.  A layer is a function from the fields it sets.                 *)
Defaults == [provider_id |-> "official", endpoint |-> [scheme |-> "https", host |-> "remote", extra |-> FALSE],
             protocol |-> "responses", environment_key |-> "KEY", timeout |-> "fit", loopback |-> FALSE]
Sources == <<"user", "project", "environment", "cli">>
Layers == <<"defaults">> \o Sources

(* The value a field has in the end is that of the last layer that sets it.   *)
LastSetting(layers, field) ==
  SelectLastInSubSeq(Layers, 1, Len(Layers), LAMBDA l : l = "defaults" \/ field \in DOMAIN layers[l])
Merged(layers) ==
  [field \in DOMAIN Defaults |->
     LET l == Layers[LastSetting(layers, field)]
     IN IF l = "defaults" THEN Defaults[field] ELSE layers[l][field]]

(* validate_identity_patch.                                                   *)
PatchFits(layer) == "provider_id" \in DOMAIN layer <=> "endpoint" \in DOMAIN layer

IsLoopbackHost(host) == host \in {"localhost", "127.0.0.1", "127.0.0.2"}
EndpointFits(e, loopback) ==
  /\ ~e.extra
  /\ e.scheme = "https" \/ (e.scheme = "http" /\ loopback /\ IsLoopbackHost(e.host))

ConfigFits(layers) ==
  /\ \A l \in {"user", "project"} : "version" \in DOMAIN layers[l] => layers[l].version = 1
  /\ \A l \in ToSet(Sources) : PatchFits(layers[l])
  /\ LET c == Merged(layers) IN
     /\ c.provider_id # "" /\ c.protocol # "unknown" /\ c.timeout = "fit"
     /\ EndpointFits(c.endpoint, c.loopback)

(* credentials.rs.                                                            *)
NormalizeSecret(value) == IF value \in {"absent", "blank", "bearer"} THEN "none" ELSE value
Credential(config, r) ==
  LET variable == NormalizeSecret(r.environment[config.environment_key])
      entry == NormalizeSecret(r.keyring[config.provider_id])
  IN CASE variable # "none" -> variable
       [] variable = "none" /\ (~r.interactive \/ r.keyring[config.provider_id] \in {"locked", "denied"}) -> "none"
       [] OTHER -> entry

(* HttpProviderClient::new knows fewer loopback hosts than the configuration. *)
ValidEndpoint(e) ==
  /\ e.scheme = "https" \/ (e.scheme = "http" /\ e.host \in {"localhost", "127.0.0.1"})
  /\ ~e.extra
-----------------------------------------------------------------------------
(* sse.rs.  blank_line_end: the least prefix that ends with an empty line.    *)
Newline(t) == t \in {"LF", "CR"}
LineEnds(tokens) ==   \* the positions where a line ends, with "CR" "LF" as one end
  {i \in DOMAIN tokens : Newline(tokens[i].line)
                         /\ ~(tokens[i].line = "CR" /\ i < Len(tokens) /\ tokens[i + 1].line = "LF")}
BlankLineEnd(tokens) ==   \* 0 if there is none
  LET ends == LineEnds(tokens)
      blank(i) == \E j \in ends : j < i /\ \A k \in (j + 1)..i : Newline(tokens[k].line)
  IN Min({i \in ends : blank(i)} \cup {Len(tokens) + 1}) % (Len(tokens) + 1)

(* decode_event.  Lines of data that are joined are no JSON any more.         *)
Malformed == [kind |-> "malformed"]
DecodeEvent(raw) ==
  LET data == SelectSeq(raw, LAMBDA t : t.line = "data") IN
  IF Len(data) > 1 THEN <<Malformed>> ELSE [i \in DOMAIN data |-> data[i].frame]

Drained(tokens, final, limit) ==
  LET bad(raw) == \E i \in DOMAIN raw : raw[i].line = "junk"
      drained[i \in 0..Len(tokens)] ==   \* what follows the first i tokens
        LET buffer == SubSeq(tokens, i + 1, Len(tokens))
            end == BlankLineEnd(buffer)
            raw == SubSeq(buffer, 1, end)
            failed == [ok |-> FALSE, buffer |-> buffer, events |-> <<>>]
        IN CASE end > limit \/ bad(raw) -> failed
             [] end \in 1..limit /\ ~bad(raw) ->
                  LET rest == drained[i + end]
                  IN IF rest.ok THEN [rest EXCEPT !.events = DecodeEvent(raw) \o @] ELSE rest
             [] end = 0 /\ (Len(buffer) > limit \/ (final /\ bad(buffer))) -> failed
             [] OTHER -> [ok |-> TRUE, buffer |-> IF final THEN <<>> ELSE buffer,
                          events |-> IF final THEN DecodeEvent(buffer) ELSE <<>>]
  IN drained[0]
-----------------------------------------------------------------------------
(* The events of a frame.                                                     *)
Terminal(outcome) == [type |-> "terminal", outcome |-> outcome]
Text(text) == [type |-> "text", text |-> text]
Reasoning == [type |-> "reasoning"]
Usage == [type |-> "usage"]
Fragments(list) == [type |-> "fragments", fragments |-> list]
Fragment(id, stream, index, name, pieces, complete) ==
  [id |-> id, stream |-> stream, index |-> index, name |-> name, pieces |-> pieces, complete |-> complete]
Ok(events) == [ok |-> TRUE, events |-> events]
Error == [ok |-> FALSE, events |-> <<>>]
None == <<"none">>   \* an absent value; the others are tuples of strings too

(* A frame is a record with a kind and the fields it has; what it lacks is    *)
(* absent.                                                                    *)
Field(frame, name) == IF name \in DOMAIN frame THEN frame[name] ELSE None

(* An item that has no call id is known by its own.                           *)
ResponsesCallId(frame) ==
  CASE Field(frame, "call") # None -> frame.call
    [] Field(frame, "call") = None /\ Field(frame, "item") # None ->
         IF frame.kind = "arguments" THEN <<"stream">> \o frame.item ELSE <<"call">> \o frame.item
    [] OTHER -> None

ParseResponses(frame) ==
  CASE frame.kind = "done" -> Ok(<<Terminal("Completed")>>)
    [] frame.kind = "reasoning" -> Ok(<<Reasoning>>)
    [] frame.kind = "text" -> Ok(<<Text(frame.text)>>)
    [] frame.kind \in {"arguments", "added", "item_done"} ->
         IF ResponsesCallId(frame) = None \/ (frame.kind # "arguments" /\ Field(frame, "name") = None)
         THEN Error
         ELSE Ok(<<Fragments(<<Fragment(ResponsesCallId(frame), Field(frame, "item"), None,
                     Field(frame, "name"), IF frame.kind = "added" THEN None ELSE Field(frame, "pieces"),
                     frame.kind = "item_done" /\ Field(frame, "pieces") # None)>>)>>)
    [] frame.kind = "completed" -> Ok((IF Field(frame, "usage") # None THEN <<Usage>> ELSE <<>>)
                                      \o <<Terminal("Completed")>>)
    [] frame.kind = "failed" -> Ok(<<Terminal("Failed")>>)
    [] OTHER -> Error

(* The first field the parser looks for decides what the frame is; an empty   *)
(* list of calls is none.                                                     *)
Leads(frame, field) ==   \* the field is there, and none the parser looks for before it
  LET fields == <<"text", "reasoning", "calls", "usage">>
      there == {f \in DOMAIN frame : f = "calls" => frame.calls # <<>>}
  IN
  frame.kind = "delta" /\ field \in there
  /\ \A i \in 1..4 : fields[i] \in there => \E j \in 1..i : fields[j] = field
ParseChatCompletions(frame) ==
  CASE frame.kind = "done" -> Ok(<<Terminal("Completed")>>)
    [] frame.kind = "failed" -> Ok(<<Terminal("Failed")>>)
    [] Leads(frame, "text") -> Ok(<<Text(frame.text)>>)
    [] Leads(frame, "reasoning") -> Ok(<<Reasoning>>)
    [] Leads(frame, "calls") ->
         Ok(<<Fragments([i \in DOMAIN frame.calls |->
                LET call == frame.calls[i]
                    index == IF Field(call, "index") # None THEN call.index ELSE <<ToString(i - 1)>>
                IN Fragment(IF Field(call, "id") # None THEN call.id ELSE <<"index">> \o index, None, index,
                            Field(call, "name"), Field(call, "pieces"), FALSE)])>>)
    [] Leads(frame, "usage") -> Ok(<<Usage>>)
    [] OTHER -> Error

ParseFrame(protocol, frame) ==
  IF protocol = "responses" THEN ParseResponses(frame) ELSE ParseChatCompletions(frame)
-----------------------------------------------------------------------------
(* ChatReasoningFilter: what stands between the tags is dropped, and a text   *)
(* that may be the beginning of a tag is held back.                           *)
OpenTag == <<"<", "t", ">">>
CloseTag == <<"<", "/", "t", ">">>
TagsIn(text, tag) == {i \in 1..Len(text) : IsPrefix(tag, SubSeq(text, i, Len(text)))}
(* Nothing is held back: a tag divided between two deltas goes unnoticed.     *)
FaultyRetained(text, tag) == 0

(* The end of a text that may be the beginning of the tag.                    *)
Retained(text, tag) ==
  Max({n \in 0..Min({Len(text), Len(tag) - 1}) : IsSuffix(SubSeq(tag, 1, n), text)})
PushVisible(text) == IF text = <<>> THEN <<>> ELSE <<Text(text)>>

Modes == {"visible", "reasoning"}
AcceptContent(start, text) ==
  LET accepted[i \in 0..Len(text), mode \in Modes] ==   \* what follows the first i characters
        LET pending == SubSeq(text, i + 1, Len(text))
            tag == IF mode = "visible" THEN OpenTag ELSE CloseTag
            at == TagsIn(pending, tag)
            next == i + Min(at) - 1 + Len(tag)
            held == Retained(pending, tag)
            before == SubSeq(pending, 1, Len(pending) - held)
        IN CASE at # {} /\ mode = "visible" ->
                  [accepted[next, "reasoning"] EXCEPT !.events =
                     PushVisible(SubSeq(pending, 1, Min(at) - 1)) \o <<Reasoning>> \o @]
             [] at # {} /\ mode = "reasoning" -> accepted[next, "visible"]
             [] OTHER -> [mode |-> mode, pending |-> SubSeq(pending, Len(pending) - held + 1, Len(pending)),
                          events |-> IF mode = "visible" THEN PushVisible(before) ELSE <<>>]
  IN accepted[0, start]

FilterEvent(f, event) ==
  CASE event.type = "text" -> LET new == AcceptContent(f.mode, f.pending \o event.text)
                              IN [new EXCEPT !.events = f.events \o @]
    [] event.type = "terminal" -> [f EXCEPT !.pending = <<>>, !.events = Append(@, event)]
    [] OTHER -> [f EXCEPT !.events = Append(@, event)]
FilteredEvents(protocol, f, events) ==
  IF protocol = "responses" THEN [mode |-> f.mode, pending |-> f.pending, events |-> events]
  ELSE FoldLeft(FilterEvent, [mode |-> f.mode, pending |-> f.pending, events |-> <<>>], events)
-----------------------------------------------------------------------------
(* ToolAssembler.                                                             *)
NoTools == [calls |-> <<>>, index |-> <<>>, stream |-> <<>>, order |-> <<>>, ok |-> TRUE]
Provisional(id) == id[1] \in {"index", "stream"}
NewAssembly == [name |-> None, pieces |-> <<>>, index |-> None]

(* register_index and register_stream.                                        *)
Register(t, alias, key, id) ==
  IF key = None THEN t
  ELSE [t EXCEPT ![alias] = (key :> id) @@ @,
                 !.ok = @ /\ (key \in DOMAIN t[alias] => t[alias][key] = id)]

Promote(t, provisional, id) ==
  IF provisional \notin DOMAIN t.calls THEN t
  ELSE [t EXCEPT !.calls = (id :> t.calls[provisional]) @@ [i \in DOMAIN @ \ {provisional} |-> @[i]],
                 !.order = [i \in DOMAIN @ |-> IF @[i] = provisional THEN id ELSE @[i]],
                 !.ok = @ /\ id \notin DOMAIN t.calls]

(* The call a fragment belongs to, once its own id has been learnt.           *)
ActualId(t, f) ==
  CASE f.id[1] = "index" /\ f.index \in DOMAIN t.index -> t.index[f.index]
    [] f.id[1] = "stream" /\ f.stream \in DOMAIN t.stream -> t.stream[f.stream]
    [] f.id[1] = "stream" /\ f.stream \notin DOMAIN t.stream /\ <<"call">> \o f.stream \in DOMAIN t.calls ->
         <<"call">> \o f.stream
    [] OTHER -> f.id
Learn(t, f) ==
  IF Provisional(f.id) THEN t
  ELSE LET indexed == Promote(Register(t, "index", f.index, f.id), <<"index">> \o f.index, f.id)
       IN Promote(Register(indexed, "stream", f.stream, f.id), <<"stream">> \o f.stream, f.id)

AcceptFragment(before, f) ==
  LET t == Learn(before, f)
      id == ActualId(t, f)
      a == IF id \in DOMAIN t.calls THEN t.calls[id] ELSE NewAssembly
      new == [name |-> IF f.name # None THEN f.name ELSE a.name,
              index |-> IF f.index # None THEN f.index ELSE a.index,
              pieces |-> CASE f.pieces = None -> a.pieces
                           [] f.pieces # None /\ f.complete -> f.pieces
                           [] OTHER -> a.pieces \o f.pieces]
  IN IF ~t.ok THEN t
     ELSE [t EXCEPT !.calls = (id :> new) @@ @,
                    !.order = IF id \in DOMAIN t.calls THEN @ ELSE Append(@, id),
                    !.ok = /\ ~(a.index # None /\ f.index # None /\ a.index # f.index)
                           /\ ~(f.name # None /\ a.name # None /\ ~f.complete)]

(* flush: every call assembled must be whole.                                 *)
Opens == {"{1", "{2"}
Closes == {"}1", "}2"}
IsObject(pieces) == Len(pieces) = 2 /\ pieces[1] \in Opens /\ pieces[2] \in Closes
Whole(t, id) == ~Provisional(id) /\ t.calls[id].name # None /\ IsObject(t.calls[id].pieces)
Flushed(t) ==
  IF \A i \in DOMAIN t.order : Whole(t, t.order[i])
  THEN Ok([i \in DOMAIN t.order |->
             Fragments(<<Fragment(t.order[i], None, t.calls[t.order[i]].index, t.calls[t.order[i]].name,
                                  t.calls[t.order[i]].pieces, TRUE)>>)])
  ELSE Error
-----------------------------------------------------------------------------
(* StreamSequence: nothing follows the terminal event.                        *)
Over(events) == events # <<>> /\ Last(events).type = "terminal"
AcceptEvent(st, event) ==
  IF ~st.ok \/ Over(st.published) THEN [st EXCEPT !.ok = FALSE]
  ELSE [st EXCEPT !.published = Append(@, event)]
FlushTools(st) ==
  LET flushed == Flushed(st.tools) IN
  IF flushed.ok THEN FoldLeft(AcceptEvent, [st EXCEPT !.tools = NoTools], flushed.events)
  ELSE [st EXCEPT !.ok = FALSE]
ProcessEvent(st, event) ==
  CASE ~st.ok -> st
    [] st.ok /\ event.type = "fragments" ->
         LET t == FoldLeft(AcceptFragment, st.tools, event.fragments) IN [st EXCEPT !.tools = t, !.ok = t.ok]
    [] OTHER -> AcceptEvent(FlushTools(st), event)

(* replay_fixture does the same to all frames at once; it asks the sequence   *)
(* about fragments too.                                                       *)
ReplayEvent(st, event) ==
  IF event.type = "fragments" /\ Over(st.published) THEN [st EXCEPT !.ok = FALSE]
  ELSE ProcessEvent(st, event)
ReplayFrame(protocol, st, frame) ==
  LET parsed == ParseFrame(protocol, frame)
      f == FilteredEvents(protocol, st.filter, parsed.events)
      new == FoldLeft(ReplayEvent, [st EXCEPT !.ok = @ /\ parsed.ok], f.events)
  IN [new EXCEPT !.filter = [mode |-> f.mode, pending |-> f.pending]]
NoFilter == [mode |-> "visible", pending |-> <<>>]
Replay(protocol, frames) ==
  LET st == FlushTools(FoldLeft(LAMBDA x, frame : ReplayFrame(protocol, x, frame),
                                [tools |-> NoTools, published |-> <<>>, filter |-> NoFilter, ok |-> TRUE], frames))
  IN [ok |-> st.ok /\ Over(st.published), events |-> st.published]
-----------------------------------------------------------------------------
NoClient == [at |-> "idle", config |-> Defaults, key |-> "none", result |-> "none"]
NoProviderRequest == [tokens |-> <<>>, answer |-> "none"]

StreamInit ==
  /\ request = NoProviderRequest /\ client = NoClient
  /\ decoder = [arrived |-> 0, buffer |-> <<>>, frames |-> <<>>]
  /\ tools = NoTools /\ filter = NoFilter /\ published = <<>>
  /\ signals = [cancelled |-> FALSE, expired |-> FALSE]

Conclude(result) == client' = [client EXCEPT !.at = "done", !.result = result]
Streaming == client.at = "streaming" /\ decoder.frames = <<>>

(* The configuration, the credential and the client of a run.                 *)
Configure(r) ==
  /\ client.at = "idle" /\ request' = r
  /\ LET config == Merged(r.layers) IN
     CASE ~ConfigFits(r.layers) -> Conclude("Configuration")
       [] ConfigFits(r.layers) /\ Credential(config, r) = "none" -> Conclude("Credential")
       [] OTHER -> client' = [client EXCEPT !.config = config, !.key = Credential(config, r),
                              !.at = IF ValidEndpoint(config.endpoint) THEN "sending" ELSE "done",
                              !.result = IF ValidEndpoint(config.endpoint) THEN @ ELSE "Configuration"]
  /\ UNCHANGED <<decoder, tools, filter, published, signals>>

Respond ==
  /\ client.at = "sending"
  /\ \/ request.answer = "ok" /\ client' = [client EXCEPT !.at = "streaming"]
     \/ request.answer # "ok" /\ Conclude(request.answer)   \* TransportNetwork, or the HTTP status
  /\ UNCHANGED <<request, decoder, tools, filter, published, signals>>

(* select! takes any of the branches that are ready.                          *)
GiveUp ==
  /\ client.at = "sending" \/ Streaming
  /\ \/ signals.cancelled /\ Conclude("Interrupted")
     \/ signals.expired /\ Conclude("TransportTimeout")
  /\ UNCHANGED <<request, decoder, tools, filter, published, signals>>

Decode(tokens, final) ==
  LET drained == Drained(decoder.buffer \o tokens, final, MaxEvent) IN
  /\ decoder' = [arrived |-> decoder.arrived + Len(tokens), buffer |-> drained.buffer,
                 frames |-> drained.events]
  /\ IF ~drained.ok THEN Conclude("Malformed")
     ELSE client' = [client EXCEPT !.at = IF final THEN "closing" ELSE @]
  /\ UNCHANGED <<request, tools, filter, published, signals>>

Chunk(n) == Streaming /\ Decode(SubSeq(request.tokens, decoder.arrived + 1, decoder.arrived + n), FALSE)
EndOfBody == Streaming /\ decoder.arrived = Len(request.tokens) /\ Decode(<<>>, TRUE)
BodyFails ==
  /\ Streaming /\ Conclude("TransportNetwork")
  /\ UNCHANGED <<request, decoder, tools, filter, published, signals>>

(* process_frame.                                                             *)
ProcessFrame ==
  /\ client.at \in {"streaming", "closing"} /\ decoder.frames # <<>>
  /\ decoder' = [decoder EXCEPT !.frames = Tail(@)]
  /\ LET parsed == ParseFrame(client.config.protocol, Head(decoder.frames))
         f == FilteredEvents(client.config.protocol, filter, parsed.events)
         st == FoldLeft(ProcessEvent, [tools |-> tools, published |-> published, ok |-> parsed.ok], f.events)
     IN /\ tools' = st.tools /\ published' = st.published
        /\ filter' = [mode |-> f.mode, pending |-> f.pending]
        /\ IF st.ok THEN UNCHANGED client ELSE Conclude("Protocol")
  /\ UNCHANGED <<request, signals>>

Close ==
  /\ client.at = "closing" /\ decoder.frames = <<>>
  /\ LET st == FlushTools([tools |-> tools, published |-> published, ok |-> TRUE]) IN
     /\ tools' = st.tools /\ published' = st.published
     /\ Conclude(IF ~st.ok THEN "Protocol" ELSE IF Over(st.published) THEN "Ok" ELSE "PrematureEof")
  /\ UNCHANGED <<request, decoder, filter, signals>>

(* The user, and the clock.                                                   *)
Signal ==
  /\ client.at \in {"sending", "streaming"} /\ ~signals.cancelled /\ ~signals.expired
  /\ \/ signals' = [signals EXCEPT !.cancelled = TRUE]
     \/ signals' = [signals EXCEPT !.expired = TRUE]
  /\ UNCHANGED <<request, client, decoder, tools, filter, published>>

StreamNext(requests) ==
  \/ \E r \in requests : Configure(r)
  \/ Respond \/ GiveUp \/ EndOfBody \/ BodyFails \/ ProcessFrame \/ Close \/ Signal
  \/ \E n \in 1..(Len(request.tokens) - decoder.arrived) : Chunk(n)
-----------------------------------------------------------------------------
StreamTypeOK ==
  /\ client.at \in {"idle", "sending", "streaming", "closing", "done"}
  /\ DOMAIN client.config = DOMAIN Defaults
  /\ decoder.arrived \in 0..Len(request.tokens)
  /\ filter.mode \in Modes
  /\ signals \in [cancelled : BOOLEAN, expired : BOOLEAN]

(* However the answer is cut into chunks, a client that succeeds has          *)
(* published what a replay of the whole answer yields, and it finds fault     *)
(* only with an answer that the replay refuses too, or that is too large.     *)
WholeAnswer == Drained(request.tokens, TRUE, Len(request.tokens))
ChunksDoNotMatter ==
  LET replay == Replay(client.config.protocol, WholeAnswer.events)
      good == WholeAnswer.ok /\ replay.ok
  IN /\ client.result = "Ok" => good /\ published = replay.events
     /\ client.result \in {"Malformed", "Protocol", "PrematureEof"} =>
          ~good \/ ~Drained(request.tokens, TRUE, MaxEvent).ok

(* No character of the reasoning is ever published ("r" stands only there),   *)
(* and a client that succeeds has published all of the visible text.          *)
Characters(events) == FlattenSeq([i \in DOMAIN events |-> IF events[i].type = "text" THEN events[i].text ELSE <<>>])
Letters(text, c) == Len(SelectSeq(text, LAMBDA x : x = c))
Sent == FlattenSeq([i \in DOMAIN WholeAnswer.events |->
          IF "text" \in DOMAIN WholeAnswer.events[i] THEN WholeAnswer.events[i].text ELSE <<>>])
ReasoningHidden ==
  /\ Letters(Characters(published), "r") = 0
  /\ client.result = "Ok" => Letters(Characters(published), "a") = Letters(Sent, "a")

(* A call that is published has the arguments of that call and of no other,   *)
(* and nothing follows the terminal event.                                    *)
CallsIntact ==
  \A i \in DOMAIN published :
    /\ published[i].type = "fragments" =>
         \A f \in ToSet(published[i].fragments) :
            f.pieces = IF f.id = <<"call", "c1">> THEN <<"{1", "}1">> ELSE <<"{2", "}2">>
    /\ published[i].type = "terminal" => i = Len(published)

(* A request goes out with the provider and the endpoint that one layer sets  *)
(* together, never with the provider of one and the endpoint of another, and  *)
(* with the key of its own environment variable or of that provider.          *)
OneIdentity ==
  client.at \in {"sending", "streaming", "closing"} =>
    LET c == client.config
        r == request
    IN /\ \/ c.provider_id = Defaults.provider_id /\ c.endpoint = Defaults.endpoint
          \/ \E l \in ToSet(Sources) :
                /\ {"provider_id", "endpoint"} \subseteq DOMAIN r.layers[l]
                /\ c.provider_id = r.layers[l].provider_id /\ c.endpoint = r.layers[l].endpoint
       /\ client.key \in {r.environment[c.environment_key], r.keyring[c.provider_id]}
       /\ c.endpoint.scheme = "http" => c.loopback

(* What the provider client promises its caller.                              *)
StreamHonest == ChunksDoNotMatter /\ ReasoningHidden /\ CallsIntact /\ OneIdentity
=============================================================================
