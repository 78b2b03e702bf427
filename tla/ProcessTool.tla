----------------------------- MODULE ProcessTool -----------------------------
(* The tools that run one finite program: tools/src/process.rs, with the      *)
(* command lines of git.rs and npm.rs and the sandbox of sandbox.rs (Linux).  *)
(*                                                                            *)
(* A call checks its arguments, starts the program, reads its two pipes and   *)
(* waits for its end, and ends the whole tree when the user cancels, the time *)
(* is up, a pipe fails or there is too much output.                           *)
(*                                                                            *)
(* Abstractions.  Output is counted in chunks.  The program may start a       *)
(* helper, and a daemon that leaves the process group; each keeps the pipes   *)
(* or closes them.  A tree is ended by kill(1), which may fail, and whose     *)
(* TERM may be ignored.  When a sandboxed child ends, its namespace ends.     *)
EXTENDS ToolPolicy, SequencesExt

CONSTANTS MaxOutput,   \* the limit of both streams together
          MaxWritten   \* bound: chunks a stream is given
ASSUME ProcessAssumption == {MaxOutput, MaxWritten} \subseteq Nat

VARIABLES process,   \* the call under way
          sandbox,   \* what the sandbox of the child allows
          tree,      \* the processes the call has started
          streams,   \* the two pipes
          stop       \* what asks the call to stop

processVars == <<process, sandbox, tree, streams, stop>>

Procs == {"child", "helper", "daemon"}
Streams == {"stdout", "stderr"}
NoRequest == [at |-> "idle", inv |-> Invocation("none", "none", <<>>, "fit", FALSE), policy |-> "none",
              line |-> <<>>, why |-> Passed, cleaned |-> TRUE, result |-> Passed]

ProcessInit ==
  /\ process = NoRequest
  /\ sandbox = [guarded |-> FALSE, writable |-> {}, calls |-> {}]
  /\ tree = [alive |-> {}, born |-> {}, holders |-> {}, reaped |-> FALSE, code |-> "none",
             forced |-> "no", touched |-> {}]
  /\ streams = [s \in Streams |-> [written |-> 0, read |-> 0, closed |-> FALSE, unsafe |-> FALSE]]
  /\ stop = [cancelled |-> FALSE, expired |-> FALSE]

Step(step) == process' = [process EXCEPT !.at = step]
End(result) == process' = [process EXCEPT !.at = "done", !.result = result]
-----------------------------------------------------------------------------
(* The command line of a tool: tokens of the program's own, and tokens the    *)
(* model chose, marked as such.                                               *)
Own(token) == [token |-> token, given |-> FALSE]
Given(token) == [token |-> token, given |-> TRUE]
Ends == Own("--")

ProcessArg(name) == process.inv.args[name]
HasArg(name) == name \in DOMAIN process.inv.args
Token(path) == IF path.form = "relative" /\ path.to # "option" THEN Passed ELSE Rejected("invalid_arguments")
GivenPath == IF HasArg("path") THEN <<Given(ProcessArg("path").to)>> ELSE <<>>

(* What the tools tell apart in the values of a call. *)
PathKinds == {"script", "file", "missing", "outside", "option"}
ScriptKinds == {"test", "odd_name", "no_package", "large_package", "binary_package", "unknown",
                "unsafe_body", "wrapped"}
PatternKinds == {"word", "option", "shell"}
ResultLimits == {"some", "none_or_too_many"}
ProcessTools == {"git_status", "git_diff", "npm_diagnostic", "run_diagnostic"}
ProcessCall(inv) ==
  /\ inv.tool \in ProcessTools
  /\ "path" \in DOMAIN inv.args => inv.args.path \in Paths /\ inv.args.path.to \in PathKinds
  /\ "script" \in DOMAIN inv.args => inv.args.script \in ScriptKinds
  /\ "pattern" \in DOMAIN inv.args => inv.args.pattern \in PatternKinds
  /\ "max_results" \in DOMAIN inv.args => inv.args.max_results \in ResultLimits

(* prepare_status, prepare_diff: the path, if any, may not exist yet. *)
GitCheck ==
  IF HasArg("path")
  THEN LET p == ProcessArg("path") r == ResolveWrite(p, p.to = "outside")
       IN Outcome(<< <<Token(p) # Passed, Token(p)>>, <<r # Passed, r>> >>)
  ELSE Passed
GitLine == <<Own("git"), Own(process.inv.tool), Ends>> \o GivenPath

(* prepare_npm: a script of package.json, by its name, its body and the       *)
(* scripts npm would run before and after it.                                 *)
NpmCheck ==
  LET script == ProcessArg("script") IN
  Outcome(<< <<script = "odd_name", Rejected("invalid_arguments")>>,
             <<script = "no_package", Rejected("path_not_found")>>,
             <<script = "large_package", Rejected("input_limit")>>,
             <<script = "binary_package", Rejected("binary_file")>>,
             <<script = "unknown", Rejected("invalid_arguments")>>,
             <<script \in {"unsafe_body", "wrapped"}, Rejected("unsafe_script")>> >>)
NpmLine == <<Own("npm"), Own("run"), Given(ProcessArg("script")), Ends, Own("--no-color")>>

(* prepare_diagnostic *)
DiagnosticCheck ==
  LET existing == LET p == ProcessArg("path") IN ResolveExisting(p, p.to = "missing", p.to = "outside")
      path == IF ~HasArg("path") THEN Rejected("invalid_arguments")
              ELSE Outcome(<< <<Token(ProcessArg("path")) # Passed, Token(ProcessArg("path"))>>,
                              <<existing # Passed, existing>> >>)
  IN CASE ProcessArg("action") = "node_check" ->
            Outcome(<< <<HasArg("pattern") \/ HasArg("max_results"), Rejected("invalid_arguments")>>,
                       <<path # Passed, path>>,
                       <<HasArg("path") /\ ProcessArg("path").to # "script", Rejected("wrong_file_type")>> >>)
       [] ProcessArg("action") = "rg_search" ->
            Outcome(<< <<~HasArg("path") \/ ~HasArg("pattern"), Rejected("invalid_arguments")>>,
                       <<HasArg("pattern") /\ ProcessArg("pattern") \in {"option", "shell"}, Rejected("invalid_arguments")>>,
                       <<path # Passed, path>>,
                       <<HasArg("max_results") /\ ProcessArg("max_results") # "some", Rejected("invalid_arguments")>> >>)
       [] OTHER ->
            IF HasArg("path") \/ HasArg("pattern") \/ HasArg("max_results")
            THEN Rejected("invalid_arguments") ELSE Passed
DiagnosticLine ==
  CASE ProcessArg("action") = "node_check" -> <<Own("node"), Own("--check"), Ends>> \o GivenPath
    [] ProcessArg("action") = "rg_search" -> <<Own("rg"), Own("--fixed-strings"), Ends, Given(ProcessArg("pattern"))>> \o GivenPath
    [] OTHER -> <<Own("cargo"), Own(ProcessArg("action"))>>

(* Check and Line of the tool that is called. *)
Prepared ==
  CASE process.inv.tool \in {"git_status", "git_diff"} -> <<GitCheck, GitLine>>
    [] process.inv.tool = "npm_diagnostic" -> <<NpmCheck, NpmLine>>
    [] process.inv.tool = "run_diagnostic" ->
         <<DiagnosticCheck, IF DiagnosticCheck = Passed THEN DiagnosticLine ELSE <<>> >>

Request(inv, policy) ==
  /\ process.at = "idle" /\ UNCHANGED <<sandbox, tree, streams, stop>>
  /\ LET checked == Preflight(inv, "Confirm", "Restricted", stop.cancelled) IN
     process' = [process EXCEPT !.inv = inv, !.policy = policy, !.result = checked,
                                !.at = IF checked = Passed THEN "prepare" ELSE "done"]
PrepareLine ==
  /\ process.at = "prepare" /\ UNCHANGED <<sandbox, tree, streams, stop>>
  /\ IF Prepared[1] # Passed THEN End(Prepared[1])
     ELSE process' = [process EXCEPT !.at = "spawn", !.line = Prepared[2]]
-----------------------------------------------------------------------------
(* bubblewrap_args: the mounts of the sandbox, the last that fits decides.    *)
(* What is protected is guarded when it is there, and is no link.             *)
Mounts(guarded) ==
  << <<"system", "ro">>, <<"project", "rw">>, <<"protected", "rw">>,   \* --bind of the workspace
     <<"protected", IF guarded THEN "ro" ELSE "rw">> >>
Writable(mounts) ==
  {mounts[i][1] : i \in {k \in DOMAIN mounts : /\ mounts[k][2] = "rw"
                                              /\ \A l \in DOMAIN mounts : l > k => mounts[l][1] # mounts[k][1]}}

(* network_seccomp_program, and the kernel that runs it: system calls are     *)
(* known by their numbers, the architecture by 62 (x86_64).                   *)
Sockets == <<41, 248, 249, 250, 425>>
X32 == 1073741824
Load(what) == [op |-> "load", value |-> what, yes |-> 0, no |-> 0]
Jump(op, value, yes, no) == [op |-> op, value |-> value, yes |-> yes, no |-> no]
Answers(answer) == [op |-> "return", value |-> answer, yes |-> 0, no |-> 0]
Filter ==
  <<Load("arch"), Jump("equal", 62, 1, 0), Answers("kill"),
    Load("nr"), Jump("atleast", X32, 0, 1), Answers("refuse")>>
  \o [k \in 1..(2 * Len(Sockets)) |->
        IF k % 2 = 1 THEN Jump("equal", Sockets[(k + 1) \div 2], 0, 1) ELSE Answers("refuse")]
  \o <<Answers("allow")>>
Executed(run, call) ==
  LET i == Filter[run.pc]
      holds == IF i.op = "equal" THEN run.acc = i.value ELSE run.acc >= i.value
  IN CASE i.op = "return" -> run
       [] i.op = "load" -> [pc |-> run.pc + 1, acc |-> call[i.value]]
       [] OTHER -> [run EXCEPT !.pc = @ + 1 + (IF holds THEN i.yes ELSE i.no)]
Filtered(call) ==
  LET after[n \in 0..Len(Filter)] ==
        IF n = 0 THEN [pc |-> 1, acc |-> 0] ELSE Executed(after[n - 1], call)
  IN Filter[after[Len(Filter)].pc].value
SystemCalls == [arch : {62, 3}, nr : {0, 40, 41, 42, 53, 248, 250, 251, 425, 426, X32 + 41}]

(* restricted_command: what has to be there before anything is started; found *)
(* is what the launch meets on this machine.                                  *)
Machines == [bwrap : BOOLEAN, home : BOOLEAN, userns : BOOLEAN,
             program : {"system", "project", "missing"}, guarded : BOOLEAN]
Restricted(found) ==
  Outcome(<< <<~found.bwrap, Failed("sandbox_unavailable")>>,
             <<~found.home, Failed("sandbox_denied")>>,
             <<found.program # "system", Failed("sandbox_denied")>>,
             <<~found.userns, Failed("sandbox_denied")>> >>)
Launched(found) ==
  Outcome(<< <<stop.cancelled, CancelledResult>>,
             <<process.policy = "Restricted" /\ Restricted(found) # Passed, Restricted(found)>>,
             <<found.program = "missing", Failed("spawn_failed")>> >>)

(* run_with_policy, up to the start of the child. *)
Spawn(found) ==
  /\ process.at = "spawn" /\ UNCHANGED <<streams, stop>>
  /\ \/ Launched(found) # Passed /\ End(Launched(found)) /\ UNCHANGED <<sandbox, tree>>
     \/ Launched(found) = Passed /\ End(Failed("spawn_failed")) /\ UNCHANGED <<sandbox, tree>>
     \/ /\ Launched(found) = Passed
        /\ process' = [NoRequest EXCEPT !.at = "loop", !.policy = process.policy]
        /\ tree' = [tree EXCEPT !.alive = {"child"}, !.born = {"child"}, !.holders = {"child"}]
        /\ sandbox' = IF process.policy = "Disabled" THEN sandbox
                      ELSE [guarded |-> found.guarded, writable |-> Writable(Mounts(found.guarded)),
                            calls |-> {c \in SystemCalls : Filtered(c) = "allow"}]

(* The loop ends when both pipes are closed and the end of the child is seen. *)
FaultyAllSeen == tree.reaped
AllSeen == tree.reaped /\ \A s \in Streams : streams[s].closed
Loop == process.at = "loop" /\ ~AllSeen
Stopping == stop.cancelled \/ stop.expired
Terminate(why) == process' = [process EXCEPT !.at = "term", !.why = why]

(* The select is biased: cancellation first, then the timer, then the child.  *)
Interrupted ==
  /\ Loop /\ Stopping /\ UNCHANGED <<sandbox, tree, streams, stop>>
  /\ Terminate(IF stop.cancelled THEN CancelledResult ELSE Failed("timed_out"))

(* exceeds_output_limit, and a chunk that is kept. *)
TotalRead == streams["stdout"].read + streams["stderr"].read
ReadChunk(s) ==
  /\ Loop /\ ~Stopping /\ streams[s].written > streams[s].read /\ UNCHANGED <<sandbox, tree, stop>>
  /\ IF TotalRead + 1 > MaxOutput THEN Terminate(Failed("output_limit")) /\ UNCHANGED streams
     ELSE streams' = [streams EXCEPT ![s].read = @ + 1] /\ UNCHANGED process
ReadEnd(s) ==
  /\ Loop /\ ~Stopping /\ ~streams[s].closed
  /\ tree.holders = {} /\ streams[s].written = streams[s].read
  /\ streams' = [streams EXCEPT ![s].closed = TRUE] /\ UNCHANGED <<process, sandbox, tree, stop>>
SeeExit ==
  /\ Loop /\ ~Stopping /\ "child" \notin tree.alive /\ ~tree.reaped
  /\ tree' = [tree EXCEPT !.reaped = TRUE] /\ UNCHANGED <<process, sandbox, streams, stop>>
ReadFails ==
  /\ Loop /\ ~Stopping /\ Terminate(Failed("process_io")) /\ UNCHANGED <<sandbox, tree, streams, stop>>

(* complete_process and into_tool_result *)
Complete ==
  /\ process.at = "loop" /\ AllSeen /\ UNCHANGED <<sandbox, tree, streams, stop>>
  /\ \/ /\ streams["stdout"].read > 0 /\ End(Failed("binary_file"))
     \/ IF streams["stdout"].unsafe THEN End(Failed("secret_content"))
        ELSE End(IF tree.code = "zero" THEN Passed ELSE Failed("nonzero_exit"))
-----------------------------------------------------------------------------
(* terminate_and_wait.  The group: in a sandbox only its first process, since *)
(* bubblewrap gives the others a session of their own; a child that is dead   *)
(* but not yet waited for is still a member.                                  *)
Grouped == IF process.policy = "Restricted" THEN {"child"} ELSE {"child", "helper"}
Group == tree.alive \cap Grouped
GroupExists == Group # {} \/ ~tree.reaped
Without(dead) ==
  LET gone == IF process.policy = "Restricted" /\ "child" \in dead THEN Procs ELSE dead
  IN [tree EXCEPT !.alive = @ \ gone, !.holders = @ \ gone,
                  !.code = IF "child" \in dead /\ "child" \in tree.alive THEN "signal" ELSE @]

SendTerm ==
  /\ process.at = "term" /\ UNCHANGED <<sandbox, streams, stop>>
  /\ \/ GroupExists /\ Step("grace") /\ \E dead \in SUBSET Group : tree' = Without(dead)
     \/ \* no such group, or kill(1) fails, or takes longer than a second
        /\ process' = [process EXCEPT !.at = "wait", !.cleaned = FALSE]
        /\ \E dead \in SUBSET Group : tree' = Without(dead)
SendKill ==
  /\ process.at = "grace" /\ Step("wait") /\ UNCHANGED <<sandbox, streams, stop>>
  /\ \/ tree' = [Without(Group) EXCEPT !.forced = "sent"]
     \/ tree' = [tree EXCEPT !.forced = "lost"]
WaitChild ==
  /\ process.at = "wait" /\ UNCHANGED <<sandbox, streams, stop>>
  /\ tree' = [Without(IF tree.reaped THEN {} ELSE {"child"}) EXCEPT !.reaped = TRUE]
  /\ End(IF process.cleaned THEN process.why ELSE Denied("Indeterminate", "cleanup_unknown"))
-----------------------------------------------------------------------------
(* The program and what it starts. *)
Running == process.at \notin {"idle", "done"} /\ UNCHANGED <<process, sandbox, stop>>
Written == streams["stdout"].written + streams["stderr"].written
Write(p, s, unsafe) ==
  /\ Running /\ p \in tree.holders /\ Written < MaxWritten
  /\ streams' = [streams EXCEPT ![s].written = @ + 1, ![s].unsafe = @ \/ unsafe]
  /\ UNCHANGED tree
Fork(p, keeps) ==
  /\ Running /\ "child" \in tree.alive /\ p \notin tree.born
  /\ tree' = [tree EXCEPT !.alive = @ \cup {p}, !.born = @ \cup {p},
                          !.holders = IF keeps THEN @ \cup {p} ELSE @]
  /\ UNCHANGED streams
Exit(p, code) ==
  /\ Running /\ p \in tree.alive
  /\ tree' = [Without({p}) EXCEPT !.code = IF p = "child" THEN code ELSE @]
  /\ UNCHANGED streams

Touch(place) ==
  /\ Running /\ tree.alive # {} /\ process.policy = "Restricted" /\ place \notin tree.touched
  /\ IF place = "network" THEN [arch |-> 62, nr |-> 41] \in sandbox.calls
     ELSE place \in sandbox.writable
  /\ tree' = [tree EXCEPT !.touched = @ \cup {place}] /\ UNCHANGED streams

CancelProcess ==
  /\ ~stop.cancelled /\ process.at # "done" /\ stop' = [stop EXCEPT !.cancelled = TRUE]
  /\ UNCHANGED <<process, sandbox, tree, streams>>
TimeUp ==
  /\ Loop /\ ~stop.expired /\ stop' = [stop EXCEPT !.expired = TRUE]
  /\ UNCHANGED <<process, sandbox, tree, streams>>

Places == {"system", "project", "protected", "network"}
ProcessNext(invocations) ==
  \/ \E inv \in invocations, policy \in {"Restricted", "Disabled"} : Request(inv, policy)
  \/ PrepareLine \/ (\E found \in Machines : Spawn(found)) \/ Interrupted \/ SeeExit \/ ReadFails \/ Complete
  \/ \E s \in Streams : ReadChunk(s) \/ ReadEnd(s)
  \/ SendTerm \/ SendKill \/ WaitChild \/ CancelProcess \/ TimeUp
  \/ \E p \in Procs, s \in Streams, unsafe \in BOOLEAN : Write(p, s, unsafe /\ s = "stdout")
  \/ \E p \in Procs, keeps \in BOOLEAN : Fork(p, keeps)
  \/ \E p \in Procs, code \in {"zero", "other"} : Exit(p, code)
  \/ \E place \in Places : Touch(place)
-----------------------------------------------------------------------------
ProcessTypeOK ==
  /\ tree.alive \subseteq tree.born /\ tree.holders \subseteq tree.alive /\ tree.born \subseteq Procs
  /\ tree.code \in {"none", "zero", "other", "signal"} /\ tree.forced \in {"no", "sent", "lost"}
  /\ \A s \in Streams : streams[s].read <= streams[s].written
  /\ Written <= MaxWritten /\ TotalRead <= MaxOutput
  /\ process.at \in {"idle", "prepare", "spawn", "loop", "term", "grace", "wait", "done"}
  /\ process.result \in Results /\ stop \in [cancelled : BOOLEAN, expired : BOOLEAN]

(* Nothing the model chose is taken for an option: it comes after the -- of   *)
(* the command line, or it is the name of a script; and a path does not lead  *)
(* out of the workspace.                                                      *)
LineIsFixed ==
  process.at = "spawn" =>
    \A i \in DOMAIN process.line : process.line[i].given =>
      /\ process.line[i].token \notin {"option", "outside", "odd_name"}
      /\ (\E k \in 1..i : process.line[k] = Ends) \/ process.inv.tool = "npm_diagnostic"

(* The result of a program is what happened.  A success: it ended by itself   *)
(* with zero, everything it and its helpers have written was read, and        *)
(* nothing holds the pipes any more.  A stop: the child is gone and waited    *)
(* for, with it everything in a sandbox, and in the child's group at most     *)
(* what ignores a TERM and was not reached by the KILL.  A rejection: nothing *)
(* was started.                                                               *)
EndIsReal ==
  process.at = "done" =>
    /\ process.result.status = "Succeeded" =>
         /\ tree.code = "zero" /\ tree.reaped /\ tree.holders = {}
         /\ \A s \in Streams : streams[s].read = streams[s].written
         /\ ~streams["stdout"].unsafe
         /\ process.policy = "Restricted" => tree.alive = {}
    /\ process.result.code \in {"cancelled", "timed_out", "output_limit", "process_io"} /\ tree.born # {} =>
         /\ "child" \notin tree.alive /\ tree.reaped
         /\ process.policy = "Restricted" => tree.alive = {}
         /\ "helper" \in tree.alive => tree.forced = "lost"
    /\ process.result.status = "Rejected" => tree.born = {}

(* A sandboxed program changes nothing but the project, and no protected      *)
(* directory that was there; the filter refuses every way to a socket, and    *)
(* nothing else.                                                              *)
SandboxHolds ==
  process.policy = "Restricted" /\ tree.born # {} =>
    /\ tree.touched \subseteq {"project"} \cup (IF sandbox.guarded THEN {} ELSE {"protected"})
    /\ sandbox.calls = {c \in SystemCalls : c.arch = 62 /\ c.nr < X32 /\ c.nr \notin ToSet(Sockets)}

ProcessHonest == LineIsFixed /\ EndIsReal /\ SandboxHolds
=============================================================================
