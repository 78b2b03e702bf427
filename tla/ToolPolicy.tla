------------------------------ MODULE ToolPolicy ------------------------------
(* What every builtin tool asks before it does anything: tools/src/policy.rs, *)
(* path.rs and error.rs, and the definitions of protocol/src/tool.rs.         *)
(*                                                                            *)
(* Abstractions.  The arguments of a call are a function from the names of    *)
(* its fields to values.  A path is a record: whether it is lexically a       *)
(* relative path, what its components are called, and what it leads to.  The  *)
(* texts a scan for secrets looks at are left to the modules that have them.  *)
EXTENDS Naturals, Sequences, FiniteSets, FiniteSetsExt

Denied(status, code) == [status |-> status, code |-> code]
Rejected(code) == Denied("Rejected", code)
Failed(code) == Denied("Failed", code)
CancelledResult == Denied("Cancelled", "cancelled")
Passed == Denied("Succeeded", "ok")
Codes ==   \* ToolDenialCode
  {"cancelled", "unknown_tool", "invalid_arguments", "effect_mismatch", "invalid_path", "outside_workspace",
   "protected_path", "secret_path", "secret_content", "path_not_found", "wrong_file_type", "binary_file",
   "input_limit", "output_limit", "entry_limit", "hash_conflict", "occurrence_conflict", "overlapping_matches",
   "already_exists", "io_denied", "io_failed", "spawn_failed", "sandbox_unavailable", "sandbox_denied",
   "process_io", "nonzero_exit", "timed_out", "unsafe_script", "cleanup_unknown", "shell_requires_full_access",
   "shell_session_not_found", "shell_session_limit", "shell_launch_failed", "shell_stop_indeterminate"}
Results == {Passed} \cup [status : {"Rejected", "Failed", "Cancelled", "Indeterminate"}, code : Codes]

(* A function of the code that returns early: the first check that fails.     *)
Outcome(checks) ==
  LET failing == {i \in DOMAIN checks : checks[i][1]}
  IN IF failing = {} THEN Passed ELSE checks[Min(failing)][2]

Paths == [form : {"relative", "other"}, name : {"public", "protected", "secret"}, to : STRING]

(* validate_relative_path, ensure_public_path and the scan of the names.      *)
ValidPath(p) == p.form = "relative"
PathCheck(p) ==
  Outcome(<< <<~ValidPath(p), Rejected("invalid_path")>>,
             <<p.name = "protected", Rejected("protected_path")>>,
             <<p.name = "secret", Rejected("secret_path")>> >>)

(* WorkspaceRoot: the path leads into the workspace once links are followed;  *)
(* a new file needs only an ancestor that does.                               *)
ResolveExisting(p, missing, outside) ==
  Outcome(<< <<~ValidPath(p), Rejected("invalid_path")>>,
             <<missing, Rejected("path_not_found")>>,
             <<outside, Rejected("outside_workspace")>> >>)
ResolveWrite(p, outside) ==
  Outcome(<< <<~ValidPath(p), Rejected("invalid_path")>>,
             <<outside, Rejected("outside_workspace")>> >>)
-----------------------------------------------------------------------------
(* The registered tools: their effect and the fields of their arguments.      *)
ShellTools == {"shell_command", "shell_session"}
Schema(effect, required, optional) ==
  [effect |-> effect, required |-> required, properties |-> required \cup optional]
Schemas ==
  [read_file |-> Schema("Read", {"path"}, {}),
   list_directory |-> Schema("Read", {"path"}, {}),
   apply_patch |-> Schema("Write", {"path", "expected_sha256", "edits"}, {}),
   write_file |-> Schema("Write", {"path", "mode", "content"}, {"expected_sha256"}),
   run_diagnostic |-> Schema("Process", {"action"}, {"path", "pattern", "max_results"}),
   git_status |-> Schema("Process", {}, {"path"}),
   git_diff |-> Schema("Process", {}, {"path", "cached"}),
   npm_diagnostic |-> Schema("Process", {"script"}, {}),
   shell_command |-> Schema("Process", {"command"}, {"cwd", "tty", "yield_time_ms", "max_output_bytes"}),
   shell_session |-> Schema("Process", {"session_id", "action"},
                            {"input", "submit", "yield_time_ms", "max_output_bytes"})]

(* A call: its tool, the effect it was classified with, its arguments, what   *)
(* is wrong with their values - nothing, more bytes than a call or a field of *)
(* a shell tool may have, a value of another type or out of its range - and   *)
(* whether a value other than the path holds a secret.                        *)
Invocation(tool, effect, args, values, secret) ==
  [tool |-> tool, effect |-> effect, args |-> args, values |-> values, secret |-> secret]

(* validate_call and validate_schema_value. *)
Fits(inv) ==
  LET schema == Schemas[inv.tool] IN
  /\ schema.required \subseteq DOMAIN inv.args
  /\ DOMAIN inv.args \subseteq schema.properties
  /\ inv.values # "ill_typed"

(* Preflight.check_with_context *)
Preflight(inv, mode, sandbox, cancelled) ==
  LET known == inv.tool \in DOMAIN Schemas
      shell == inv.tool \in ShellTools
  IN Outcome(<<
       <<cancelled, CancelledResult>>,
       <<inv.values = "too_large", Rejected("input_limit")>>,
       <<~known, Rejected("unknown_tool")>>,
       <<known /\ Schemas[inv.tool].effect # inv.effect, Rejected("effect_mismatch")>>,
       <<known /\ ~Fits(inv), Rejected("invalid_arguments")>>,
       <<shell /\ ~(mode = "FullAccess" /\ sandbox = "Disabled"),
         Rejected("shell_requires_full_access")>>,
       <<~shell /\ "path" \in DOMAIN inv.args /\ PathCheck(inv.args["path"]) # Passed,
         IF "path" \in DOMAIN inv.args THEN PathCheck(inv.args["path"]) ELSE Passed>>,
       <<~shell /\ inv.secret, Rejected("secret_content")>> >>)

(* Preflight.ensure_safe_output *)
SafeOutput(large, nul, secret) ==
  Outcome(<< <<large, Failed("output_limit")>>,
             <<nul, Failed("binary_file")>>,
             <<secret, Rejected("secret_content")>> >>)
=============================================================================
