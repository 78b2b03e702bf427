----------------------------- MODULE MCShellHost -----------------------------
(* ShellHost for TLC. *)
EXTENDS ShellHost, TLC
=============================================================================
