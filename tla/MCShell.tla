------------------------------ MODULE MCShell -------------------------------
(* Instances of ShellRun for TLC. *)
EXTENDS ShellRun
=============================================================================
