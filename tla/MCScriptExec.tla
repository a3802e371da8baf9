---------------------------- MODULE MCScriptExec ----------------------------
(* Model checking of ScriptExec: three scripts, process identifiers that may *)
(* be used again, and at most three lines a file. *)
EXTENDS ScriptExec
=============================================================================
