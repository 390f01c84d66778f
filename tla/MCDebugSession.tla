--------------------------- MODULE MCDebugSession ---------------------------
(* A small instance of DebugSession for TLC.  Compiled code always calls   *)
(* the hook with line 0 (codegen.cpp:497).                                 *)
EXTENDS DebugSession
=============================================================================
