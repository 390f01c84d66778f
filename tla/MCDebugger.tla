----------------------------- MODULE MCDebugger -----------------------------
(* Small instances of Debugger for TLC.  Compiled code always calls the    *)
(* hook with line 0 (codegen.cpp:497).                                     *)
EXTENDS Debugger
=============================================================================
