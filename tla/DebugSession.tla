---------------------------- MODULE DebugSession ----------------------------
(***************************************************************************)
(* One run of main() with -g, --breakpoint and --execute: the DebugContext *)
(* is given its breakpoints, codegen_generate writes the call trace into   *)
(* it, and codegen_execute_jit then runs the program, whose calls enter    *)
(* the debugger's hook with the same context.  Debugger is the breakpoint  *)
(* half of the context, CallTrace the tracing half.                        *)
(***************************************************************************)
EXTENDS Debugger

CONSTANTS PerfEnabled, MaxNesting, MaxTime, MaxFailures  \* of CallTrace

ASSUME TraceAssumption ==
    /\ PerfEnabled \in BOOLEAN
    /\ MaxNesting \in Nat /\ MaxTime \in Nat \ {0} /\ MaxFailures \in Nat

VARIABLES
    phase,  \* where main() is
    indent_level, perf_start_time, now, doomed, open, lines, timed, leaked

Trace == INSTANCE CallTrace

traceVars == <<indent_level, perf_start_time, now, doomed, open, lines, timed,
               leaked>>

sessionVars == <<vars, traceVars, phase>>

SessionInit == Init /\ Trace!Init /\ phase = "options"

(* The breakpoint options, in the order they were given.                   *)
Options ==
    /\ phase = "options"
    /\ \E type \in Types : \E location \in Locations(type) :
          SetBreakpoint(type, location)
    /\ UNCHANGED <<traceVars, phase>>

BeginGeneration ==
    /\ phase = "options" /\ phase' = "generate"
    /\ UNCHANGED <<vars, traceVars>>

(* codegen_generate: no hook runs and no breakpoint changes.               *)
Generate ==
    /\ phase = "generate" /\ Trace!Next
    /\ UNCHANGED <<vars, phase>>

(* codegen_generate has succeeded.  Of what the trace left in the context  *)
(* only indent_level is read again, by debug_log; the rest is forgotten.   *)
BeginExecution ==
    /\ phase = "generate" /\ open = <<>>
    /\ phase' = "execute"
    /\ doomed' = 0 /\ perf_start_time' = 0 /\ now' = 1
    /\ lines' = [call |-> 0, ret |-> 0, open |-> <<>>]
    /\ timed' = Trace!Nothing
    /\ UNCHANGED <<vars, indent_level, open, leaked>>

Execute ==
    /\ phase = "execute" /\ Next
    /\ UNCHANGED <<traceVars, phase>>

SessionNext ==
    Options \/ BeginGeneration \/ Generate \/ BeginExecution \/ Execute

SessionSpec == SessionInit /\ [][SessionNext]_sessionVars

-----------------------------------------------------------------------------
(* Both halves of the context stay well-formed in every phase.             *)
SessionTypeOK ==
    TypeOK /\ Trace!TypeOK /\ phase \in {"options", "generate", "execute"}

(* A RET line stands under its own CALL line, also when calls in between   *)
(* were given up; what is left of the indentation when the program starts  *)
(* to run, and indents the debugger's lines, is exactly those calls.       *)
ReturnsUnderItsCall == Trace!ReturnsUnderItsCall

(* A duration that is logged is that of the call it is logged for, never   *)
(* that of a call nested in it or of one that was given up before.         *)
LoggedDurationIsItsOwn == Trace!LoggedDurationIsItsOwn
=============================================================================
