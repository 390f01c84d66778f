----------------------------- MODULE CallTrace -----------------------------
(***************************************************************************)
(* The call trace a DebugContext writes while codegen_expression generates *)
(* (nested) function calls: debug_log_function_call and debug_perf_start   *)
(* before the arguments, debug_log_function_return and debug_perf_end      *)
(* after the call.  When an argument comes back NULL the call returns NULL *)
(* and logs nothing more, and so will every call around it; but the other  *)
(* operand of a binary expression in between is generated before that.     *)
(***************************************************************************)
EXTENDS Integers, Sequences

CONSTANTS
    PerfEnabled,  \* level >= DEBUG_LEVEL_DETAILED
    MaxNesting,   \* bound: calls nested as arguments of one another
    MaxTime,      \* bound: timestamps
    MaxFailures   \* bound: failed expressions

VARIABLES
    indent_level,
    perf_start_time,  \* 0 when no timing is under way
    now,              \* debug_get_timestamp()
    doomed,           \* calls still open that have an argument without value
    open,             \* history: timestamps at which the open calls started,
                      \* innermost first
    lines,            \* history: how the last RET line and its CALL line were
                      \* indented, and how the calls still open are
    timed,            \* history: the last duration logged and the true one
    leaked            \* history: calls that were left by a failure

vars == <<indent_level, perf_start_time, now, doomed, open, lines, timed, leaked>>

Nothing == [logged |-> 0, true |-> 0]

Init ==
    /\ indent_level = 0 /\ perf_start_time = 0
    /\ now = 1
    /\ open = <<>> /\ doomed = 0 /\ leaked = 0
    /\ lines = [call |-> 0, ret |-> 0, open |-> <<>>]
    /\ timed = Nothing

(* clock() may or may not have moved since it was last read.               *)
Tick == now' \in {now, now + 1} /\ now' <= MaxTime

(* debug_perf_start: a timing that is under way is forgotten.              *)
PerfStarted == IF PerfEnabled THEN now' ELSE perf_start_time

StartCall ==
    /\ Len(open) < MaxNesting
    /\ Tick
    /\ lines' = [lines EXCEPT !.open = <<indent_level>> \o @]
    /\ indent_level' = indent_level + 1
    /\ perf_start_time' = PerfStarted
    /\ open' = <<now'>> \o open
    /\ UNCHANGED <<doomed, timed, leaked>>

-----------------------------------------------------------------------------
(* Mistakes an author of this code could have made: each is an operation   *)
(* below with one thing wrong, and a property must notice it.              *)

(* The end of a call, given where its RET line stands and what is left in  *)
(* perf_start_time.                                                        *)
Ends(ret, perf) ==
    /\ Tick
    /\ indent_level' = indent_level - 1
    /\ lines' = [call |-> Head(lines.open), ret |-> ret, open |-> Tail(lines.open)]
    /\ timed' = IF PerfEnabled /\ perf_start_time # 0
                THEN [logged |-> now' - perf_start_time, true |-> now' - Head(open)]
                ELSE Nothing
    /\ perf_start_time' = perf
    /\ open' = Tail(open)
    /\ UNCHANGED <<doomed, leaked>>

(* An argument without value does not stop the call.                       *)
EndCallAnyway == open # <<>> /\ Ends(indent_level - 1, 0)

(* RET is logged before the indentation is taken back.                     *)
EndCallLogsFirst == Len(open) > doomed /\ Ends(indent_level, 0)

(* The start of the timing is not cleared.                                 *)
EndCallKeepsStart == Len(open) > doomed /\ Ends(indent_level - 1, perf_start_time)

-----------------------------------------------------------------------------

Decreased == IF indent_level > 0 THEN indent_level - 1 ELSE 0

EndCall ==
    /\ Len(open) > doomed
    /\ Tick
    /\ indent_level' = Decreased
    /\ lines' = [call |-> Head(lines.open), ret |-> indent_level',
                 open |-> Tail(lines.open)]
    /\ IF PerfEnabled /\ perf_start_time # 0
       THEN /\ timed' = [logged |-> now' - perf_start_time,
                         true |-> now' - Head(open)]
            /\ perf_start_time' = 0
       ELSE timed' = Nothing /\ UNCHANGED perf_start_time
    /\ open' = Tail(open)
    /\ UNCHANGED <<doomed, leaked>>

(* An undefined function or variable among the arguments: the n innermost  *)
(* calls, up to the next binary expression or statement, are left.         *)
Fail(n) ==
    /\ leaked + n <= MaxFailures
    /\ leaked' = leaked + n
    /\ doomed' = Len(open) - n
    /\ open' = SubSeq(open, n + 1, Len(open))
    /\ lines' = [lines EXCEPT !.open = SubSeq(@, n + 1, Len(@))]
    /\ UNCHANGED <<indent_level, perf_start_time, now, timed>>

Next == StartCall \/ EndCall \/ \E n \in 1 .. Len(open) : Fail(n)

Spec == Init /\ [][Next]_vars

-----------------------------------------------------------------------------
(* A trace has no more doomed calls than open ones, and every time in it   *)
(* is one the clock has shown.                                             *)
TypeOK ==
    /\ indent_level \in Nat /\ leaked \in Nat
    /\ now \in 1 .. MaxTime /\ perf_start_time \in 0 .. MaxTime
    /\ open \in Seq(1 .. MaxTime) /\ doomed \in 0 .. Len(open)
    /\ lines.call \in Nat /\ lines.ret \in Nat /\ lines.open \in Seq(Nat)
    /\ timed \in [logged : Nat, true : Nat]

(* A RET line stands under its own CALL line, also when calls in between   *)
(* were given up, and the floor in debug_indent_decrease is never needed:  *)
(* the indentation is off by exactly the calls a failure has left open.    *)
ReturnsUnderItsCall ==
    /\ lines.ret = lines.call
    /\ indent_level = Len(open) + leaked

(* A duration that is logged is that of the call it is logged for, never   *)
(* that of a call nested in it or of one that was given up before.         *)
LoggedDurationIsItsOwn == timed.logged = timed.true
=============================================================================
