------------------------------ MODULE Debugger ------------------------------
(***************************************************************************)
(* debug/debug.c and debug/debug_runtime.c: the breakpoint list of a       *)
(* DebugContext, the hook that code compiled with a debug context calls    *)
(* when it enters a call, and the interactive prompt the hook opens.       *)
(*                                                                         *)
(* The JIT-compiled program runs on the compiler's own thread: it calls    *)
(* the hook, the hook blocks at the prompt until the user resumes or stdin *)
(* ends.  Breakpoints are set, removed and switched between hook calls.    *)
(***************************************************************************)
EXTENDS Integers, Sequences, SequencesExt

CONSTANTS
    Line,            \* line numbers the hook is called with, as text
    Function,        \* names of the functions the program calls
    BpLine, BpFunction,  \* locations breakpoints are set at
    MaxBreakpoints,  \* bound: breakpoints ever set
    MaxHits          \* bound: hits counted on one breakpoint

ASSUME DebuggerAssumption ==
    /\ MaxBreakpoints \in Nat /\ MaxHits \in Nat

VARIABLES
    enabled,             \* ctx->enabled
    breakpoints,         \* the list, newest first
    next_breakpoint_id,
    debugger_state,
    current_line, current_function,
    prompting,           \* the hook is in its command loop
    logged               \* last line written by debug_log_breakpoint_hit

vars == <<enabled, breakpoints, next_breakpoint_id, debugger_state,
          current_line, current_function, prompting, logged>>

Types == {"line", "function"}
States == {"RUNNING", "BREAK", "STEP", "FINISHED"}
None == [id |-> 0, count |-> 0]

Locations(type) == IF type = "line" THEN BpLine ELSE BpFunction

Breakpoint == [id : Nat, type : Types, location : BpLine \union BpFunction,
               on : BOOLEAN, hit_count : Nat]

-----------------------------------------------------------------------------
(* Mistakes an author of this code could have made: each is an operation   *)
(* below with one thing wrong, and a property must notice it.              *)

(* Disabled breakpoints count as well.                                     *)
CandidatesAny(list, type, position) ==
    {i \in DOMAIN list :
        list[i].type = type
        /\ position = IF type = "line" THEN current_line' ELSE current_function'}

(* A new breakpoint with the given id and count.                           *)
Adds(type, location, id, hits) ==
    /\ ~ prompting
    /\ next_breakpoint_id <= MaxBreakpoints
    /\ breakpoints' = <<[id |-> id, type |-> type, location |-> location,
                         on |-> TRUE, hit_count |-> hits]>> \o breakpoints
    /\ next_breakpoint_id' = next_breakpoint_id + 1
    /\ UNCHANGED <<enabled, debugger_state, current_line, current_function,
                   prompting, logged>>

(* hit_count is not initialised (-1 stands for what malloc left there).    *)
SetBreakpointRaw(type, location) ==
    \E hits \in {-1, 0} : Adds(type, location, next_breakpoint_id, hits)

(* Ids are given out by position.                                          *)
SetBreakpointByPosition(type, location) ==
    Adds(type, location, Len(breakpoints) + 1, 0)

(* A breakpoint stops the program although the user has quit.              *)
CheckAfterQuit(d, type, position) ==
    LET hits == {i \in DOMAIN d.list :
                    d.list[i].on /\ d.list[i].type = type}
    IN  IF hits = {} THEN d
        ELSE LET i == CHOOSE i \in hits : \A j \in hits : i <= j
                 list == [d.list EXCEPT ![i].hit_count = @ + 1]
             IN  [list |-> list, state |-> "BREAK",
                  log |-> [id |-> list[i].id, count |-> list[1].hit_count]]

(* A check that finds no breakpoint lets the program run on.               *)
CheckResumes(d, type, position) ==
    LET hits == {i \in DOMAIN d.list :
                    d.list[i].on /\ d.list[i].type = type}
    IN  IF d.state = "FINISHED" THEN d
        ELSE IF hits = {} THEN [d EXCEPT !.state = "RUNNING"]
        ELSE LET i == CHOOSE i \in hits : \A j \in hits : i <= j
                 list == [d.list EXCEPT ![i].hit_count = @ + 1]
             IN  [list |-> list, state |-> "BREAK",
                  log |-> [id |-> list[i].id, count |-> list[1].hit_count]]

-----------------------------------------------------------------------------

(* debug_check_breakpoint(ctx, type, position).  The position is compared  *)
(* with ctx->current_line or ctx->current_function, which debug_set_location *)
(* has just set to it: the first enabled breakpoint of the type matches.   *)
Position(type) == IF type = "line" THEN current_line' ELSE current_function'

Candidates(list, type, position) ==
    {i \in DOMAIN list : list[i].on /\ list[i].type = type
                         /\ position = Position(type)}

IsFirst(i, S) == i \in S /\ \A j \in S : i <= j

(* d is the list, state and log line before the check; the result after it. *)
Check(d, type, position) ==
    LET hits == {i \in Candidates(d.list, type, position) :
                    IsFirst(i, Candidates(d.list, type, position))}
    IN  IF d.state = "FINISHED" \/ hits = {}
        THEN d
        ELSE LET i == CHOOSE i \in hits : TRUE
                 list == [d.list EXCEPT ![i].hit_count = @ + 1]
             IN  [list |-> list, state |-> "BREAK",
                  log |-> [id |-> list[i].id, count |-> list[1].hit_count]]

-----------------------------------------------------------------------------
Init ==
    /\ enabled = TRUE
    /\ breakpoints = <<>> /\ next_breakpoint_id = 1
    /\ debugger_state = "RUNNING"
    /\ current_line = "0" /\ current_function = "none"
    /\ prompting = FALSE
    /\ logged = None

SetBreakpoint(type, location) ==
    /\ ~ prompting
    /\ next_breakpoint_id <= MaxBreakpoints
    /\ breakpoints' = <<[id |-> next_breakpoint_id, type |-> type,
                         location |-> location, on |-> TRUE,
                         hit_count |-> 0]>> \o breakpoints
    /\ next_breakpoint_id' = next_breakpoint_id + 1
    /\ UNCHANGED <<enabled, debugger_state, current_line, current_function,
                   prompting, logged>>

RemoveBreakpoint(id) ==
    /\ ~ prompting
    /\ \E i \in DOMAIN breakpoints :
          /\ breakpoints[i].id = id
          /\ breakpoints' = RemoveAt(breakpoints, i)
    /\ UNCHANGED <<enabled, next_breakpoint_id, debugger_state, current_line,
                   current_function, prompting, logged>>

EnableBreakpoint(id, on) ==
    /\ ~ prompting
    /\ \E i \in DOMAIN breakpoints :
          /\ breakpoints[i].id = id
          /\ breakpoints' = [breakpoints EXCEPT ![i].on = on]
    /\ UNCHANGED <<enabled, next_breakpoint_id, debugger_state, current_line,
                   current_function, prompting, logged>>

(* debug_enable.                                                           *)
Enable(on) ==
    /\ ~ prompting
    /\ enabled' = on
    /\ UNCHANGED <<breakpoints, next_breakpoint_id, debugger_state,
                   current_line, current_function, prompting, logged>>

(* The states in which the hook opens its prompt.                          *)
StopsIn(state) == state \in {"BREAK", "STEP"}

(* simscript_debug_hook up to its prompt: debug_set_location checks the    *)
(* line breakpoints, then the function breakpoints.                        *)
Hook(line, function) ==
    /\ enabled /\ ~ prompting
    /\ \A i \in DOMAIN breakpoints : breakpoints[i].hit_count < MaxHits
    /\ current_line' = line /\ current_function' = function
    /\ LET before == [list |-> breakpoints, state |-> debugger_state, log |-> logged]
           after  == Check(Check(before, "line", line), "function", function)
       IN  /\ breakpoints' = after.list
           /\ debugger_state' = after.state
           /\ logged' = after.log
    /\ prompting' = StopsIn(debugger_state')
    /\ UNCHANGED <<enabled, next_breakpoint_id>>

(* A command that resumes the program, or leaves the debugger for good.    *)
Resume(command, state) ==
    /\ prompting
    /\ <<command, state>> \in {<<"continue", "RUNNING">>, <<"step", "STEP">>,
                               <<"quit", "FINISHED">>}
    /\ debugger_state' = state
    /\ prompting' = FALSE
    /\ UNCHANGED <<enabled, breakpoints, next_breakpoint_id, current_line,
                   current_function, logged>>

(* breakpoints, variables, print, memory, help and unknown commands.       *)
Inspect == prompting /\ UNCHANGED vars

(* fgets returns NULL: the loop is left with the state as it is.           *)
InputEnds ==
    /\ prompting
    /\ prompting' = FALSE
    /\ UNCHANGED <<enabled, breakpoints, next_breakpoint_id, debugger_state,
                   current_line, current_function, logged>>

Next ==
    \/ \E type \in Types : \E location \in Locations(type) :
          SetBreakpoint(type, location)
    \/ \E id \in 1 .. MaxBreakpoints :
          RemoveBreakpoint(id) \/ \E on \in BOOLEAN : EnableBreakpoint(id, on)
    \/ \E on \in BOOLEAN : Enable(on)
    \/ \E line \in Line, function \in Function : Hook(line, function)
    \/ \E command \in {"continue", "step", "quit"}, state \in States :
          Resume(command, state)
    \/ Inspect \/ InputEnds

Spec == Init /\ [][Next]_vars

-----------------------------------------------------------------------------
(* A session is always in one of the debugger's states and at a position.  *)
TypeOK ==
    /\ enabled \in BOOLEAN /\ prompting \in BOOLEAN
    /\ breakpoints \in Seq(Breakpoint)
    /\ next_breakpoint_id \in Nat \ {0}
    /\ debugger_state \in States
    /\ current_line \in Line \union {"0"}
    /\ current_function \in Function \union {"none"}
    /\ logged \in [id : Nat, count : Nat]

(* Ids identify breakpoints through any mix of setting and removing: the   *)
(* list is newest first and no id is handed out again.                     *)
IdsIdentify ==
    /\ \A i, j \in DOMAIN breakpoints :
          i < j => breakpoints[i].id > breakpoints[j].id
    /\ \A i \in DOMAIN breakpoints : breakpoints[i].id < next_breakpoint_id

(* "quit" ends the session: no later hook counts a hit or stops again.     *)
QuitIsFinal ==
    [][debugger_state = "FINISHED"
         => /\ debugger_state' = "FINISHED" /\ ~ prompting'
            /\ logged' = logged]_vars

(* "step" stops at the very next hook, whatever breakpoints there are.     *)
StepStopsNext ==
    [][(debugger_state = "STEP" /\ \E l \in Line, f \in Function : Hook(l, f))
         => prompting']_vars

Rises(i) == breakpoints'[i].hit_count # breakpoints[i].hit_count

(* The counts explain the stops: a program that runs freely is stopped by  *)
(* a call of the hook exactly if some breakpoint counts a hit in it, and   *)
(* only breakpoints that are switched on count, one hit in one call.       *)
HitsExplainStops ==
    [][(\E l \in Line, f \in Function : Hook(l, f))
         => /\ \A i \in DOMAIN breakpoints : Rises(i) =>
                  /\ breakpoints[i].on
                  /\ breakpoints'[i].hit_count = breakpoints[i].hit_count + 1
            /\ debugger_state = "RUNNING" =>
                  (prompting' <=> \E i \in DOMAIN breakpoints : Rises(i))]_vars

(* main.cpp:24, "--breakpoint <type> <location> Set breakpoint": the       *)
(* program stops in a break only where some breakpoint was set.            *)
BreaksAtLocation ==
    [][(debugger_state = "RUNNING" /\ debugger_state' = "BREAK")
         => \E i \in DOMAIN breakpoints :
               breakpoints[i].location = Position(breakpoints[i].type)]_vars
=============================================================================
