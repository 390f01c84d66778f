------------------------------ MODULE Simulator ------------------------------
(***************************************************************************)
(* stdlib/time_simulation/time_simulation.c: one simulator (event queue,   *)
(* clock, statistics, run loop), the two file-level statics it shares with *)
(* its successors (global_sim_time, next_event_id), the program that       *)
(* drives it and the event handlers, which may call every operation of the *)
(* simulator again before they return.                                     *)
(*                                                                         *)
(* Control is a stack of activations.  An empty stack is the driving       *)
(* program; a "run" frame is an activation of simulator_run at the test of *)
(* its while loop; a "step" frame is an activation of simulator_step whose *)
(* handler has been entered.  Whatever is on top moves.                    *)
(*                                                                         *)
(* SimTime (a double) is modelled as an integer: order, sums and           *)
(* differences are what the code uses.  The caller's contract: an event is *)
(* scheduled once, right after event_create, and nothing is called on a    *)
(* simulator that has been destroyed.                                      *)
(***************************************************************************)
EXTENDS Integers, FiniteSets, Sequences, SequencesExt

CONSTANTS
    StartTime, EndTime,  \* arguments of simulator_create
    Times,               \* times an event may be scheduled for
    Deltas,              \* arguments of sim_clock_advance, sim_time_delay
    MaxEvents,           \* bound: events ever scheduled
    MaxClock,            \* bound: latest time a caller moves a clock to
    MaxDepth,            \* bound: activations on the stack
    MaxLoops             \* bound: activations of simulator_run on the stack

ASSUME SimAssumption ==
    /\ StartTime \in Int /\ EndTime \in Int
    /\ Times \subseteq Int /\ Deltas \subseteq Int
    /\ MaxEvents \in Nat /\ MaxClock \in Int
    /\ MaxDepth \in Nat /\ MaxLoops \in Nat

VARIABLES
    alive,            \* between simulator_create and simulator_destroy
    queue,            \* event_queue->head: the linked list, front first
    current_time, running, paused,
    total_events, processed_events, total_time, idle_time,
    global_sim_time, next_event_id,
    stack,            \* activations, innermost first
    finished,         \* history: ids whose handler has returned
    cancelled,        \* history: ids cancelled while queued
    base,             \* history: next_event_id when the simulator was created
    advanced          \* history: what callers of sim_clock_advance added

stats   == <<total_events, processed_events, total_time, idle_time>>
history == <<finished, cancelled, base, advanced>>
vars == <<alive, queue, current_time, running, paused, stats,
          global_sim_time, next_event_id, stack, history>>

Event == [id : Nat, time : Int]
Frame == [kind : {"run", "step"}, id : Nat, time : Int]

RunFrame == [kind |-> "run", id |-> 0, time |-> 0]
StepFrame(e) == [kind |-> "step", id |-> e.id, time |-> e.time]
EventOf(f) == [id |-> f.id, time |-> f.time]

Top(kind) == stack # <<>> /\ Head(stack).kind = kind
(* The driving program or a handler is executing and may call an operation. *)
CallerRuns == alive /\ ~ Top("run")
FramesOf(kind) == {i \in DOMAIN stack : stack[i].kind = kind}

-----------------------------------------------------------------------------
(* Event queue.                                                            *)

(* Mistake: an event is linked in front of events of its own time.         *)
LinksBeforeEquals(q, t, k) ==
    /\ \A j \in 1 .. k - 1 : q[j].time < t
    /\ k <= Len(q) => t <= q[k].time

(* Mistake: new events go to the end of the list.                          *)
LinksAtEnd(q, t, k) == k = Len(q) + 1

(* event_queue_schedule links an event of time t in front of the k-th node *)
(* of q: every node before it is no later than t, and the node that will   *)
(* follow it, if any, is later.  k = 1 is the insertion at the head; the   *)
(* other values are where the walk along current->next stops.              *)
LinksAt(q, t, k) ==
    /\ \A j \in 1 .. k - 1 : q[j].time <= t
    /\ k <= Len(q) => t < q[k].time

Finished == current_time >= EndTime

-----------------------------------------------------------------------------
(* Mistakes an author of this code could have made: each is an operation   *)
(* below with one thing wrong, and a property must notice it.              *)

(* The rest of simulator_step for an event e, given what it writes.        *)
Steps(e, rest, new_time, idle) ==
    /\ queue # <<>>
    /\ queue' = rest
    /\ stack' = <<StepFrame(e)>> \o stack
    /\ current_time' = new_time /\ global_sim_time' = new_time
    /\ idle_time' = idle_time + idle
    /\ UNCHANGED <<alive, running, paused, total_events, processed_events,
                   total_time, next_event_id, history>>

Later(e) == IF e.time > current_time THEN e.time ELSE current_time

(* The event is looked at (event_queue_peek), not taken.                   *)
BeginStepPeeks ==
    Steps(Head(queue), queue, Later(Head(queue)), Later(Head(queue)) - current_time)

(* The clock moves first, and the idle time is computed from it afterwards. *)
BeginStepIdleLate == Steps(Head(queue), Tail(queue), Later(Head(queue)), 0)

(* The handler is called before the clock has moved.                       *)
BeginStepClockLate == Steps(Head(queue), Tail(queue), current_time, 0)

(* The clock is set to the event's time without comparing.                 *)
BeginStepSetsClock ==
    Steps(Head(queue), Tail(queue), Head(queue).time, Head(queue).time - current_time)

(* The node is freed before it is unlinked, and what follows it is lost.   *)
CancelLosesTail(id) ==
    /\ CallerRuns
    /\ \E k \in DOMAIN queue :
          queue[k].id = id /\ queue' = SubSeq(queue, 1, k - 1)
    /\ cancelled' = cancelled \union {id}
    /\ UNCHANGED <<alive, current_time, running, paused, stats,
                   global_sim_time, next_event_id, stack, finished, base,
                   advanced>>

(* sim_clock_advance forgets the global copy.                              *)
AdvanceLocal(delta) ==
    /\ CallerRuns /\ delta >= 0 /\ current_time + delta <= MaxClock
    /\ current_time' = current_time + delta
    /\ advanced' = advanced + delta
    /\ UNCHANGED <<alive, queue, running, paused, stats, global_sim_time,
                   next_event_id, stack, finished, cancelled, base>>

(* The loop test does not look at paused.                                  *)
RunReturnAtEndOnly ==
    /\ Top("run") /\ Finished
    /\ running' = FALSE
    /\ stack' = Tail(stack)
    /\ UNCHANGED <<alive, queue, current_time, paused, stats,
                   global_sim_time, next_event_id, history>>

(* total_time is the time of the event, not of the clock.                  *)
FinishStepEventTime ==
    /\ Top("step")
    /\ total_time' = Head(stack).time
    /\ stack' = Tail(stack)
    /\ finished' = finished \union {Head(stack).id}
    /\ UNCHANGED <<alive, queue, current_time, running, paused, total_events,
                   processed_events, idle_time, global_sim_time,
                   next_event_id, cancelled, base, advanced>>

-----------------------------------------------------------------------------
Init ==
    /\ alive = FALSE
    /\ queue = <<>> /\ stack = <<>>
    /\ current_time = StartTime
    /\ running = FALSE /\ paused = FALSE
    /\ total_events = 0 /\ processed_events = 0
    /\ total_time = 0 /\ idle_time = 0
    /\ global_sim_time = 0 /\ next_event_id = 1
    /\ finished = {} /\ cancelled = {} /\ base = 1 /\ advanced = 0

(* simulator_create, all four allocations succeed.                         *)
Create ==
    /\ ~ alive
    /\ alive' = TRUE
    /\ queue' = <<>>
    /\ current_time' = StartTime /\ global_sim_time' = StartTime
    /\ running' = FALSE /\ paused' = FALSE
    /\ total_events' = 0 /\ processed_events' = 0
    /\ total_time' = 0 /\ idle_time' = 0
    /\ advanced' = 0
    /\ UNCHANGED <<next_event_id, stack, finished, cancelled, base>>

(* simulator_create returns NULL: sim_clock_create may have set the global *)
(* time before another allocation failed.                                  *)
CreateFails ==
    /\ ~ alive
    /\ global_sim_time' \in {global_sim_time, StartTime}
    /\ UNCHANGED <<alive, queue, current_time, running, paused, stats,
                   next_event_id, stack, history>>

(* simulator_destroy, by the driving program.                              *)
Destroy ==
    /\ alive /\ stack = <<>>
    /\ alive' = FALSE
    /\ queue' = <<>>
    /\ finished' = {} /\ cancelled' = {} /\ base' = next_event_id
    /\ UNCHANGED <<current_time, running, paused, stats, global_sim_time,
                   next_event_id, stack, advanced>>

(* simulator_schedule_event on a fresh event of time t.                    *)
Schedule(t) ==
    /\ CallerRuns
    /\ next_event_id <= MaxEvents
    /\ \E k \in 1 .. Len(queue) + 1 :
          /\ LinksAt(queue, t, k)
          /\ queue' = InsertAt(queue, k, [id |-> next_event_id, time |-> t])
    /\ next_event_id' = next_event_id + 1
    /\ total_events' = total_events + 1
    /\ processed_events' = processed_events + 1
    /\ UNCHANGED <<alive, current_time, running, paused, total_time,
                   idle_time, global_sim_time, stack, history>>

(* event_queue_cancel: the first queued event with this id is unlinked and *)
(* freed; for any other id the call does nothing.                          *)
Cancel(id) ==
    /\ CallerRuns
    /\ \E k \in DOMAIN queue :
          /\ queue[k].id = id
          /\ \A j \in 1 .. k - 1 : queue[j].id # id
          /\ queue' = RemoveAt(queue, k)
    /\ cancelled' = cancelled \union {id}
    /\ UNCHANGED <<alive, current_time, running, paused, stats,
                   global_sim_time, next_event_id, stack, finished, base,
                   advanced>>

(* sim_clock_advance called by the program or by a handler.                *)
Advance(delta) ==
    /\ CallerRuns
    /\ delta >= 0
    /\ current_time + delta <= MaxClock
    /\ current_time' = current_time + delta
    /\ global_sim_time' = current_time'
    /\ advanced' = advanced + delta
    /\ UNCHANGED <<alive, queue, running, paused, stats, next_event_id,
                   stack, finished, cancelled, base>>

(* sim_time_delay moves the global time only, with or without a simulator. *)
Delay(delta) ==
    /\ ~ Top("run")
    /\ delta > 0
    /\ global_sim_time + delta <= MaxClock
    /\ global_sim_time' = global_sim_time + delta
    /\ UNCHANGED <<alive, queue, current_time, running, paused, stats,
                   next_event_id, stack, history>>

Pause ==
    /\ CallerRuns
    /\ paused' = TRUE /\ running' = FALSE
    /\ UNCHANGED <<alive, queue, current_time, stats, global_sim_time,
                   next_event_id, stack, history>>

Resume ==
    /\ CallerRuns
    /\ paused' = FALSE /\ running' = TRUE
    /\ UNCHANGED <<alive, queue, current_time, stats, global_sim_time,
                   next_event_id, stack, history>>

-----------------------------------------------------------------------------
(* The run loop and the step.                                              *)

(* simulator_run up to its first loop test.                                *)
Run ==
    /\ CallerRuns
    /\ Len(stack) + 1 < MaxDepth
    /\ Cardinality(FramesOf("run")) < MaxLoops
    /\ running' = TRUE /\ paused' = FALSE
    /\ stack' = <<RunFrame>> \o stack
    /\ UNCHANGED <<alive, queue, current_time, stats, global_sim_time,
                   next_event_id, history>>

(* simulator_step up to the entry of the handler: the event leaves the     *)
(* queue, and the clock moves to it unless the clock is there already.     *)
BeginStep ==
    /\ queue # <<>>
    /\ queue' = Tail(queue)
    /\ stack' = <<StepFrame(Head(queue))>> \o stack
    /\ IF Head(queue).time > current_time
       THEN /\ current_time' = Head(queue).time
            /\ global_sim_time' = current_time'
            /\ idle_time' = idle_time + (Head(queue).time - current_time)
       ELSE UNCHANGED <<current_time, global_sim_time, idle_time>>
    /\ UNCHANGED <<alive, running, paused, total_events, processed_events,
                   total_time, next_event_id, history>>

(* One turn of the loop; a direct call of simulator_step.                  *)
RunIterate == Top("run") /\ ~ Finished /\ ~ paused /\ BeginStep
CallStep   == CallerRuns /\ Len(stack) < MaxDepth /\ BeginStep

(* One turn of the loop on an empty queue: simulator_step returns at once. *)
RunIdle ==
    /\ Top("run") /\ ~ Finished /\ ~ paused
    /\ queue = <<>>
    /\ UNCHANGED vars

(* The loop test fails and simulator_run returns.                          *)
RunReturn ==
    /\ Top("run") /\ (Finished \/ paused)
    /\ running' = FALSE
    /\ stack' = Tail(stack)
    /\ UNCHANGED <<alive, queue, current_time, paused, stats,
                   global_sim_time, next_event_id, history>>

(* The handler returns (or there was none): the rest of simulator_step.    *)
FinishStep ==
    /\ Top("step")
    /\ total_time' = current_time
    /\ stack' = Tail(stack)
    /\ finished' = finished \union {Head(stack).id}
    /\ UNCHANGED <<alive, queue, current_time, running, paused, total_events,
                   processed_events, idle_time, global_sim_time,
                   next_event_id, cancelled, base, advanced>>

-----------------------------------------------------------------------------
Next ==
    \/ Create \/ CreateFails \/ Destroy
    \/ \E t \in Times : Schedule(t)
    \/ \E id \in 1 .. MaxEvents : Cancel(id)
    \/ \E delta \in Deltas : Advance(delta) \/ Delay(delta)
    \/ Pause \/ Resume
    \/ Run \/ RunIterate \/ RunIdle \/ RunReturn
    \/ CallStep \/ FinishStep

Spec == Init /\ [][Next]_vars

(* The loop is not preempted for ever, and every handler returns.          *)
Fairness ==
    /\ WF_vars(RunIterate) /\ WF_vars(RunReturn)
    /\ SF_vars(FinishStep)

FairSpec == Spec /\ Fairness

-----------------------------------------------------------------------------
Before(e, f) == e.time < f.time \/ (e.time = f.time /\ e.id < f.id)

QueueIds == {queue[i].id : i \in DOMAIN queue}
FlightIds == {stack[i].id : i \in FramesOf("step")}

(* Queue, clocks, statistics and the stack of activations are well formed. *)
TypeOK ==
    /\ alive \in BOOLEAN /\ running \in BOOLEAN /\ paused \in BOOLEAN
    /\ queue \in Seq(Event) /\ stack \in Seq(Frame)
    /\ current_time \in Int /\ global_sim_time \in Int
    /\ total_events \in Nat /\ processed_events \in Nat
    /\ total_time \in Int /\ idle_time \in Nat
    /\ next_event_id \in Nat \ {0} /\ base \in Nat \ {0}
    /\ finished \subseteq Nat /\ cancelled \subseteq Nat
    /\ advanced \in Nat

(* The list that event_queue_schedule, _next and _cancel edit in place     *)
(* stays in firing order: by time, and first come first served among       *)
(* events of one time (ids grow with every call).                          *)
QueueOrdered ==
    \A i, j \in DOMAIN queue : i < j => Before(queue[i], queue[j])

(* No event is lost, duplicated or resurrected, however handlers schedule, *)
(* cancel and step recursively: every id this simulator handed out is      *)
(* queued, in flight, finished or cancelled, and only one of them; and     *)
(* total_events counts exactly these ids.                                  *)
EveryEventAccountedFor ==
    /\ QueueIds \union FlightIds \union finished \union cancelled
          = base .. next_event_id - 1
    /\ QueueIds \intersect (FlightIds \union finished \union cancelled) = {}
    /\ FlightIds \intersect (finished \union cancelled) = {}
    /\ finished \intersect cancelled = {}
    /\ \A i, j \in DOMAIN queue : i # j => queue[i].id # queue[j].id
    /\ \A i, j \in FramesOf("step") : i # j => stack[i].id # stack[j].id
    /\ alive => total_events = next_event_id - base

(* The clock's whole displacement is either recorded as idle time by       *)
(* simulator_step or was asked for through sim_clock_advance.              *)
ElapsedTimeAccountedFor ==
    alive => idle_time + advanced = current_time - StartTime

(* A handler never runs before its event's time, nested steps included.    *)
InFlightEventsAreDue ==
    \A i \in FramesOf("step") : stack[i].time <= current_time

(* sim_time_now is never behind the live simulator's clock, although       *)
(* sim_time_delay moves one of the two statics only.                       *)
GlobalTimeNotBehind == alive => current_time <= global_sim_time

(* The idle share sim_stats_print computes stays a share once no step is   *)
(* in flight, for simulations that start at time 0 or later.               *)
IdleIsAShareOfTotal ==
    (alive /\ FramesOf("step") = {} /\ StartTime >= 0)
        => (total_time > 0 => idle_time <= total_time)

(* When simulator_step takes an event, no other event is left behind that  *)
(* the clock has just passed: what is late afterwards was late before.     *)
NoEventOvertaken ==
    [][BeginStep => \A i \in DOMAIN queue' :
            queue'[i].time < current_time' => queue'[i].time < current_time]_vars

(* While one simulator lives its clock never goes back, although events    *)
(* may be scheduled in the past.                                           *)
ClockNeverBack ==
    [][alive /\ alive' => current_time' >= current_time]_vars

(* The queue, loop and statistics implement the agenda.                    *)
AG == INSTANCE Agenda WITH
        pending   <- {queue[i] : i \in DOMAIN queue},
        inflight  <- {EventOf(stack[i]) : i \in FramesOf("step")},
        withdrawn <- cancelled,
        last      <- next_event_id - 1,
        now       <- current_time
AgendaSpec == AG!Spec

(* A run that is entered comes back, or polls a queue that stays empty: it *)
(* never hangs while there is something left to fire.                      *)
Starved == Top("run") /\ queue = <<>> /\ ~ Finished /\ ~ paused
RunReturnsOrStarves == FramesOf("run") # {} ~> (FramesOf("run") = {} \/ Starved)
=============================================================================
