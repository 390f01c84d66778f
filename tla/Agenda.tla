------------------------------- MODULE Agenda -------------------------------
(***************************************************************************)
(* What a discrete-event simulator promises, with no queue, no loop and no *)
(* call stack: posted entries wait in a set; the entry that fires is       *)
(* always the earliest one, first come first served among equal times; an  *)
(* entry fires at most once, a withdrawn one never; the time never goes    *)
(* back and never passes an entry that is still waiting, unless a caller   *)
(* moves the time itself.                                                  *)
(***************************************************************************)
EXTENDS Integers

VARIABLES
    pending,     \* entries [id, time] that wait
    inflight,    \* entries whose handler has been entered and not left
    finished,    \* ids whose handler has been left
    withdrawn,   \* ids taken back before they fired
    last,        \* largest id handed out so far
    now          \* the simulated time

vars == <<pending, inflight, finished, withdrawn, last, now>>

Entry == [id : Nat, time : Int]

Earlier(e, f) == e.time < f.time \/ (e.time = f.time /\ e.id < f.id)

Init ==
    /\ pending = {} /\ inflight = {} /\ finished = {} /\ withdrawn = {}
    /\ last = 0
    /\ now \in Int

Post ==
    \E e \in pending' :
        /\ e \in Entry /\ e.id = last + 1
        /\ pending' = pending \union {e}
        /\ last' = e.id
        /\ UNCHANGED <<inflight, finished, withdrawn, now>>

Withdraw ==
    \E e \in pending :
        /\ pending' = pending \ {e}
        /\ withdrawn' = withdrawn \union {e.id}
        /\ UNCHANGED <<inflight, finished, last, now>>

(* The earliest entry fires and carries the time to its own time.          *)
Fire ==
    \E e \in pending :
        /\ \A f \in pending \ {e} : Earlier(e, f)
        /\ pending' = pending \ {e}
        /\ inflight' = inflight \union {e}
        /\ now' = IF e.time > now THEN e.time ELSE now
        /\ UNCHANGED <<finished, withdrawn, last>>

Complete ==
    \E e \in inflight :
        /\ inflight' = inflight \ {e}
        /\ finished' = finished \union {e.id}
        /\ UNCHANGED <<pending, withdrawn, last, now>>

(* A caller moves the time itself.                                         *)
Elapse ==
    /\ now' \in Int /\ now' >= now
    /\ UNCHANGED <<pending, inflight, finished, withdrawn, last>>

(* Everything is dropped and the time starts afresh; ids are not reused.   *)
Restart ==
    /\ inflight = {}
    /\ pending' = {} /\ inflight' = {} /\ finished' = {} /\ withdrawn' = {}
    /\ now' \in Int
    /\ UNCHANGED last

Next == Post \/ Withdraw \/ Fire \/ Complete \/ Elapse \/ Restart

Spec == Init /\ [][Next]_vars
=============================================================================
