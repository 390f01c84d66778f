-------------------------------- MODULE Fifo --------------------------------
(***************************************************************************)
(* What a queue of owned elements promises: elements leave in the order in *)
(* which they came, and at any time an element is with the caller, in the  *)
(* queue, or freed.                                                        *)
(***************************************************************************)
EXTENDS Sequences

CONSTANT Element

VARIABLES
    items,   \* the queue, oldest element first
    held,    \* elements the caller owns
    freed    \* elements that were released by the queue

vars == <<items, held, freed>>

Init == items = <<>> /\ held = Element /\ freed = {}

Put(e) ==
    /\ e \in held
    /\ items' = Append(items, e)
    /\ held' = held \ {e}
    /\ UNCHANGED freed

Take ==
    /\ items # <<>>
    /\ items' = Tail(items)
    /\ held' = held \union {Head(items)}
    /\ UNCHANGED freed

(* Drop everything: with a destructor the elements are freed, without one  *)
(* they are lost to the queue and left to the caller.                      *)
Drop ==
    /\ items' = <<>>
    /\ \/ /\ freed' = freed \union {items[i] : i \in DOMAIN items}
          /\ UNCHANGED held
       \/ /\ held' = held \union {items[i] : i \in DOMAIN items}
          /\ UNCHANGED freed

Next == (\E e \in Element : Put(e)) \/ Take \/ Drop

Spec == Init /\ [][Next]_vars
=============================================================================
