----------------------------- MODULE RingQueue -----------------------------
(***************************************************************************)
(* stdlib/data_structures/queue.c: a queue of pointers in a ring buffer    *)
(* that doubles when it is full.  malloc may fail while it grows           *)
(* (AllocMayFail); queue_enqueue does not notice.                          *)
(***************************************************************************)
EXTENDS Integers, Sequences, FiniteSets

CONSTANTS
    Element,         \* objects whose addresses the caller enqueues
    Junk,            \* a pointer read from memory no one has written
    InitCapacity,    \* argument of queue_create
    DefaultCapacity, \* DEFAULT_CAPACITY
    GrowthFactor,    \* GROWTH_FACTOR
    HasDestructor,   \* free_element # NULL
    AllocMayFail     \* whether resize_queue's malloc may return NULL

ASSUME QueueAssumption ==
    /\ Junk \notin Element
    /\ InitCapacity \in Int
    /\ DefaultCapacity \in Nat \ {0} /\ GrowthFactor \in Nat \ {0, 1}
    /\ HasDestructor \in BOOLEAN /\ AllocMayFail \in BOOLEAN

VARIABLES
    elements,   \* the array, a function on 0 .. capacity - 1
    front, rear, count, capacity,
    held,       \* history: elements that are with the caller
    freed       \* history: elements handed to free_element

vars == <<elements, front, rear, count, capacity, held, freed>>

Slots(n) == 0 .. n - 1

-----------------------------------------------------------------------------
(* What a read of the array returns, past its end included.                *)
Load(i) == IF i \in DOMAIN elements THEN elements[i] ELSE Junk

-----------------------------------------------------------------------------
(* Mistakes an author of this code could have made: each is an operation   *)
(* below with one thing wrong, and a property must notice it.              *)

(* The ring is copied from the start of the array.                         *)
GrownFromZero ==
    [elements |-> [i \in Slots(GrowthFactor * capacity) |->
                     IF i < count THEN Load(i) ELSE Junk],
     front |-> 0, rear |-> count, capacity |-> GrowthFactor * capacity]

(* rear is not moved behind the copied elements.                           *)
GrownKeepsRear ==
    LET first_part == capacity - front IN
    [elements |-> [i \in Slots(GrowthFactor * capacity) |->
                     IF i < first_part THEN Load(front + i)
                     ELSE IF i < count THEN Load(i - first_part) ELSE Junk],
     front |-> 0, rear |-> rear, capacity |-> GrowthFactor * capacity]

(* The index after the last one is not 0.                                  *)
DequeueNoWrap ==
    /\ count > 0
    /\ held' = held \union ({elements[front]} \ {Junk})
    /\ front' = front + 1 /\ count' = count - 1
    /\ UNCHANGED <<elements, rear, capacity, freed>>

(* The elements are freed from the start of the array.                     *)
ClearFromZero ==
    LET es == {elements[i] : i \in 0 .. count - 1} \ {Junk} IN
    /\ IF HasDestructor
       THEN freed' = freed \union es /\ UNCHANGED held
       ELSE held' = held \union es /\ UNCHANGED freed
    /\ front' = 0 /\ rear' = 0 /\ count' = 0
    /\ UNCHANGED <<elements, capacity>>

-----------------------------------------------------------------------------

(* The ring as resize_queue leaves it, when its malloc succeeds or fails.  *)
Grown ==
    LET first_part == capacity - front IN
    [elements |-> [i \in Slots(GrowthFactor * capacity) |->
                     IF front < rear
                     THEN IF i < count THEN Load(front + i) ELSE Junk
                     ELSE IF i < first_part THEN Load(front + i)
                     ELSE IF i < first_part + rear THEN Load(i - first_part)
                     ELSE Junk],
     front |-> 0, rear |-> count, capacity |-> GrowthFactor * capacity]

AsIs == [elements |-> elements, front |-> front, rear |-> rear,
         capacity |-> capacity]

(* What queue_enqueue finds after its capacity check.                      *)
Resized ==
    IF count >= capacity
    THEN {Grown} \union (IF AllocMayFail THEN {AsIs} ELSE {})
    ELSE {AsIs}

-----------------------------------------------------------------------------
Init ==
    /\ capacity = (IF InitCapacity <= 0 THEN DefaultCapacity ELSE InitCapacity)
    /\ elements = [i \in Slots(capacity) |-> Junk]
    /\ front = 0 /\ rear = 0 /\ count = 0
    /\ held = Element /\ freed = {}

(* queue_enqueue.  Bound: the array is not overrun by more than a growth   *)
(* step can copy.                                                          *)
Enqueue(e) ==
    /\ e \in held
    /\ count < GrowthFactor * capacity
    /\ \E r \in Resized :
          /\ elements' = [r.elements EXCEPT ![r.rear] = e]
          /\ rear' = (r.rear + 1) % r.capacity
          /\ front' = r.front
          /\ capacity' = r.capacity
    /\ count' = count + 1
    /\ held' = held \ {e}
    /\ UNCHANGED freed

(* queue_dequeue; what it returns belongs to the caller again.             *)
Dequeue ==
    /\ count > 0
    /\ held' = held \union ({elements[front]} \ {Junk})
    /\ front' = (front + 1) % capacity
    /\ count' = count - 1
    /\ UNCHANGED <<elements, rear, capacity, freed>>

(* queue_get_at, and queue_peek at index 0.                                *)
At(index) == elements[(front + index) % capacity]

Items == [i \in 1 .. count |-> At(i - 1)]
ItemSet == {At(i) : i \in Slots(count)}

(* queue_clear (and what queue_destroy does first).                        *)
Clear ==
    /\ IF HasDestructor
       THEN freed' = freed \union (ItemSet \ {Junk}) /\ UNCHANGED held
       ELSE held' = held \union (ItemSet \ {Junk}) /\ UNCHANGED freed
    /\ front' = 0 /\ rear' = 0 /\ count' = 0
    /\ UNCHANGED <<elements, capacity>>

Next == (\E e \in Element : Enqueue(e)) \/ Dequeue \/ Clear

Spec == Init /\ [][Next]_vars

-----------------------------------------------------------------------------
(* The indices stay inside the array.                                      *)
TypeOK ==
    /\ capacity \in Nat \ {0}
    /\ elements \in [Slots(capacity) -> Element \union {Junk}]
    /\ front \in Slots(capacity) /\ rear \in Slots(capacity)
    /\ count \in Nat
    /\ held \subseteq Element /\ freed \subseteq Element

(* The three redundant fields agree: rear is where the next element goes   *)
(* after count elements from front, and the ring is never overfull.        *)
RingConsistent ==
    /\ count <= capacity
    /\ rear = (front + count) % capacity

(* Every pointer a traversal reaches was enqueued, and no element is at    *)
(* two positions, or in the queue and with the caller, or freed twice.     *)
OneOwner ==
    /\ \A i \in Slots(count) : At(i) \in Element \ (held \union freed)
    /\ \A i, j \in Slots(count) : i # j => At(i) # At(j)
    /\ held \intersect freed = {}
    /\ Element = held \union freed \union ItemSet

(* First in, first out, across wrap-around and growth.                     *)
FQ == INSTANCE Fifo WITH items <- Items
FifoSpec == FQ!Spec

(* queue.h:25, "Add an element to the back of the queue": an enqueue keeps *)
(* what the queue held and puts the element behind it.                     *)
EnqueueAddsAtBack ==
    [][\A e \in Element : Enqueue(e) => Items' = Append(Items, e)]_vars
=============================================================================
