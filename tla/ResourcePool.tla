---------------------------- MODULE ResourcePool ----------------------------
(***************************************************************************)
(* stdlib/data_structures/resource.c: a counted resource, and the          *)
(* simulation processes (clients) that share it.  A client gives back only *)
(* what it was given; resource_reset may come at any time.                 *)
(***************************************************************************)
EXTENDS Integers, FiniteSets

CONSTANTS
    Client,
    Total,            \* total_units, argument of resource_create
    MaxHeld           \* bound: units one client accumulates over resets

ASSUME PoolAssumption ==
    /\ Total \in Nat \ {0} /\ MaxHeld \in Nat
    /\ IsFiniteSet(Client)

VARIABLES
    available_units, busy_units,
    hold,     \* history: the units each client has been given
    lost      \* history: the units that were held at the last reset

vars == <<available_units, busy_units, hold, lost>>

(* The units in the clients' hands, those of each client numbered; Held is *)
(* the sum of hold[c] over all clients.                                    *)
Units == {u \in Client \X (1 .. MaxHeld) : u[2] <= hold[u[1]]}
Held  == Cardinality(Units)

-----------------------------------------------------------------------------
(* Mistakes an author of this code could have made: each is an operation   *)
(* below with one thing wrong, and a property must notice it.              *)

(* Some unit is available, but not as many as are asked for.               *)
RequestIfAny(c, n) ==
    /\ n > 0 /\ available_units > 0 /\ hold[c] + n <= MaxHeld
    /\ available_units' = available_units - n
    /\ busy_units' = busy_units + n
    /\ hold' = [hold EXCEPT ![c] = @ + n]
    /\ UNCHANGED lost

(* busy_units is set, not increased.                                       *)
RequestSets(c, n) ==
    /\ n > 0 /\ available_units >= n /\ hold[c] + n <= MaxHeld
    /\ available_units' = available_units - n
    /\ busy_units' = n
    /\ hold' = [hold EXCEPT ![c] = @ + n]
    /\ UNCHANGED lost

(* busy_units is not reset.                                                *)
ResetAvailable ==
    /\ available_units' = Total
    /\ lost' = Held
    /\ UNCHANGED <<busy_units, hold>>

-----------------------------------------------------------------------------

Init ==
    /\ available_units = Total /\ busy_units = 0
    /\ hold = [c \in Client |-> 0] /\ lost = 0

(* resource_request: all of the units or none.                             *)
Request(c, n) ==
    /\ n > 0
    /\ available_units >= n
    /\ hold[c] + n <= MaxHeld
    /\ available_units' = available_units - n
    /\ busy_units' = busy_units + n
    /\ hold' = [hold EXCEPT ![c] = @ + n]
    /\ UNCHANGED lost

(* resource_release: refused for more units than are busy.                 *)
Release(c, n) ==
    /\ n \in 1 .. hold[c]
    /\ n <= busy_units
    /\ busy_units' = busy_units - n
    /\ available_units' = available_units + n
    /\ hold' = [hold EXCEPT ![c] = @ - n]
    /\ UNCHANGED lost

Reset ==
    /\ available_units' = Total
    /\ busy_units' = 0
    /\ lost' = Held
    /\ UNCHANGED hold

Next ==
    \/ \E c \in Client, n \in 1 .. Total :
          Request(c, n) \/ Release(c, n)
    \/ Reset

Spec == Init /\ [][Next]_vars

-----------------------------------------------------------------------------
(* Both counters stay between 0 and total_units.                           *)
TypeOK ==
    /\ available_units \in 0 .. Total
    /\ busy_units \in 0 .. Total
    /\ hold \in [Client -> 0 .. MaxHeld]
    /\ lost \in Nat

(* The two counters partition total_units: resource_get_utilization stays  *)
(* between 0.0 and 1.0 (resource.h:45).                                    *)
Partitioned == available_units + busy_units = Total

(* What the counter misses is exactly what was held at the last reset,     *)
(* whoever releases or requests what afterwards.  As long as no reset has  *)
(* come while units were held, busy_units are the "units currently in use" *)
(* of resource.h:14, and no unit is given out twice.                       *)
BusyMeansInUse == busy_units = Held - lost
=============================================================================
