--------------------------- MODULE MCResourcePool ---------------------------
(* Small instance of ResourcePool for TLC. *)
EXTENDS ResourcePool

CONSTANTS c1, c2, c3

Clients == {c1, c2, c3}
=============================================================================
