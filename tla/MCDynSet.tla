------------------------------ MODULE MCDynSet ------------------------------
(* Small instances of DynSet for TLC. *)
EXTENDS DynSet

CONSTANTS h1, h2, h3, k1, k2

Handles == {h1, h2, h3}
Keys == {k1, k2}
=============================================================================
