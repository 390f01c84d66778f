---------------------------- MODULE MCSimulator ----------------------------
(* Small instances of Simulator for TLC. *)
EXTENDS Simulator

MCDeltas == {-1, 0, 1}
=============================================================================
