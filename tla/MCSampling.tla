----------------------------- MODULE MCSampling -----------------------------
(* A small instance of Sampling for TLC: a generator of 3-bit words, whose *)
(* last one makes 1 .. 2 an interval of three numbers.                     *)
EXTENDS Sampling

MCIntMin == -9
MCBounds == -2 .. 2
MCValue == {MCIntMin, -2, 0, 1, 2, 3} \union Special
=============================================================================
