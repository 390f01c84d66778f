---------------------------- MODULE MCRingQueue ----------------------------
(* Small instances of RingQueue for TLC: elements are interchangeable. *)
EXTENDS RingQueue, TLC

CONSTANTS e1, e2, e3, e4, e5

Elements5 == {e1, e2, e3, e4, e5}
Elements3 == {e1, e2, e3}
Symmetric5 == Permutations(Elements5)
=============================================================================
