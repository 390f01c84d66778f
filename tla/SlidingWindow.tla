---------------------------- MODULE SlidingWindow ----------------------------
(* What a MovingStats promises: it speaks for the last size observations   *)
(* made since it was created, and for no other.                            *)
EXTENDS Integers, Sequences

CONSTANTS Value, MaxSize

VARIABLES size, recent

Latest(n, s) == IF Len(s) <= n THEN s ELSE Tail(s)

Init == size = 0 /\ recent = <<>>

Open == size = 0 /\ size' \in 1 .. MaxSize /\ recent' = <<>>

Close == size # 0 /\ size' = 0 /\ recent' = <<>>

Observe(v) ==
    /\ size # 0 /\ size' = size
    /\ recent' = Latest(size, Append(recent, v))

Next == Open \/ Close \/ \E v \in Value : Observe(v)

Spec == Init /\ [][Next]_<<size, recent>>
=============================================================================
