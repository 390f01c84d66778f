------------------------------ MODULE KeySets ------------------------------
(***************************************************************************)
(* What a library of sets promises: each set that exists holds a set of    *)
(* keys; the union, intersection and difference of two sets are new sets,  *)
(* and no operation changes a set it was not asked to change.              *)
(***************************************************************************)
CONSTANTS Handle, Key, NoSet

VARIABLE content   \* the keys of each set, NoSet where there is none

Exists(h) == content[h] # NoSet

Init == content = [h \in Handle |-> NoSet]

Become(h, keys) == content' = [content EXCEPT ![h] = keys]

New(h)     == ~ Exists(h) /\ Become(h, {})
Discard(h) == Exists(h) /\ Become(h, NoSet)
Put(h, k)  == Exists(h) /\ Become(h, content[h] \union {k})
Take(h, k) == Exists(h) /\ Become(h, content[h] \ {k})
Empty(h)   == Exists(h) /\ Become(h, {})

Combine(h, a, b) ==
    /\ ~ Exists(h) /\ Exists(a) /\ Exists(b)
    /\ \/ Become(h, content[a] \union content[b])
       \/ Become(h, content[a] \intersect content[b])
       \/ Become(h, content[a] \ content[b])

Next ==
    \E h \in Handle :
        \/ New(h) \/ Discard(h) \/ Empty(h)
        \/ \E k \in Key : Put(h, k) \/ Take(h, k)
        \/ \E a, b \in Handle : Combine(h, a, b)

Spec == Init /\ [][Next]_content
=============================================================================
