------------------------------ MODULE Doubles ------------------------------
(* C's double, as the statistics use it: small integers are exact; what is *)
(* not finite is one of three special values.                              *)
EXTENDS Integers

CONSTANTS Inf, NegInf, NaN

Special == {Inf, NegInf, NaN}

ASSUME SpecialAssumption == Special \intersect Int = {}
ASSUME DistinctAssumption == Inf # NegInf /\ Inf # NaN /\ NegInf # NaN

Plus(a, b) ==
    IF a \in Int /\ b \in Int THEN a + b
    ELSE IF NaN \in {a, b} \/ {a, b} = {Inf, NegInf} THEN NaN
    ELSE IF Inf \in {a, b} THEN Inf ELSE NegInf

Negated(a) ==
    CASE a \in Int -> -a [] a = Inf -> NegInf [] a = NegInf -> Inf [] a = NaN -> NaN

Minus(a, b) == Plus(a, Negated(b))

Squared(a) ==
    CASE a \in Int -> a * a [] a = NaN -> NaN [] OTHER -> Inf
=============================================================================
