------------------------------- MODULE Random -------------------------------
(***************************************************************************)
(* random.c.  The PCG generator is any sequence of words 0 .. MaxWord, of  *)
(* which random_uniform makes word / MaxWord: 0 of the first word and 1 of *)
(* the last.  Integers are computed exactly.  Of a real number only the    *)
(* sign is kept, and whether it is 0, infinite or not a number: a sampler  *)
(* computes the set of what its expression may yield.  Its arguments range *)
(* over the numbers the code accepts and, where it has a check, one it     *)
(* refuses.  They are extreme when what is computed from them may be too   *)
(* large or too small for a double.                                        *)
(***************************************************************************)
EXTENDS Doubles

CONSTANTS
    MaxWord,   \* UINT32_MAX
    Finite,    \* representatives of the positive numbers
    IntMin     \* what (int) makes of a double out of its range

ASSUME RandomAssumption ==
    /\ MaxWord \in Nat \ {0}
    /\ Finite \subseteq Nat \ {0}
    /\ IntMin \in Int /\ \A a \in {0} \union Finite : IntMin < -a

Word == 0 .. MaxWord
EndWord == {0, MaxWord}

(* A value, and the end words among those it was made of.                  *)
Outcomes(V, words) ==
    {[value |-> v, ends |-> words \intersect EndWord] : v \in V}

(* An argument the code returns 0 for, before it draws.                    *)
Refused == Outcomes({0}, {})

-----------------------------------------------------------------------------
(* Arithmetic on the signs of doubles.                                     *)

Numbers == {0} \union Finite \union {-a : a \in Finite}

(* What a positive result may be rounded to when the arguments are extreme.*)
Overflow(extreme) == IF extreme THEN {Inf} ELSE {}
Underflow(extreme) == IF extreme THEN {0} ELSE {}
Edges(extreme) == Overflow(extreme) \union Underflow(extreme)

Above(a) == a = Inf \/ a \in Nat \ {0}

(* a * b, and a quotient by a positive number; edges as above.             *)
Times(a, b, edges) ==
    IF NaN \in {a, b} \/ (0 \in {a, b} /\ ~ {a, b} \subseteq Int) THEN {NaN}
    ELSE IF 0 \in {a, b} THEN {0}
    ELSE LET magnitudes == IF {a, b} \subseteq Int THEN Finite \union edges ELSE {Inf}
         IN  IF Above(a) = Above(b) THEN magnitudes ELSE {Negated(v) : v \in magnitudes}

Product(A, B, edges) == UNION {Times(a, b, edges) : a \in A, b \in B}

(* A power of numbers that are not negative.                               *)
Power(A, edges) ==
    UNION {IF a \in Int /\ a # 0 THEN Finite \union edges ELSE {a} : a \in A}

(* m + d for m in M, d in D.                                               *)
Shift(M, D, edges) ==
    UNION {IF d \in Special THEN {d} ELSE IF d = 0 THEN M
           ELSE Numbers \union edges \union {Negated(v) : v \in edges} : d \in D}

Exp(A, edges) ==
    UNION {IF a \in {Inf, NaN} THEN {a} ELSE IF a = NegInf THEN {0}
           ELSE Finite \union edges : a \in A}

(* -log(u).                                                                *)
NegLog(word) ==
    CASE word = 0 -> {Inf} [] word = MaxWord -> {0} [] OTHER -> Finite

-----------------------------------------------------------------------------
(* A mistake an author of this code could have made: round, not truncate.  *)
UniformIntRounded(lo, hi, word) ==
    IF lo > hi THEN lo
    ELSE lo + ((hi - lo + 1) * word + MaxWord \div 2) \div MaxWord

-----------------------------------------------------------------------------
(* min + (int)((max - min + 1) * r), for intervals whose length is an int.  *)
UniformInt(lo, hi, word) ==
    IF lo > hi THEN lo ELSE lo + ((hi - lo + 1) * word) \div MaxWord

UniformInts(lo, hi) == UNION {Outcomes({UniformInt(lo, hi, w)}, {w}) : w \in Word}

(* -log(u) / rate.                                                         *)
Exponentials(extreme) ==
    Refused \union
    UNION {Outcomes(Product(NegLog(w), Finite, Overflow(extreme)), {w}) : w \in Word}

(* scale * pow(-log(u), 1 / shape).                                        *)
Weibulls(extreme) ==
    Refused \union
    UNION {Outcomes(Product(Finite, Power(NegLog(w), Edges(extreme)), Edges(extreme)),
                    {w}) : w \in Word}

(* Box-Muller, of a first word: sqrt(-2 * log(u)) times a cosine of either *)
(* sign that is never exactly 0, because no double is an odd multiple of a *)
(* quarter turn.                                                           *)
Standard(word) == NegLog(word) \union {Negated(a) : a \in NegLog(word)}

(* mean + z0 * stddev, for the means M and the deviations S.               *)
Normals(M, S, extreme) ==
    UNION {Outcomes(Shift(M, Product(Standard(w[1]), S, Edges(extreme)), Overflow(extreme)),
                    {w[1], w[2]}) : w \in Word \X Word}

(* The exponential of mean + stddev * (a standard normal number).          *)
Lognormals(S, extreme) ==
    UNION {Outcomes(Exp({o.value}, Edges(extreme)), o.ends) :
           o \in Normals(Numbers, S, extreme)}

(* Knuth's loop draws until the product of the words falls to exp(-lambda) *)
(* and returns how many it drew before.                                    *)
KnuthPoissons ==
    Refused \union UNION {Outcomes({0} \union Finite, words) : words \in SUBSET EndWord}

(* For lambda >= 30 a rounded normal number is converted to int; what that *)
(* makes of one out of its range is undefined, and IntMin in this build.   *)
(* An infinite one always is, a finite one when lambda is extreme: 2^31.   *)
LargePoissons(extreme) ==
    UNION {Outcomes(IF o.value \in Special THEN {IntMin}
                    ELSE {o.value} \union (IF extreme THEN {IntMin} ELSE {}), o.ends) :
           o \in Normals(Finite, Finite, FALSE)}

(* The square root, rounded down to an integer.                            *)
Root(n) == {r \in 0 .. n : r * r <= n /\ n < (r + 1) * (r + 1)}

(* u <= F, with both sides multiplied by MaxWord * (max - min); the result *)
(* is rounded to an integer, towards min or towards max.                   *)
Triangular(min, mode, max, word) ==
    IF min >= max \/ mode < min \/ mode > max THEN {min}
    ELSE IF word * (max - min) <= MaxWord * (mode - min)
         THEN {min + r : r \in
                  Root((word * (max - min) * (mode - min)) \div MaxWord)}
         ELSE {max - r : r \in
                  Root(((MaxWord - word) * (max - min) * (max - mode)) \div MaxWord)}

Triangulars(min, mode, max) ==
    UNION {Outcomes(Triangular(min, mode, max, w), {w}) : w \in Word}

(* Bounds so far apart that max - min, or a product with it, overflows: 0  *)
(* times infinity under the root, or a root that is infinite.              *)
WideTriangulars ==
    UNION {Outcomes(Numbers \union {NaN} \union (IF w # 0 THEN {Inf} ELSE {})
                        \union (IF w # MaxWord THEN {NegInf} ELSE {}), {w}) : w \in Word}

(* A shape of at least 1: scale * d * v.  A candidate whose normal number  *)
(* is infinite is rejected.                                                *)
LargeGammas(edges) ==
    UNION {Outcomes(Product(Finite, Finite, edges), words) : words \in SUBSET EndWord}

(* Numbers A times pow(u, 1 / shape), which is at most 1.                  *)
Shrunk(A, word, edges) ==
    IF word = MaxWord THEN A
    ELSE Product(A, IF word = 0 THEN {0} ELSE Finite \union edges, edges)

(* A shape below 1: scale, times a gamma number g of scale 1, shrunk.      *)
SmallGamma(g, word, edges, extreme) ==
    Outcomes(Shrunk(Product(Finite, {g.value}, edges), word, Underflow(extreme)),
             g.ends \union {word})

SmallGammas(edges, extreme) ==
    UNION {SmallGamma(g, w, edges, extreme) : g \in LargeGammas({}), w \in Word}

Gammas(extreme) ==
    Refused \union LargeGammas(Edges(extreme)) \union SmallGammas(Edges(extreme), extreme)

(* x / (x + y) of two gamma numbers.                                       *)
Ratio(x, y, edges) ==
    CASE x = Inf \/ (x = 0 /\ y = 0) -> {NaN}
      [] x = 0 /\ y # 0 -> {0}
      [] x \notin {0, Inf} /\ y = Inf -> {0}
      [] OTHER -> Finite \union edges

Betas(extreme) ==
    LET G == LargeGammas(Overflow(extreme)) \union SmallGammas({}, extreme)
    IN  Refused \union
        UNION {Outcomes(Ratio(g[1].value, g[2].value, Underflow(extreme)),
                        g[1].ends \union g[2].ends) : g \in G \X G}
=============================================================================
