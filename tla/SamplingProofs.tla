--------------------------- MODULE SamplingProofs ---------------------------
(* Theorems about Sampling: how far a sample can leave its range, that the *)
(* circular window is a sliding window whose running sums are its sums,    *)
(* and that the statistics of one array computed in different functions    *)
(* agree.  The induction over a loop's turns is TurnInduction's.           *)
EXTENDS Sampling, SeqLemmas, FiniteSetTheorems

-----------------------------------------------------------------------------
(* The integer sampler.                                                    *)

(* A product with a word is at most MaxWord times the number, and reaches  *)
(* it for the last word only.                                              *)
LEMMA Shares ==
    ASSUME NEW n \in Nat \ {0}, NEW m \in Nat \ {0}, NEW w \in 0 .. m
    PROVE  /\ (n * w) \div m \in 0 .. n
           /\ (n * w) \div m = n <=> w = m
  <1>1. n * w \in Nat /\ n * w <= n * m
    BY SMTT(30)
  <1>2. w # m => n * w < n * m
    BY SMTT(30)
  <1>3. PICK q \in Int : q = (n * w) \div m
    BY <1>1, SMT
  <1>4. m * q <= n * w /\ n * w < m * (q + 1)
    BY <1>1, <1>3, SMTT(30)
  <1>5. q >= 0
    <2>1. SUFFICES ASSUME q + 1 <= 0 PROVE FALSE
      BY <1>3, SMT
    <2>2. m * (q + 1) <= 0
      BY <2>1, <1>3, SMTT(30)
    <2> QED
      BY <2>2, <1>1, <1>4, <1>3, SMTT(30)
  <1>6. q <= n
    <2>1. SUFFICES ASSUME q >= n + 1 PROVE FALSE
      BY <1>3, SMT
    <2>2. m * q >= m * (n + 1)
      BY <2>1, <1>3, SMTT(30)
    <2>3. m * (n + 1) = n * m + m
      BY SMTT(30)
    <2>4. n * m \in Nat /\ m * q \in Int
      BY <1>3, SMTT(30)
    <2> QED
      BY <2>2, <2>3, <2>4, <1>1, <1>4, SMTT(30)
  <1>7. q = n => w = m
    <2>1. n * m = m * n
      BY SMTT(30)
    <2> QED
      BY <1>1, <1>2, <1>4, <2>1, SMTT(30)
  <1>8. w = m => q = n
    <2>1. SUFFICES ASSUME w = m, q + 1 <= n PROVE FALSE
      BY <1>3, <1>6, SMT
    <2>2. m * (q + 1) <= m * n
      BY <2>1, <1>3, SMTT(30)
    <2>3. n * w = m * n
      BY <2>1, SMTT(30)
    <2>4. m * n \in Nat /\ m * (q + 1) \in Int
      BY <1>3, SMTT(30)
    <2> QED
      BY <2>2, <2>3, <2>4, <1>4, SMT
  <1> QED
    BY <1>3, <1>5, <1>6, <1>7, <1>8, SMT

(* random_uniform_int stays in min .. max for every width of the           *)
(* generator's words and every range, except that the last word, for which *)
(* random_uniform returns 1, makes it max + 1.                             *)
THEOREM UniformIntRange ==
    ASSUME NEW lo \in Int, NEW hi \in Int, lo <= hi, NEW w \in Word
    PROVE  /\ UniformInt(lo, hi, w) \in lo .. hi + 1
           /\ UniformInt(lo, hi, w) = hi + 1 <=> w = MaxWord
  <1> DEFINE n == hi - lo + 1
             q == (n * w) \div MaxWord
  <1>1. n \in Nat \ {0} /\ MaxWord \in Nat \ {0} /\ w \in 0 .. MaxWord
    BY RandomAssumption DEF Word
  <1>2. q \in 0 .. n /\ (q = n <=> w = MaxWord)
    <2> HIDE DEF n
    <2> QED
      BY <1>1, Shares
  <1>3. UniformInt(lo, hi, w) = lo + q
    BY DEF UniformInt
  <1> HIDE DEF q
  <1> QED
    BY <1>2, <1>3, SMT

-----------------------------------------------------------------------------
(* The other samplers.                                                     *)

(* What the assumptions say of the numbers a sampler returns.              *)
LEMMA NumberFacts ==
    /\ Special \intersect Int = {} /\ Finite \subseteq Nat \ {0}
    /\ MaxWord \in Nat \ {0} /\ IntMin \in Int /\ IntMin < 0
    /\ EndWord = {0, MaxWord}
    /\ \A a \in Finite : a \in Int /\ -a \in Int /\ IntMin < -a /\ IntMin < a
    /\ Numbers \subseteq Int /\ IntMin \notin Numbers
    /\ Inf \notin Int /\ NegInf \notin Int /\ NaN \notin Int
    /\ Inf # NegInf /\ Inf # NaN /\ NegInf # NaN
<1>1. Finite \subseteq Nat \ {0} /\ MaxWord \in Nat \ {0} /\ IntMin \in Int
  BY RandomAssumption
<1>2. \A a \in {0} \union Finite : IntMin < -a
  BY RandomAssumption
<1>3. IntMin < 0
  BY <1>1, <1>2
<1>4. \A a \in Finite : a \in Int /\ -a \in Int /\ IntMin < -a /\ IntMin < a
  BY <1>1, <1>2
<1>5. Special \intersect Int = {}
  BY SpecialAssumption
<1>6. Numbers \subseteq Int /\ IntMin \notin Numbers
  <2>1. \A a \in Numbers : a = 0 \/ a \in Finite \/ \E f \in Finite : a = -f
    BY DEF Numbers
  <2>2. ASSUME NEW a \in Numbers PROVE a \in Int /\ a # IntMin
    <3>1. CASE a = 0
      BY <1>3, <3>1
    <3>2. CASE a \in Finite
      <4>1. a \in Int /\ IntMin < a
        BY <1>4, <3>2
      <4> QED BY <1>1, <4>1
    <3>3. CASE \E f \in Finite : a = -f
      <4>1. PICK f \in Finite : a = -f
        BY <3>3
      <4>2. f \in Nat \ {0} /\ IntMin < -f
        BY <1>1, <1>4
      <4> QED BY <1>1, <4>1, <4>2
    <3> QED BY <2>1, <3>1, <3>2, <3>3
  <2> QED BY <2>2
<1>7. Inf \notin Int /\ NegInf \notin Int /\ NaN \notin Int
  BY <1>5 DEF Special
<1> QED BY <1>1, <1>3, <1>4, <1>5, <1>6, <1>7, DistinctAssumption DEF EndWord

(* An outcome is a value of the set and the end words among its words.     *)
LEMMA OutcomeFields ==
    ASSUME NEW V, NEW words, NEW o \in Outcomes(V, words)
    PROVE  o.value \in V /\ o.ends = words \intersect EndWord
  BY DEF Outcomes

(* No outcome refused draws a word.                                        *)
LEMMA RefusedIsZero == \A o \in Refused : o.value = 0
  BY OutcomeFields DEF Refused

(* What rounding adds is 0 or infinity, and nothing without extremes.      *)
LEMMA EdgeFacts ==
    ASSUME NEW extreme \in BOOLEAN
    PROVE  /\ Overflow(extreme) \subseteq {Inf} /\ Underflow(extreme) \subseteq {0}
           /\ Edges(extreme) \subseteq {0, Inf}
           /\ ~ extreme => /\ Overflow(extreme) = {} /\ Underflow(extreme) = {}
                           /\ Edges(extreme) = {}
  BY DEF Edges, Overflow, Underflow

(* random_uniform_int: outside its interval only for the last word.        *)
LEMMA UniformIntsStray ==
    ASSUME NEW a \in Int, NEW b \in Int, NEW o \in UniformInts(a, b)
    PROVE  /\ o.value \in Int
           /\ Within(o.value, <<a, b>>) \/ MaxWord \in o.ends
           /\ a <= b => o.value \in a .. b + 1
<1>1. PICK w \in Word : o \in Outcomes({UniformInt(a, b, w)}, {w})
  BY DEF UniformInts
<1>2. o.value = UniformInt(a, b, w) /\ o.ends = {w} \intersect EndWord
  BY <1>1, OutcomeFields
<1>3. CASE a <= b
  <2>1. /\ UniformInt(a, b, w) \in a .. b + 1
        /\ UniformInt(a, b, w) = b + 1 <=> w = MaxWord
    BY <1>3, UniformIntRange
  <2>2. w # MaxWord => o.value \in a .. b
    BY <1>2, <2>1
  <2>3. w # MaxWord => Within(o.value, <<a, b>>)
    BY <1>3, <2>2 DEF Within
  <2>4. w = MaxWord => MaxWord \in o.ends
    BY <1>2 DEF EndWord
  <2> QED BY <1>2, <2>1, <2>3, <2>4
<1>4. CASE ~ a <= b
  <2>1. o.value = a
    BY <1>2, <1>4 DEF UniformInt
  <2> QED BY <1>4, <2>1 DEF Within
<1> QED BY <1>3, <1>4

(* Products of numbers that are not negative.                              *)
LEMMA TimesUp ==
    ASSUME NEW edges
    PROVE  /\ \A a, b \in Finite : Times(a, b, edges) = Finite \union edges
           /\ \A a \in Finite : Times(a, 0, edges) = {0} /\ Times(0, a, edges) = {0}
           /\ \A a \in Finite : /\ Times(a, Inf, edges) = {Inf}
                               /\ Times(Inf, a, edges) = {Inf}
           /\ Times(0, Inf, edges) = {NaN} /\ Times(Inf, 0, edges) = {NaN}
           /\ Times(0, 0, edges) = {0}
<1>1. /\ \A f \in Finite : f \in Nat \ {0} /\ f \in Int /\ f # 0 /\ f # NaN /\ f # Inf
      /\ Inf \notin Int /\ NaN \notin Int /\ Inf # NaN /\ 0 \in Int
      /\ 0 # Inf /\ 0 # NaN
  BY NumberFacts
<1>2. ASSUME NEW a \in Finite, NEW b \in Finite
      PROVE  Times(a, b, edges) = Finite \union edges
  <2>1. Above(a) /\ Above(b)
    BY <1>1 DEF Above
  <2>2. NaN \notin {a, b} /\ 0 \notin {a, b} /\ {a, b} \subseteq Int
    BY <1>1
  <2> QED BY <2>1, <2>2, Zenon DEF Times
<1>3. ASSUME NEW a \in Finite
      PROVE  Times(a, 0, edges) = {0} /\ Times(0, a, edges) = {0}
  <2>1. NaN \notin {a, 0} /\ {a, 0} \subseteq Int /\ {0, a} = {a, 0} /\ 0 \in {a, 0}
    BY <1>1
  <2> QED BY <2>1, Zenon DEF Times
<1>4. ASSUME NEW a \in Finite
      PROVE  Times(a, Inf, edges) = {Inf} /\ Times(Inf, a, edges) = {Inf}
  <2>1. Above(a) /\ Above(Inf)
    BY <1>1 DEF Above
  <2>2. /\ NaN \notin {a, Inf} /\ 0 \notin {a, Inf} /\ ~ {a, Inf} \subseteq Int
        /\ {Inf, a} = {a, Inf}
    BY <1>1
  <2> QED BY <2>1, <2>2, Zenon DEF Times
<1>5. Times(0, Inf, edges) = {NaN} /\ Times(Inf, 0, edges) = {NaN}
  <2>1. 0 \in {0, Inf} /\ ~ {0, Inf} \subseteq Int /\ {Inf, 0} = {0, Inf}
    BY <1>1
  <2> QED BY <2>1, Zenon DEF Times
<1>6. Times(0, 0, edges) = {0}
  <2>1. 0 \in {0, 0} /\ {0, 0} \subseteq Int /\ NaN \notin {0, 0}
    BY <1>1
  <2> QED BY <2>1, Zenon DEF Times
<1> QED BY <1>2, <1>3, <1>4, <1>5, <1>6

(* Times a positive number: still not negative, and infinite only if it    *)
(* was or was rounded to be.                                               *)
LEMMA TimesPositive ==
    ASSUME NEW a \in {0, Inf} \union Finite, NEW s \in Finite,
           NEW edges, edges \subseteq {0, Inf},
           NEW v, v \in Times(a, s, edges) \/ v \in Times(s, a, edges)
    PROVE  /\ v \in {0, Inf} \union Finite
           /\ v = Inf => a = Inf \/ Inf \in edges
<1>1. CASE a = 0
  <2>1. v = 0
    BY <1>1, TimesUp
  <2> QED BY <2>1, NumberFacts
<1>2. CASE a = Inf
  <2>1. v = Inf
    BY <1>2, TimesUp
  <2> QED BY <1>2, <2>1
<1>3. CASE a \in Finite
  <2>1. v \in Finite \union edges
    BY <1>3, TimesUp
  <2> QED BY <2>1, NumberFacts
<1> QED BY <1>1, <1>2, <1>3

(* -log(u) is infinite for the word 0 only, and never negative.            *)
LEMMA NegLogFacts ==
    ASSUME NEW w \in Word, NEW a \in NegLog(w)
    PROVE  a \in {0, Inf} \union Finite /\ (a = Inf => w = 0)
<1>1. CASE w = 0
  BY <1>1 DEF NegLog
<1>2. CASE w = MaxWord /\ w # 0
  BY <1>2, NumberFacts DEF NegLog
<1>3. CASE w # MaxWord /\ w # 0
  <2>1. a \in Finite
    BY <1>3 DEF NegLog
  <2> QED BY <2>1, NumberFacts
<1> QED BY <1>1, <1>2, <1>3

(* A waiting time: not negative, a number or infinite, and infinite for    *)
(* ordinary words only when the arguments are extreme.                     *)
Waits(o, extreme) ==
    /\ o.value \in Nat \union {Inf}
    /\ o.value = Inf => extreme \/ 0 \in o.ends

LEMMA ExponentialsStray ==
    ASSUME NEW extreme \in BOOLEAN, NEW o \in Exponentials(extreme)
    PROVE  Waits(o, extreme)
<1>1. CASE o \in Refused
  BY <1>1, RefusedIsZero, NumberFacts DEF Waits
<1>2. CASE o \notin Refused
  <2> DEFINE E == Overflow(extreme)
  <2>1. PICK w \in Word : o \in Outcomes(Product(NegLog(w), Finite, E), {w})
    BY <1>2 DEF Exponentials
  <2>2. PICK a \in NegLog(w), r \in Finite : o.value \in Times(a, r, E)
    BY <2>1, OutcomeFields DEF Product
  <2>3. o.ends = {w} \intersect EndWord
    BY <2>1, OutcomeFields
  <2>4. a \in {0, Inf} \union Finite /\ (a = Inf => w = 0)
    BY NegLogFacts
  <2>5. E \subseteq {Inf} /\ (~ extreme => E = {})
    BY EdgeFacts
  <2> HIDE DEF E
  <2>6. E \subseteq {0, Inf}
    BY <2>5
  <2>7. /\ o.value \in {0, Inf} \union Finite
        /\ o.value = Inf => a = Inf \/ Inf \in E
    BY <2>2, <2>4, <2>6, TimesPositive
  <2>8. o.value \in Nat \union {Inf}
    <3>1. {0} \union Finite \subseteq Nat
      BY NumberFacts
    <3> QED BY <2>7, <3>1
  <2>9. o.value = Inf => extreme \/ 0 \in o.ends
    BY <2>3, <2>4, <2>5, <2>7 DEF EndWord
  <2> QED BY <2>8, <2>9 DEF Waits
<1> QED BY <1>1, <1>2

LEMMA WeibullsStray ==
    ASSUME NEW extreme \in BOOLEAN, NEW o \in Weibulls(extreme)
    PROVE  Waits(o, extreme)
<1>1. CASE o \in Refused
  BY <1>1, RefusedIsZero, NumberFacts DEF Waits
<1>2. CASE o \notin Refused
  <2> DEFINE E == Edges(extreme)
  <2>1. PICK w \in Word : o \in Outcomes(Product(Finite, Power(NegLog(w), E), E), {w})
    BY <1>2 DEF Weibulls
  <2>2. PICK s \in Finite, p \in Power(NegLog(w), E) : o.value \in Times(s, p, E)
    BY <2>1, OutcomeFields DEF Product
  <2>3. o.ends = {w} \intersect EndWord
    BY <2>1, OutcomeFields
  <2>4. PICK a \in NegLog(w) :
            p \in (IF a \in Int /\ a # 0 THEN Finite \union E ELSE {a})
    BY <2>2 DEF Power
  <2>5. a \in {0, Inf} \union Finite /\ (a = Inf => w = 0)
    BY NegLogFacts
  <2>6. E \subseteq {0, Inf} /\ (~ extreme => E = {})
    BY EdgeFacts
  <2> HIDE DEF E
  <2>7. /\ p \in {0, Inf} \union Finite
        /\ p = Inf => extreme \/ w = 0
    BY <2>4, <2>5, <2>6, NumberFacts
  <2>8. /\ o.value \in {0, Inf} \union Finite
        /\ o.value = Inf => p = Inf \/ Inf \in E
    BY <2>2, <2>6, <2>7, TimesPositive
  <2>9. o.value \in Nat \union {Inf}
    <3>1. {0} \union Finite \subseteq Nat
      BY NumberFacts
    <3> QED BY <2>8, <3>1
  <2>10. o.value = Inf => extreme \/ 0 \in o.ends
    BY <2>3, <2>6, <2>7, <2>8 DEF EndWord
  <2> QED BY <2>9, <2>10 DEF Waits
<1> QED BY <1>1, <1>2

(* Products of numbers of either sign: without rounding to infinity a      *)
(* number, and not a number only if 0 meets infinity.                      *)
LEMMA TimesSigned ==
    ASSUME NEW a \in Numbers \union {Inf, NegInf}, NEW b \in Numbers,
           NEW edges, edges \subseteq {0, Inf}, NEW v \in Times(a, b, edges)
    PROVE  /\ v \in Numbers \union Special
           /\ v = NaN => b = 0 /\ a \notin Int
           /\ a \in Int /\ edges = {} => v \in Numbers
<1>1. /\ Numbers \subseteq Int /\ Finite \subseteq Int /\ {0} \union Finite \subseteq Numbers
      /\ Inf \notin Int /\ NegInf \notin Int /\ NaN \notin Int
      /\ Inf # NaN /\ NegInf # NaN /\ Inf # NegInf
  BY NumberFacts DEF Numbers
<1>2. a # NaN /\ b # NaN /\ b \in Int
  BY <1>1
<1>3. CASE 0 \in {a, b} /\ ~ {a, b} \subseteq Int
  <2>1. v = NaN
    BY <1>3 DEF Times
  <2>2. b = 0 /\ a \notin Int
    BY <1>1, <1>2, <1>3
  <2> QED BY <2>1, <2>2 DEF Special
<1>4. CASE 0 \in {a, b} /\ {a, b} \subseteq Int
  <2>1. v = 0
    BY <1>2, <1>4 DEF Times
  <2> QED BY <1>1, <2>1
<1>5. CASE 0 \notin {a, b}
  <2> DEFINE magnitudes == IF {a, b} \subseteq Int THEN Finite \union edges ELSE {Inf}
  <2>1. v \in magnitudes \/ \E u \in magnitudes : v = Negated(u)
    <3>1. NaN \notin {a, b}
      BY <1>2
    <3> QED BY <1>5, <3>1, Zenon DEF Times
  <2>2. magnitudes \subseteq Finite \union {0, Inf} /\ (a \in Int /\ edges = {} => magnitudes = Finite)
    BY <1>2
  <2> HIDE DEF magnitudes
  <2>3. \A u \in Finite : Negated(u) = -u
    BY <1>1 DEF Negated
  <2>4. Negated(0) = 0
    <3>1. Negated(0) = -0
      BY <1>1 DEF Negated
    <3> QED BY <3>1
  <2>5. Negated(Inf) = NegInf
    BY <1>1, Zenon DEF Negated
  <2>6. \A u \in Finite \union {0} : Negated(u) \in Numbers
    BY <2>3, <2>4 DEF Numbers
  <2>7. v \in Numbers \union {Inf, NegInf}
    BY <1>1, <2>1, <2>2, <2>5, <2>6
  <2>8. v # NaN
    BY <1>1, <2>7
  <2>9. a \in Int /\ edges = {} => v \in Numbers
    BY <1>1, <2>1, <2>2, <2>6
  <2> QED BY <2>7, <2>8, <2>9 DEF Special
<1> QED BY <1>3, <1>4, <1>5

(* A standard normal number is infinite for the word 0 only.               *)
LEMMA StandardFacts ==
    ASSUME NEW w \in Word, NEW z \in Standard(w)
    PROVE  z \in Numbers \union {Inf, NegInf} /\ (z \notin Int => w = 0)
<1>1. PICK a \in NegLog(w) : z = a \/ z = Negated(a)
  BY DEF Standard
<1>2. a \in {0, Inf} \union Finite /\ (a = Inf => w = 0)
  BY NegLogFacts
<1>3. CASE a = Inf
  <2>1. Negated(a) = NegInf
    BY <1>3, NumberFacts, Zenon DEF Negated
  <2> QED BY <1>1, <1>2, <1>3, <2>1
<1>4. CASE a \in {0} \union Finite
  <2>1. a \in Int /\ a \in Numbers
    BY <1>4, NumberFacts DEF Numbers
  <2>2. Negated(a) = -a
    BY <2>1, NumberFacts DEF Negated
  <2>3. -a \in Numbers
    BY <1>4 DEF Numbers
  <2> QED BY <1>1, <2>1, <2>2, <2>3, NumberFacts
<1> QED BY <1>2, <1>3, <1>4

(* A normal number is not a number only for a deviation of 0 and the word  *)
(* 0; without extremes it is infinite for that word only.                  *)
LEMMA NormalsStray ==
    ASSUME NEW M, M \subseteq Numbers, NEW S, S \subseteq Numbers,
           NEW extreme \in BOOLEAN, NEW o \in Normals(M, S, extreme)
    PROVE  /\ o.value \in Numbers \union Special
           /\ o.value = NaN => 0 \in S /\ 0 \in o.ends
           /\ ~ extreme /\ o.value \in Special => 0 \in o.ends
           /\ o.ends \subseteq EndWord
<1> DEFINE E == Edges(extreme)
           V == Overflow(extreme)
<1>1. PICK w \in Word \X Word :
          o \in Outcomes(Shift(M, Product(Standard(w[1]), S, E), V), {w[1], w[2]})
  BY DEF Normals
<1>2. /\ o.value \in Shift(M, Product(Standard(w[1]), S, E), V)
      /\ o.ends = {w[1], w[2]} \intersect EndWord
  BY <1>1, OutcomeFields
<1>3. PICK d \in Product(Standard(w[1]), S, E) :
          o.value \in (IF d \in Special THEN {d} ELSE IF d = 0 THEN M
                      ELSE Numbers \union V \union {Negated(v) : v \in V})
  BY <1>2, Zenon DEF Shift
<1>4. PICK z \in Standard(w[1]), s \in S : d \in Times(z, s, E)
  BY <1>3 DEF Product
<1>5. /\ E \subseteq {0, Inf} /\ V \subseteq {Inf}
      /\ ~ extreme => E = {} /\ V = {}
  BY EdgeFacts
<1> HIDE DEF E, V
<1>6. z \in Numbers \union {Inf, NegInf} /\ (z \notin Int => w[1] = 0)
  BY StandardFacts
<1>7. /\ d \in Numbers \union Special
      /\ d = NaN => s = 0 /\ z \notin Int
      /\ z \in Int /\ E = {} => d \in Numbers
  BY <1>4, <1>5, <1>6, TimesSigned
<1>8. w[1] = 0 => 0 \in o.ends
  BY <1>2 DEF EndWord
<1>9. /\ Numbers \subseteq Int /\ Special \intersect Int = {}
      /\ NaN \in Special /\ Inf # NaN /\ NegInf # NaN /\ {Inf, NegInf} \subseteq Special
  BY NumberFacts DEF Special
<1>10. CASE d \in Special
  <2>1. o.value \in {d}
    BY <1>3, <1>10, Zenon
  <2> QED BY <1>2, <1>4, <1>5, <1>6, <1>7, <1>8, <1>9, <1>10, <2>1
<1>11. CASE d \notin Special
  <2>1. \A v \in V : Negated(v) = NegInf
    BY <1>5, NumberFacts, Zenon DEF Negated
  <2>2. o.value \in M \/ o.value \in Numbers \/ o.value \in V \/ (o.value = NegInf /\ V # {})
    BY <1>3, <1>11, <2>1
  <2>3. o.value \in Numbers \union {Inf, NegInf} /\ (V = {} => o.value \in Numbers)
    BY <1>5, <2>2
  <2> QED BY <1>2, <1>5, <1>9, <2>3
<1> QED BY <1>10, <1>11

(* A lognormal number is not negative, and not a number for a deviation of *)
(* 0 only.                                                                 *)
LEMMA LognormalsStray ==
    ASSUME NEW S, S \subseteq Numbers, NEW extreme \in BOOLEAN,
           NEW o \in Lognormals(S, extreme)
    PROVE  /\ o.value \in Nat \union {Inf, NaN}
           /\ o.value = NaN => 0 \in S /\ 0 \in o.ends
           /\ ~ extreme /\ o.value \in Special => 0 \in o.ends
<1> DEFINE E == Edges(extreme)
<1>1. PICK n \in Normals(Numbers, S, extreme) : o \in Outcomes(Exp({n.value}, E), n.ends)
  BY DEF Lognormals
<1>2. o.value \in Exp({n.value}, E) /\ o.ends = n.ends \intersect EndWord
  BY <1>1, OutcomeFields
<1>3. o.value \in (IF n.value \in {Inf, NaN} THEN {n.value}
                  ELSE IF n.value = NegInf THEN {0} ELSE Finite \union E)
  BY <1>2 DEF Exp
<1>4. E \subseteq {0, Inf} /\ (~ extreme => E = {})
  BY EdgeFacts
<1> HIDE DEF E
<1>5. /\ n.value = NaN => 0 \in S /\ 0 \in n.ends
      /\ ~ extreme /\ n.value \in Special => 0 \in n.ends
      /\ n.ends \subseteq EndWord
  BY NormalsStray
<1>6. /\ {0} \union Finite \subseteq Nat /\ Special \intersect Int = {}
      /\ Special = {Inf, NegInf, NaN} /\ Inf # NaN /\ NaN \notin Int /\ Nat \subseteq Int
  BY NumberFacts DEF Special
<1>7. CASE n.value \in {Inf, NaN}
  <2>1. o.value = n.value
    BY <1>3, <1>7
  <2> QED BY <1>2, <1>5, <1>6, <1>7, <2>1
<1>8. CASE n.value \notin {Inf, NaN}
  <2>1. o.value \in {0} \union Finite \union E
    BY <1>3, <1>8
  <2>2. o.value \in Nat \union {Inf} /\ (E = {} => o.value \in Nat)
    BY <1>4, <1>6, <2>1
  <2> QED BY <1>4, <1>6, <2>2
<1> QED BY <1>7, <1>8

(* A large Poisson count is an int; without extremes only the word 0 makes *)
(* the conversion overflow.                                                *)
LEMMA LargePoissonsStray ==
    ASSUME NEW extreme \in BOOLEAN, NEW o \in LargePoissons(extreme)
    PROVE  o.value \in Int /\ (~ extreme /\ o.value = IntMin => 0 \in o.ends)
<1>1. PICK n \in Normals(Finite, Finite, FALSE) :
          o \in Outcomes(IF n.value \in Special THEN {IntMin}
                         ELSE {n.value} \union (IF extreme THEN {IntMin} ELSE {}), n.ends)
  BY DEF LargePoissons
<1>2. /\ o.value \in (IF n.value \in Special THEN {IntMin}
                     ELSE {n.value} \union (IF extreme THEN {IntMin} ELSE {}))
      /\ o.ends = n.ends \intersect EndWord
  BY <1>1, OutcomeFields
<1>3. Finite \subseteq Numbers
  BY DEF Numbers
<1>4. /\ n.value \in Numbers \union Special
      /\ n.value \in Special => 0 \in n.ends
      /\ n.ends \subseteq EndWord
  BY <1>3, NormalsStray
<1>5. CASE n.value \in Special
  <2>1. o.value = IntMin
    BY <1>2, <1>5
  <2> QED BY <1>2, <1>4, <1>5, <2>1, NumberFacts
<1>6. CASE n.value \notin Special
  <2>1. n.value \in Int /\ n.value # IntMin
    BY <1>4, <1>6, NumberFacts
  <2>2. o.value \in {n.value, IntMin} /\ (~ extreme => o.value = n.value)
    BY <1>2, <1>6
  <2> QED BY <2>1, <2>2, NumberFacts
<1> QED BY <1>5, <1>6

(* A small Poisson count is not negative.                                  *)
LEMMA KnuthPoissonsStray ==
    ASSUME NEW o \in KnuthPoissons PROVE o.value \in Nat
<1>1. {0} \union Finite \subseteq Nat
  BY NumberFacts
<1>2. CASE o \in Refused
  BY <1>2, RefusedIsZero
<1>3. CASE o \notin Refused
  <2>1. PICK words \in SUBSET EndWord : o \in Outcomes({0} \union Finite, words)
    BY <1>3 DEF KnuthPoissons
  <2> QED BY <1>1, <2>1, OutcomeFields
<1> QED BY <1>2, <1>3

(* The root of a triangular number does not lead past the mode.            *)
LEMMA RootBound ==
    ASSUME NEW n \in Nat, NEW m \in Nat, n <= m * m, NEW r \in Root(n)
    PROVE  r \in 0 .. m
<1>1. r \in Nat /\ r * r <= n
  BY DEF Root
<1>2. SUFFICES ASSUME r >= m + 1 PROVE FALSE
  BY <1>1
<1>3. r * r >= (m + 1) * (m + 1)
  BY <1>1, <1>2, SMTT(30)
<1>4. (m + 1) * (m + 1) = m * m + m + m + 1 /\ m * m \in Nat
  BY SMTT(30)
<1> QED BY <1>1, <1>3, <1>4, SMTT(30)

(* What is under the root: a share of at most s / l of a square of side s  *)
(* times l / s.                                                            *)
LEMMA UnderRoot ==
    ASSUME NEW l \in Nat, NEW s \in Nat, NEW w \in Nat, w * l <= MaxWord * s
    PROVE  (w * l * s) \div MaxWord \in Nat /\ (w * l * s) \div MaxWord <= s * s
<1>1. MaxWord \in Nat \ {0}
  BY RandomAssumption
<1>2. w * l \in Nat /\ MaxWord * s \in Nat /\ s * s \in Nat
  BY <1>1, SMTT(30)
<1>3. (w * l) * s <= (MaxWord * s) * s /\ (w * l) * s \in Nat
  <2> DEFINE a == w * l
             b == MaxWord * s
  <2>1. a \in Nat /\ b \in Nat /\ a <= b
    BY <1>2
  <2> HIDE DEF a, b
  <2>2. a * s <= b * s /\ a * s \in Nat
    BY <2>1, SMTT(30)
  <2> QED BY <2>2 DEF a, b
<1>4. (MaxWord * s) * s = MaxWord * (s * s)
  BY <1>1, SMTT(30)
<1> DEFINE q == (w * l) * s
<1>5. q \in Nat /\ q <= MaxWord * (s * s)
  BY <1>3, <1>4
<1> HIDE DEF q
<1>6. PICK d \in Int : d = q \div MaxWord
  BY <1>1, <1>5
<1>7. MaxWord * d <= q /\ q < MaxWord * (d + 1)
  BY <1>1, <1>5, <1>6, SMTT(30)
<1>8. d >= 0
  <2>1. SUFFICES ASSUME d + 1 <= 0 PROVE FALSE
    BY <1>6
  <2>2. MaxWord * (d + 1) <= 0
    BY <2>1, <1>1, <1>6, SMTT(30)
  <2>3. MaxWord * (d + 1) \in Int
    BY <1>1, <1>6
  <2> QED BY <2>2, <2>3, <1>5, <1>7
<1>9. d <= s * s
  <2> DEFINE t == s * s
  <2>1. t \in Nat
    BY <1>2
  <2>2. q <= MaxWord * t
    BY <1>5
  <2> HIDE DEF t
  <2>3. SUFFICES ASSUME d >= t + 1 PROVE FALSE
    BY <1>6, <2>1 DEF t
  <2>4. MaxWord * d >= MaxWord * (t + 1)
    BY <2>3, <1>1, <1>6, <2>1, SMTT(30)
  <2>5. MaxWord * (t + 1) = MaxWord * t + MaxWord
    BY <1>1, <2>1, SMTT(30)
  <2>6. MaxWord * t \in Nat /\ MaxWord * d \in Int
    BY <1>1, <1>6, <2>1, SMTT(30)
  <2> QED BY <1>1, <1>5, <1>7, <2>2, <2>4, <2>5, <2>6
<1> QED BY <1>6, <1>8, <1>9 DEF q

(* A triangular number lies between its bounds, for every word and mode.   *)
THEOREM TriangularRange ==
    ASSUME NEW a \in Int, NEW b \in Int, NEW mode \in Int, NEW w \in Word,
           NEW v \in Triangular(a, mode, b, w)
    PROVE  IF a <= b THEN v \in a .. b ELSE v = a
<1>1. MaxWord \in Nat \ {0} /\ w \in Nat /\ w <= MaxWord
  BY RandomAssumption DEF Word
<1>2. CASE a >= b \/ mode < a \/ mode > b
  <2>1. v = a
    BY <1>2 DEF Triangular
  <2> QED BY <2>1
<1>3. CASE ~ (a >= b \/ mode < a \/ mode > b)
  <2> DEFINE l == b - a
             s == mode - a
             e == b - mode
             u == MaxWord - w
  <2>1. l \in Nat /\ s \in Nat /\ e \in Nat /\ u \in Nat /\ l = s + e /\ u = MaxWord - w
    BY <1>1, <1>3
  <2>2. CASE w * l <= MaxWord * s
    <3>1. PICK r \in Root((w * l * s) \div MaxWord) : v = a + r
      BY <1>3, <2>2 DEF Triangular
    <3>2. a \in Int /\ mode \in Int /\ s = mode - a /\ mode <= b /\ a <= b
      BY <1>3
    <3> HIDE DEF l, s, e, u
    <3>3. (w * l * s) \div MaxWord \in Nat /\ (w * l * s) \div MaxWord <= s * s
      BY <1>1, <2>1, <2>2, UnderRoot
    <3>4. r \in 0 .. s
      BY <2>1, <3>3, RootBound
    <3> QED BY <2>1, <3>1, <3>2, <3>4
  <2>3. CASE ~ (w * l <= MaxWord * s)
    <3>1. PICK r \in Root((u * l * e) \div MaxWord) : v = b - r
      BY <1>3, <2>3 DEF Triangular
    <3>2. b \in Int /\ mode \in Int /\ e = b - mode /\ a <= mode /\ a <= b
      BY <1>3
    <3> HIDE DEF l, s, e, u
    <3>3. u * l = MaxWord * l - w * l /\ MaxWord * l = MaxWord * s + MaxWord * e
      BY <1>1, <2>1, SMTT(30)
    <3>4. u * l \in Int /\ w * l \in Int /\ MaxWord * s \in Int /\ MaxWord * e \in Int
      BY <1>1, <2>1, SMTT(30)
    <3>5. u * l <= MaxWord * e
      BY <2>3, <3>3, <3>4
    <3>6. (u * l * e) \div MaxWord \in Nat /\ (u * l * e) \div MaxWord <= e * e
      BY <2>1, <3>5, UnderRoot
    <3>7. r \in 0 .. e
      BY <2>1, <3>6, RootBound
    <3> QED BY <2>1, <3>1, <3>2, <3>7
  <2> QED BY <2>2, <2>3
<1> QED BY <1>2, <1>3

LEMMA TriangularsStray ==
    ASSUME NEW a \in Int, NEW b \in Int, NEW mode \in Int, NEW o \in Triangulars(a, mode, b)
    PROVE  o.value \in Int /\ Within(o.value, <<a, b>>)
<1>1. PICK w \in Word : o \in Outcomes(Triangular(a, mode, b, w), {w})
  BY DEF Triangulars
<1>2. o.value \in Triangular(a, mode, b, w)
  BY <1>1, OutcomeFields
<1>3. IF a <= b THEN o.value \in a .. b ELSE o.value = a
  BY <1>2, TriangularRange
<1> QED BY <1>3 DEF Within

LEMMA FiniteFacts ==
    /\ 0 \notin Finite /\ Inf \notin Finite /\ NaN \notin Finite
    /\ Inf # NaN /\ 0 # Inf /\ 0 # NaN
<1>1. /\ \A f \in Finite : f \in Nat \ {0}
      /\ Inf \notin Int /\ NaN \notin Int /\ Inf # NaN
  BY NumberFacts
<1>2. \A f \in Finite : f # 0 /\ f # Inf /\ f # NaN
  BY <1>1
<1> QED BY <1>1, <1>2

(* A gamma number of shape at least 1.                                     *)
LEMMA LargeGammasStray ==
    ASSUME NEW edges, NEW o \in LargeGammas(edges)
    PROVE  o.value \in Finite \union edges /\ o.ends \subseteq EndWord
<1>1. PICK words \in SUBSET EndWord : o \in Outcomes(Product(Finite, Finite, edges), words)
  BY DEF LargeGammas
<1>2. o.value \in Product(Finite, Finite, edges) /\ o.ends = words \intersect EndWord
  BY <1>1, OutcomeFields
<1>3. PICK a \in Finite, b \in Finite : o.value \in Times(a, b, edges)
  BY <1>2 DEF Product
<1> QED BY <1>2, <1>3, TimesUp

(* A shape below 1: 0 only of the word 0 or by rounding, and not a number  *)
(* only if the scale made it infinite.                                     *)
LEMMA SmallGammasStray ==
    ASSUME NEW edges, edges \subseteq {0, Inf}, NEW extreme \in BOOLEAN,
           NEW o \in SmallGammas(edges, extreme)
    PROVE  /\ o.value \in {0, Inf, NaN} \union Finite
           /\ edges = {} => o.value \in {0} \union Finite
           /\ edges = {} /\ ~ extreme /\ o.value = 0 => 0 \in o.ends
           /\ o.ends \subseteq EndWord
<1> DEFINE U == Underflow(extreme)
<1>1. PICK g \in LargeGammas({}), w \in Word :
          o \in Outcomes(Shrunk(Product(Finite, {g.value}, edges), w, U),
                         g.ends \union {w})
  <2>1. \E g \in LargeGammas({}), w \in Word : o \in SmallGamma(g, w, edges, extreme)
    BY DEF SmallGammas
  <2> QED BY <2>1 DEF SmallGamma
<1> DEFINE A == Product(Finite, {g.value}, edges)
<1>2. o.value \in Shrunk(A, w, U) /\ o.ends = (g.ends \union {w}) \intersect EndWord
  BY <1>1, OutcomeFields
<1>3. U \subseteq {0} /\ (~ extreme => U = {})
  BY EdgeFacts
<1>4. g.value \in Finite
  BY LargeGammasStray
<1>5. \A a \in A : a \in Finite \union edges
  <2>1. ASSUME NEW a \in A PROVE a \in Finite \union edges
    <3>1. PICK s \in Finite : a \in Times(s, g.value, edges)
      BY <2>1 DEF Product
    <3> QED BY <1>4, <3>1, TimesUp
  <2> QED BY <2>1
<1> HIDE DEF A, U
<1>6. 0 \notin Finite /\ Inf \notin Finite /\ NaN \notin Finite /\ Inf # NaN /\ 0 # Inf /\ 0 # NaN
  BY FiniteFacts
<1>7. CASE w = MaxWord
  <2>1. o.value \in A
    BY <1>2, <1>7 DEF Shrunk
  <2>2. o.value \in Finite \union edges
    BY <1>5, <2>1
  <2> QED BY <1>2, <1>6, <2>2
<1>8. CASE w # MaxWord
  <2>1. o.value \in Product(A, IF w = 0 THEN {0} ELSE Finite \union U, U)
    BY <1>2, <1>8 DEF Shrunk
  <2>2. PICK a \in A, p \in (IF w = 0 THEN {0} ELSE Finite \union U) :
            o.value \in Times(a, p, U)
    BY <2>1 DEF Product
  <2>3. a \in Finite \union edges
    BY <1>5
  <2>4. p = 0 \/ p \in Finite
    BY <1>3, <2>2
  <2>5. p = 0 => w = 0 \/ extreme
    BY <1>3, <1>6, <2>2
  <2>6. w = 0 => 0 \in o.ends
    BY <1>2 DEF EndWord
  <2>7. CASE p = 0
    <3>1. a \in Finite => o.value = 0
      BY <2>2, <2>7, TimesUp
    <3>2. a = 0 => o.value = 0
      BY <2>2, <2>7, TimesUp
    <3>3. a = Inf => o.value = NaN
      BY <2>2, <2>7, TimesUp
    <3>4. a \in Finite \/ a = 0 \/ a = Inf
      BY <2>3
    <3> QED BY <1>2, <1>6, <2>3, <2>5, <2>6, <2>7, <3>1, <3>2, <3>3, <3>4
  <2>8. CASE p \in Finite
    <3>1. a \in Finite => o.value \in Finite \union U
      BY <2>2, <2>8, TimesUp
    <3>2. a = 0 => o.value = 0
      BY <2>2, <2>8, TimesUp
    <3>3. a = Inf => o.value = Inf
      BY <2>2, <2>8, TimesUp
    <3>4. a \in Finite \/ a = 0 \/ a = Inf
      BY <2>3
    <3> QED BY <1>2, <1>3, <1>6, <2>3, <3>1, <3>2, <3>3, <3>4
  <2> QED BY <2>4, <2>7, <2>8
<1> QED BY <1>7, <1>8

LEMMA GammasStray ==
    ASSUME NEW extreme \in BOOLEAN, NEW o \in Gammas(extreme)
    PROVE  o.value \in Nat \union {Inf, NaN} /\ (~ extreme => o.value \in Nat)
<1> DEFINE E == Edges(extreme)
<1>1. o \in Refused \/ o \in LargeGammas(E) \/ o \in SmallGammas(E, extreme)
  BY DEF Gammas
<1>2. E \subseteq {0, Inf} /\ (~ extreme => E = {})
  BY EdgeFacts
<1> HIDE DEF E
<1>3. {0} \union Finite \subseteq Nat
  BY NumberFacts
<1>4. CASE o \in Refused
  BY <1>4, RefusedIsZero
<1>5. CASE o \in LargeGammas(E)
  <2>1. o.value \in Finite \union E
    BY <1>5, LargeGammasStray
  <2> QED BY <1>2, <1>3, <2>1
<1>6. CASE o \in SmallGammas(E, extreme)
  <2>1. /\ o.value \in {0, Inf, NaN} \union Finite
        /\ E = {} => o.value \in {0} \union Finite
    BY <1>2, <1>6, SmallGammasStray
  <2> QED BY <1>2, <1>3, <2>1
<1> QED BY <1>1, <1>4, <1>5, <1>6

(* A part of a beta number: infinite only with extremes, 0 only with them  *)
(* or of the word 0.                                                       *)
LEMMA BetaParts ==
    ASSUME NEW extreme \in BOOLEAN,
           NEW g \in LargeGammas(Overflow(extreme)) \union SmallGammas({}, extreme)
    PROVE  /\ g.value \in {0, Inf} \union Finite
           /\ g.value = Inf => extreme
           /\ g.value = 0 => extreme \/ 0 \in g.ends
           /\ g.ends \subseteq EndWord
<1> DEFINE V == Overflow(extreme)
<1>1. V \subseteq {Inf} /\ (~ extreme => V = {})
  BY EdgeFacts
<1>2. g \in LargeGammas(V) \/ g \in SmallGammas({}, extreme)
  OBVIOUS
<1> HIDE DEF V
<1>3. 0 \notin Finite /\ Inf \notin Finite /\ 0 # Inf
  BY FiniteFacts
<1>4. CASE g \in LargeGammas(V)
  <2>1. g.value \in Finite \union V /\ g.ends \subseteq EndWord
    BY <1>4, LargeGammasStray
  <2> QED BY <1>1, <1>3, <2>1
<1>5. CASE g \in SmallGammas({}, extreme)
  <2>1. /\ g.value \in {0} \union Finite
        /\ ~ extreme /\ g.value = 0 => 0 \in g.ends
        /\ g.ends \subseteq EndWord
    BY <1>5, SmallGammasStray
  <2> QED BY <1>3, <2>1
<1> QED BY <1>2, <1>4, <1>5

(* A beta number is not negative nor infinite, and not a number only with  *)
(* extremes or if two parts are 0.                                         *)
LEMMA BetasStray ==
    ASSUME NEW extreme \in BOOLEAN, NEW o \in Betas(extreme)
    PROVE  /\ o.value \in Nat \union {NaN}
           /\ o.value = NaN => extreme \/ 0 \in o.ends
<1> DEFINE G == LargeGammas(Overflow(extreme)) \union SmallGammas({}, extreme)
           U == Underflow(extreme)
<1>1. CASE o \in Refused
  BY <1>1, RefusedIsZero, NumberFacts
<1>2. CASE o \notin Refused
  <2>1. PICK g \in G \X G : o \in Outcomes(Ratio(g[1].value, g[2].value, U),
                                          g[1].ends \union g[2].ends)
    BY <1>2 DEF Betas
  <2> DEFINE a == g[1].value
             b == g[2].value
  <2>2. o.value \in Ratio(a, b, U) /\ o.ends = (g[1].ends \union g[2].ends) \intersect EndWord
    BY <2>1, OutcomeFields
  <2>3. g[1] \in G /\ g[2] \in G
    BY <2>1
  <2>4. U \subseteq {0}
    BY EdgeFacts
  <2>5. /\ a \in {0, Inf} \union Finite /\ b \in {0, Inf} \union Finite
        /\ a = Inf => extreme
        /\ a = 0 => extreme \/ 0 \in g[1].ends
        /\ g[1].ends \subseteq EndWord
    BY <2>3, BetaParts
  <2>6. {0} \union Finite \subseteq Nat /\ NaN \notin Nat /\ 0 # Inf
    BY NumberFacts
  <2> HIDE DEF a, b, U, G
  <2>7. CASE a = Inf \/ (a = 0 /\ b = 0)
    <3>1. o.value = NaN
      BY <2>2, <2>6, <2>7 DEF Ratio
    <3> QED BY <2>2, <2>5, <2>7, <3>1
  <2>8. CASE ~ (a = Inf \/ (a = 0 /\ b = 0))
    <3>1. o.value \in {0} \union Finite \union U
      BY <2>2, <2>5, <2>8 DEF Ratio
    <3> QED BY <2>4, <2>6, <3>1
  <2> QED BY <2>7, <2>8
<1> QED BY <1>1, <1>2

(* What a caller may rely on, of one call and of its parts.                *)
RangesOf(kind, bounds, extreme, v, ends) ==
    /\ kind = "uniform_int" => Within(v, bounds) \/ MaxWord \in ends
    /\ kind = "between" => Within(v, bounds)
    /\ kind = "poisson" => v \in Nat
    /\ kind = "large_poisson" => v \in Int
    /\ kind \in {"exponential", "weibull", "lognormal", "constant_lognormal",
                 "gamma", "beta"} => v \in Nat \union {Inf, NaN}
    /\ v = NaN =>
          \/ kind \in {"constant", "constant_lognormal", "beta"} /\ 0 \in ends
          \/ kind \in {"gamma", "beta", "triangular"} /\ extreme
    /\ ~ extreme /\ (v \in Special \/ (kind = "large_poisson" /\ v = IntMin))
          => 0 \in ends

Ranges(c) ==
    RangesOf(c.sampler, c.bounds, c.extreme, c.outcome.value, c.outcome.ends)

(* What the lemmas above say of a sampler, in terms of its name.           *)
LEMMA SamplersStray ==
    ASSUME NEW extreme \in BOOLEAN, NEW kind \in Kinds, NEW o \in Sampler(extreme)[kind]
    PROVE  Ranges(Called(kind, <<>>, extreme, o))
<1> DEFINE R == RangesOf(kind, <<>>, extreme, o.value, o.ends)
<1>1. Ranges(Called(kind, <<>>, extreme, o)) <=> R
  BY DEF Called, Ranges
<1> SUFFICES R
  BY <1>1
<1>2. /\ Special = {Inf, NegInf, NaN} /\ Special \intersect Int = {} /\ Nat \subseteq Int
      /\ Inf # NaN /\ NaN \notin Int /\ Numbers \subseteq Int
  BY NumberFacts DEF Special
<1>3. CASE kind \in {"exponential", "weibull"}
  <2>1. o \in Exponentials(extreme) \/ o \in Weibulls(extreme)
    BY <1>3 DEF Sampler
  <2>2. Waits(o, extreme)
    BY <2>1, ExponentialsStray, WeibullsStray
  <2> QED BY <1>2, <1>3, <2>2 DEF RangesOf, Waits
<1>4. CASE kind = "normal"
  <2> DEFINE S == Numbers \ {0}
  <2>1. o \in Normals(Numbers, S, extreme)
    BY <1>4 DEF Sampler
  <2>3. S \subseteq Numbers /\ 0 \notin S
    OBVIOUS
  <2> HIDE DEF S
  <2>2. o.value # NaN /\ (~ extreme /\ o.value \in Special => 0 \in o.ends)
    BY <2>1, <2>3, NormalsStray
  <2> QED BY <1>4, <2>2 DEF RangesOf
<1>5. CASE kind = "constant"
  <2>1. o \in Normals(Numbers, {0}, extreme)
    BY <1>5 DEF Sampler
  <2>2. {0} \subseteq Numbers
    BY DEF Numbers
  <2>3. /\ o.value = NaN => 0 \in o.ends
        /\ ~ extreme /\ o.value \in Special => 0 \in o.ends
    BY <2>1, <2>2, NormalsStray
  <2> QED BY <1>5, <2>3 DEF RangesOf
<1>6. CASE kind \in {"lognormal", "constant_lognormal"}
  <2>1. \/ kind = "lognormal" /\ o \in Lognormals(Numbers \ {0}, extreme)
        \/ kind = "constant_lognormal" /\ o \in Lognormals({0}, extreme)
    BY <1>6 DEF Sampler
  <2>2. {0} \subseteq Numbers /\ Numbers \ {0} \subseteq Numbers
    BY DEF Numbers
  <2>3. /\ o.value \in Nat \union {Inf, NaN}
        /\ o.value = NaN => kind = "constant_lognormal" /\ 0 \in o.ends
        /\ ~ extreme /\ o.value \in Special => 0 \in o.ends
    BY <2>1, <2>2, LognormalsStray
  <2> QED BY <1>6, <2>3 DEF RangesOf
<1>7. CASE kind = "poisson"
  <2>1. o \in KnuthPoissons
    BY <1>7 DEF Sampler
  <2>2. o.value \in Nat
    BY <2>1, KnuthPoissonsStray
  <2> QED BY <1>2, <1>7, <2>2 DEF RangesOf
<1>8. CASE kind = "large_poisson"
  <2>1. o \in LargePoissons(extreme)
    BY <1>8 DEF Sampler
  <2>2. o.value \in Int /\ (~ extreme /\ o.value = IntMin => 0 \in o.ends)
    BY <2>1, LargePoissonsStray
  <2> QED BY <1>2, <1>8, <2>2 DEF RangesOf
<1>9. CASE kind = "gamma"
  <2>1. o \in Gammas(extreme)
    BY <1>9 DEF Sampler
  <2>2. o.value \in Nat \union {Inf, NaN} /\ (~ extreme => o.value \in Nat)
    BY <2>1, GammasStray
  <2> QED BY <1>2, <1>9, <2>2 DEF RangesOf
<1>10. CASE kind = "beta"
  <2>1. o \in Betas(extreme)
    BY <1>10 DEF Sampler
  <2>2. o.value \in Nat \union {NaN} /\ (o.value = NaN => extreme \/ 0 \in o.ends)
    BY <2>1, BetasStray
  <2> QED BY <1>2, <1>10, <2>2 DEF RangesOf
<1>11. CASE kind = "triangular"
  <2>1. o \in (IF extreme THEN WideTriangulars ELSE {})
    BY <1>11 DEF Sampler
  <2>2. extreme
    BY <2>1
  <2> QED BY <1>11, <2>2 DEF RangesOf
<1> QED BY <1>3, <1>4, <1>5, <1>6, <1>7, <1>8, <1>9, <1>10, <1>11 DEF Kinds

(* The calls with integer bounds.                                          *)
LEMMA BoundedStray ==
    ASSUME NEW c \in BoundedCalls PROVE Ranges(c)
<1>1. Bounds \subseteq Int
  BY BoundsAssumption
<1>2. Special \intersect Int = {} /\ NaN \in Special
  BY NumberFacts DEF Special
<1>3. CASE \E a, b \in Bounds : \E o \in UniformInts(a, b) :
               c = Called("uniform_int", <<a, b>>, FALSE, o)
  <2>1. PICK a \in Bounds, b \in Bounds : \E o \in UniformInts(a, b) :
            c = Called("uniform_int", <<a, b>>, FALSE, o)
    BY <1>3
  <2>2. PICK o \in UniformInts(a, b) : c = Called("uniform_int", <<a, b>>, FALSE, o)
    BY <2>1
  <2>3. o.value \in Int /\ (Within(o.value, <<a, b>>) \/ MaxWord \in o.ends)
    BY <1>1, UniformIntsStray
  <2>4. c.sampler = "uniform_int" /\ c.bounds = <<a, b>> /\ c.outcome = o
    BY <2>2 DEF Called
  <2>5. RangesOf(c.sampler, c.bounds, c.extreme, o.value, o.ends)
    BY <1>2, <2>3, <2>4 DEF RangesOf
  <2> QED BY <2>4, <2>5 DEF Ranges
<1>4. CASE \E a, mode, b \in Bounds : \E o \in Triangulars(a, mode, b) :
               c = Called("between", <<a, b>>, FALSE, o)
  <2>1. PICK a \in Bounds, mode \in Bounds, b \in Bounds :
            \E o \in Triangulars(a, mode, b) : c = Called("between", <<a, b>>, FALSE, o)
    BY <1>4
  <2>2. PICK o \in Triangulars(a, mode, b) : c = Called("between", <<a, b>>, FALSE, o)
    BY <2>1
  <2>3. o.value \in Int /\ Within(o.value, <<a, b>>)
    BY <1>1, TriangularsStray
  <2>4. c.sampler = "between" /\ c.bounds = <<a, b>> /\ c.outcome = o
    BY <2>2 DEF Called
  <2>5. RangesOf(c.sampler, c.bounds, c.extreme, o.value, o.ends)
    BY <1>2, <2>3, <2>4 DEF RangesOf
  <2> QED BY <2>4, <2>5 DEF Ranges
<1>5. (\E a, b \in Bounds : \E o \in UniformInts(a, b) :
             c = Called("uniform_int", <<a, b>>, FALSE, o))
      \/ (\E a, mode, b \in Bounds : \E o \in Triangulars(a, mode, b) :
             c = Called("between", <<a, b>>, FALSE, o))
  <2>1. \/ \E a \in Bounds, b \in Bounds : c \in UniformCalls(a, b)
        \/ \E a \in Bounds, mode \in Bounds, b \in Bounds : c \in BetweenCalls(a, mode, b)
    BY DEF BoundedCalls
  <2> QED BY <2>1 DEF UniformCalls, BetweenCalls
<1> QED BY <1>3, <1>4, <1>5

(* For every width of the words, all bounds and all real arguments, the    *)
(* extreme ones included: what a caller of random.c may rely on.           *)
THEOREM SamplesInRange == SamplingSpec => []SamplesInTheirRange
<1>1. SamplesInTheirRange <=> Ranges(last)
  BY DEF SamplesInTheirRange, Ranges, RangesOf
<1>2. SamplingInit => SamplesInTheirRange
  <2>1. /\ Nothing.sampler = "none" /\ Nothing.outcome.value = 0
        /\ 0 \notin Special /\ 0 # NaN
    BY NumberFacts DEF Nothing, Called
  <2>2. Ranges(Nothing)
    BY <2>1 DEF Ranges, RangesOf
  <2> QED BY <1>1, <2>2 DEF SamplingInit
<1>3. ASSUME SamplesInTheirRange, [SamplingNext]_samplingVars
      PROVE  SamplesInTheirRange'
  <2>1. CASE DrawNumber
    <3>1. last' \in RealCalls => Ranges(last')
      <4>1. SUFFICES ASSUME last' \in RealCalls PROVE Ranges(last')
        OBVIOUS
      <4>2. PICK extreme \in BOOLEAN, kind \in Kinds :
                last' \in {Called(kind, <<>>, extreme, o) : o \in Sampler(extreme)[kind]}
        BY <4>1 DEF RealCalls
      <4>3. PICK o \in Sampler(extreme)[kind] : last' = Called(kind, <<>>, extreme, o)
        BY <4>2
      <4> QED BY <4>3, SamplersStray
    <3>2. last' \in BoundedCalls => Ranges(last')
      BY BoundedStray
    <3>3. Ranges(last')
      BY <2>1, <3>1, <3>2 DEF DrawNumber
    <3> QED BY <3>3 DEF SamplesInTheirRange, Ranges, RangesOf
  <2>2. DrawPair \/ AskMedian \/ OpenWindow \/ CloseWindow \/ Watch
            \/ UNCHANGED samplingVars => UNCHANGED last
    BY DEF DrawPair, AskMedian, OpenWindow, CloseWindow, Watch, samplingVars
  <2>3. UNCHANGED last => SamplesInTheirRange'
    BY <1>3 DEF SamplesInTheirRange
  <2> QED BY <1>3, <2>1, <2>2, <2>3 DEF SamplingNext
<1> QED BY <1>2, <1>3, PTL DEF SamplingSpec

-----------------------------------------------------------------------------
(* Running sums, statistics.c:23-26: the sum of an array and how it moves *)
(* with its elements.                                                      *)

(* The sums of a loop over an array of integers.                           *)
LEMMA SumsRun ==
    ASSUME NEW a \in Seq(Int)
    PROVE  /\ Sums(a)[0] = 0
           /\ \A i \in 1 .. Len(a) : Sums(a)[i] = Sums(a)[i - 1] + a[i]
           /\ \A i \in 0 .. Len(a) : Sums(a)[i] \in Int
<1> DEFINE n == Len(a)
           g == [i \in 1 .. n |-> [t \in Int |-> t + a[i]]]
           IsLoop(f) == f = [i \in 0 .. Len(a) |-> IF i = 0 THEN 0 ELSE f[i - 1] + a[i]]
<1>0. n \in Nat /\ n = Len(a) /\ \A i \in 1 .. n : a[i] \in Int
  OBVIOUS
<1> HIDE DEF n
<1>5. \A i \in 1 .. n : i \in 0 .. n /\ i # 0 /\ i - 1 \in 0 .. n
  BY <1>0
<1>1. g \in [1 .. n -> [Int -> Int]]
  BY <1>0
<1>2. PICK f : IsRun(f, Int, n, 0, g)
  <2> HIDE DEF g
  <2>1. 0 \in Int
    OBVIOUS
  <2> QED BY <1>0, <1>1, <2>1, LoopExists
<1>3. IsLoop(f)
  <2>1. \A i \in 1 .. n : f[i - 1] \in Int
    BY <1>2, <1>5 DEF IsRun
  <2>2. \A i \in 1 .. n : g[i][f[i - 1]] = f[i - 1] + a[i]
    BY <2>1
  <2>3. \A i \in 0 .. n : i # 0 => i \in 1 .. n
    BY <1>0
  <2> HIDE DEF g
  <2> QED BY <1>0, <1>2, <2>2, <2>3 DEF IsRun
<1> DEFINE c == Sums(a)
<1>4. IsLoop(c)
  <2>1. Sums(a) = CHOOSE r : IsLoop(r)
    BY DEF Sums
  <2> HIDE DEF IsLoop
  <2> QED BY <1>3, <2>1
<1> HIDE DEF c
<1>6. c[0] = 0 /\ \A i \in 1 .. n : c[i] = c[i - 1] + a[i]
  <2>1. 0 \in 0 .. n
    BY <1>0
  <2> QED BY <1>0, <1>4, <1>5, <2>1
<1>7. \A i \in 0 .. n : c[i] \in Int
  <2> DEFINE T == {i \in 0 .. n : c[i] \in Int}
  <2>1. 0 \in T
    BY <1>0, <1>6
  <2>2. ASSUME NEW i \in 1 .. n, i - 1 \in T PROVE i \in T
    <3>1. i \in 0 .. n /\ a[i] \in Int /\ c[i - 1] \in Int /\ c[i] = c[i - 1] + a[i]
      BY <1>0, <1>5, <1>6, <2>2
    <3> QED BY <3>1
  <2>3. T = 0 .. n
    <3> HIDE DEF T
    <3>1. T \in SUBSET (0 .. n)
      BY DEF T
    <3> QED BY <1>0, <2>1, <2>2, <3>1, TurnInduction
  <2> QED BY <2>3
<1> QED BY <1>0, <1>6, <1>7 DEF c

(* The sum over the first turns is a matter of the first elements.         *)
LEMMA SumsOfPrefix ==
    ASSUME NEW a \in Seq(Int), NEW b \in Seq(Int), NEW n \in 0 .. Len(a), n <= Len(b),
           \A i \in 1 .. n : a[i] = b[i]
    PROVE  Sums(a)[n] = Sums(b)[n]
<1> DEFINE T == {i \in 0 .. n : Sums(a)[i] = Sums(b)[i]}
<1>0. n \in Nat
  OBVIOUS
<1>1. 0 \in T
  BY <1>0, SumsRun
<1>2. ASSUME NEW i \in 1 .. n, i - 1 \in T PROVE i \in T
  <2>1. i \in 1 .. Len(a) /\ i \in 1 .. Len(b)
    OBVIOUS
  <2>2. Sums(a)[i] = Sums(a)[i - 1] + a[i] /\ Sums(b)[i] = Sums(b)[i - 1] + b[i]
    BY <2>1, SumsRun
  <2> QED BY <1>2, <2>2
<1>3. T = 0 .. n
  <2> HIDE DEF T
  <2>1. T \in SUBSET (0 .. n)
    BY DEF T
  <2> QED BY <1>0, <1>1, <1>2, <2>1, TurnInduction
<1> QED BY <1>3, <1>0

(* A sum of integers is one, and that of none is 0.                        *)
LEMMA TotalIsInt ==
    ASSUME NEW a \in Seq(Int)
    PROVE  Total(a) \in Int /\ Total(<<>>) = 0
<1>1. Len(a) \in 0 .. Len(a)
  OBVIOUS
<1>2. <<>> \in Seq(Int) /\ Len(<<>>) = 0
  OBVIOUS
<1> QED BY <1>1, <1>2, SumsRun DEF Total

(* One more element adds itself to the sum.                                *)
LEMMA TotalOfAppend ==
    ASSUME NEW a \in Seq(Int), NEW v \in Int
    PROVE  Total(Append(a, v)) = Total(a) + v
<1> DEFINE b == Append(a, v)
           n == Len(a)
<1>1. /\ b \in Seq(Int) /\ Len(b) = n + 1 /\ n \in Nat
      /\ \A i \in 1 .. n : b[i] = a[i]
      /\ b[n + 1] = v
  BY AppendProperties
<1> HIDE DEF b
<1>2. Sums(a)[n] = Sums(b)[n]
  <2>1. n \in 0 .. Len(a) /\ n <= Len(b) /\ \A i \in 1 .. n : a[i] = b[i]
    BY <1>1
  <2> QED BY <1>1, <2>1, SumsOfPrefix
<1>3. Sums(b)[n + 1] = Sums(b)[n] + v
  <2>1. n + 1 \in 1 .. Len(b) /\ (n + 1) - 1 = n
    BY <1>1
  <2> QED BY <1>1, <2>1, SumsRun
<1> QED BY <1>1, <1>2, <1>3 DEF Total, b

(* Without its first element a sum is less by that.                        *)
LEMMA TotalOfTail ==
    ASSUME NEW a \in Seq(Int), a # <<>>
    PROVE  Total(Tail(a)) = Total(a) - a[1]
<1> DEFINE b == Tail(a)
           n == Len(b)
           T == {i \in 0 .. n : Sums(b)[i] = Sums(a)[i + 1] - a[1]}
<1>1. /\ b \in Seq(Int) /\ n = Len(a) - 1 /\ n \in Nat
      /\ \A i \in 1 .. n : b[i] = a[i + 1]
      /\ a[1] \in Int
  BY TailElements
<1> HIDE DEF b, n
<1>2. 0 \in T
  <2>1. 1 \in 1 .. Len(a)
    BY <1>1
  <2>2. Sums(a)[1] = Sums(a)[0] + a[1] /\ Sums(a)[0] = 0
    BY <2>1, SumsRun
  <2>3. Sums(b)[0] = 0
    BY <1>1, SumsRun
  <2> QED BY <1>1, <2>2, <2>3
<1>3. ASSUME NEW i \in 1 .. n, i - 1 \in T PROVE i \in T
  <2>1. i \in 1 .. Len(b) /\ i + 1 \in 1 .. Len(a) /\ (i + 1) - 1 = i /\ i \in 0 .. Len(a)
    BY <1>1 DEF n
  <2>2. Sums(b)[i] = Sums(b)[i - 1] + b[i] /\ Sums(a)[i + 1] = Sums(a)[i] + a[i + 1]
    BY <1>1, <2>1, SumsRun
  <2>3. Sums(a)[i] \in Int /\ a[i + 1] \in Int
    BY <2>1, SumsRun
  <2>4. Sums(b)[i - 1] = Sums(a)[i] - a[1]
    BY <1>3
  <2> QED BY <1>1, <2>2, <2>3, <2>4
<1>4. T = 0 .. n
  <2> HIDE DEF T
  <2>1. T \in SUBSET (0 .. n)
    BY DEF T
  <2> QED BY <1>1, <1>2, <1>3, <2>1, TurnInduction
<1>5. Sums(b)[n] = Sums(a)[n + 1] - a[1]
  <2>1. n \in 0 .. n
    BY <1>1
  <2>2. n \in T
    BY <1>4, <2>1
  <2> QED BY <2>2
<1> QED BY <1>1, <1>5 DEF Total, b, n

(* Rearrangements the provers are given as facts.                          *)
LEMMA Regroup ==
    \A a, b, c, d, e, f, g, h \in Int :
        (a + b + c + d) + (e + f + g + h) = (a + e) + (b + f) + (c + g) + (d + h)
  OBVIOUS

(* A product distributes over a sum.                                       *)
LEMMA Distributes ==
    \A p, u, v \in Int : p * (u + v) = p * u + p * v /\ p * u \in Int
  BY SMTT(30)

(* Each element of d is the same combination of those of a, b and c.       *)
Combines(d, a, b, c, p, q, r, t) ==
    /\ Len(b) = Len(a) /\ Len(c) = Len(a) /\ Len(d) = Len(a)
    /\ \A i \in 1 .. Len(a) : d[i] = p * a[i] + q * b[i] + r * c[i] + t

(* Then so is its sum of their sums.                                       *)
LEMMA TotalIsLinear ==
    ASSUME NEW a \in Seq(Int), NEW b \in Seq(Int), NEW c \in Seq(Int), NEW d \in Seq(Int),
           NEW p \in Int, NEW q \in Int, NEW r \in Int, NEW t \in Int,
           Combines(d, a, b, c, p, q, r, t)
    PROVE  Total(d) = p * Total(a) + q * Total(b) + r * Total(c) + t * Len(a)
<1> DEFINE n == Len(a)
           T == {i \in 0 .. n : Sums(d)[i] = p * Sums(a)[i] + q * Sums(b)[i]
                                             + r * Sums(c)[i] + t * i}
<1>1. /\ n \in Nat /\ n = Len(a) /\ Len(b) = n /\ Len(c) = n /\ Len(d) = n
      /\ \A i \in 1 .. n : a[i] \in Int /\ b[i] \in Int /\ c[i] \in Int /\ d[i] \in Int
  <2>1. Len(b) = Len(a) /\ Len(c) = Len(a) /\ Len(d) = Len(a)
    BY DEF Combines
  <2>2. \A e \in Seq(Int) : Len(e) \in Nat /\ \A i \in 1 .. Len(e) : e[i] \in Int
    OBVIOUS
  <2> QED BY <2>1, <2>2
<1> HIDE DEF n
<1>2. 0 \in T
  <2>1. Sums(a)[0] = 0 /\ Sums(b)[0] = 0 /\ Sums(c)[0] = 0 /\ Sums(d)[0] = 0
    BY SumsRun
  <2>2. p * 0 = 0 /\ q * 0 = 0 /\ r * 0 = 0 /\ t * 0 = 0 /\ 0 \in 0 .. n
    BY <1>1
  <2>3. p * 0 + q * 0 + r * 0 + t * 0 = 0
    BY <2>2
  <2> QED BY <2>1, <2>2, <2>3
<1>3. ASSUME NEW i \in 1 .. n, i - 1 \in T PROVE i \in T
  <2> DEFINE A == Sums(a)[i - 1]
             B == Sums(b)[i - 1]
             C == Sums(c)[i - 1]
             D == Sums(d)[i - 1]
  <2>1. i - 1 \in 0 .. n /\ i \in 0 .. n /\ i \in Int /\ i - 1 \in Int /\ i = (i - 1) + 1
    BY <1>1
  <2>2. A \in Int /\ B \in Int /\ C \in Int /\ D \in Int
    BY <1>1, <2>1, SumsRun
  <2>3. /\ Sums(a)[i] = A + a[i] /\ Sums(b)[i] = B + b[i]
        /\ Sums(c)[i] = C + c[i] /\ Sums(d)[i] = D + d[i]
    BY <1>1, SumsRun
  <2>4. D = p * A + q * B + r * C + t * (i - 1)
    BY <1>3
  <2>5. d[i] = p * a[i] + q * b[i] + r * c[i] + t
    BY <1>1 DEF Combines
  <2> HIDE DEF A, B, C, D
  <2> DEFINE ai == a[i]
             bi == b[i]
             ci == c[i]
             di == d[i]
  <2>6. ai \in Int /\ bi \in Int /\ ci \in Int
    BY <1>1
  <2>7. di = p * ai + q * bi + r * ci + t
    BY <2>5
  <2> HIDE DEF ai, bi, ci, di
  <2>8. /\ p * (A + ai) = p * A + p * ai /\ q * (B + bi) = q * B + q * bi
        /\ r * (C + ci) = r * C + r * ci /\ t * ((i - 1) + 1) = t * (i - 1) + t * 1
        /\ p * A \in Int /\ p * ai \in Int /\ q * B \in Int /\ q * bi \in Int
        /\ r * C \in Int /\ r * ci \in Int /\ t * (i - 1) \in Int
    BY <2>1, <2>2, <2>6, Distributes
  <2>9. t * i = t * (i - 1) + t
    <3>1. t * 1 = t
      OBVIOUS
    <3> QED BY <2>1, <2>8, <3>1
  <2>10. D + di = p * (A + ai) + q * (B + bi) + r * (C + ci) + t * i
    <3> DEFINE u == p * A
               v == q * B
               w == r * C
               z == t * (i - 1)
               pa == p * ai
               qb == q * bi
               rc == r * ci
               ua == p * (A + ai)
               vb == q * (B + bi)
               wc == r * (C + ci)
               yt == t * i
    <3>1. /\ ua = u + pa /\ vb = v + qb /\ wc = w + rc /\ yt = z + t
          /\ D = u + v + w + z /\ di = pa + qb + rc + t
          /\ u \in Int /\ v \in Int /\ w \in Int /\ z \in Int
          /\ pa \in Int /\ qb \in Int /\ rc \in Int
      BY <2>4, <2>7, <2>8, <2>9
    <3> HIDE DEF u, v, w, z, pa, qb, rc, ua, vb, wc, yt
    <3>2. D + di = (u + pa) + (v + qb) + (w + rc) + (z + t)
      BY <3>1, Regroup
    <3>3. D + di = ua + vb + wc + yt
      BY <3>1, <3>2
    <3> QED BY <3>3 DEF ua, vb, wc, yt
  <2> QED BY <2>1, <2>3, <2>10 DEF ai, bi, ci, di
<1>4. T = 0 .. n
  <2> HIDE DEF T
  <2>1. T \in SUBSET (0 .. n)
    BY DEF T
  <2> QED BY <1>1, <1>2, <1>3, <2>1, TurnInduction
<1>5. n \in T
  <2>1. n \in 0 .. n
    BY <1>1
  <2> QED BY <1>4, <2>1
<1>6. Sums(d)[n] = p * Sums(a)[n] + q * Sums(b)[n] + r * Sums(c)[n] + t * n
  BY <1>5
<1> QED BY <1>1, <1>6 DEF Total

(* A sum of terms that are not negative is not negative.                   *)
LEMMA TotalOfNaturals ==
    ASSUME NEW a \in Seq(Int), \A i \in 1 .. Len(a) : a[i] >= 0
    PROVE  Total(a) >= 0
<1> DEFINE n == Len(a)
           T == {i \in 0 .. n : Sums(a)[i] >= 0}
<1>1. /\ n \in Nat /\ n = Len(a) /\ \A i \in 1 .. n : a[i] \in Int /\ a[i] >= 0
      /\ \A i \in 1 .. n : i \in 0 .. n /\ i - 1 \in 0 .. n
  OBVIOUS
<1> HIDE DEF n
<1>2. 0 \in T
  BY <1>1, SumsRun
<1>3. ASSUME NEW i \in 1 .. n, i - 1 \in T PROVE i \in T
  <2>1. Sums(a)[i - 1] \in Int /\ Sums(a)[i] = Sums(a)[i - 1] + a[i]
    BY <1>1, SumsRun
  <2>2. Sums(a)[i - 1] >= 0
    BY <1>3
  <2> QED BY <1>1, <2>1, <2>2
<1>4. T = 0 .. n
  <2> HIDE DEF T
  <2>1. T \in SUBSET (0 .. n)
    BY DEF T
  <2> QED BY <1>1, <1>2, <1>3, <2>1, TurnInduction
<1>5. n \in T
  <2>1. n \in 0 .. n
    BY <1>1
  <2> QED BY <1>4, <2>1
<1> QED BY <1>1, <1>5 DEF Total

(* The elementwise product of two arrays of one length.                    *)
Pairwise(a, b) == [i \in 1 .. Len(a) |-> a[i] * b[i]]

(* It is an array of integers whose sum is Products.                       *)
LEMMA PairwiseIsArray ==
    ASSUME NEW a \in Seq(Int), NEW b \in Seq(Int), Len(b) = Len(a)
    PROVE  /\ Pairwise(a, b) \in Seq(Int) /\ Len(Pairwise(a, b)) = Len(a)
           /\ \A i \in 1 .. Len(a) : Pairwise(a, b)[i] = a[i] * b[i]
           /\ Products(a, b) = Total(Pairwise(a, b)) /\ Products(a, b) \in Int
<1> DEFINE c == Pairwise(a, b)
<1>1. Len(a) \in Nat /\ \A i \in 1 .. Len(a) : a[i] \in Int /\ b[i] \in Int
  OBVIOUS
<1>2. \A i \in 1 .. Len(a) : a[i] * b[i] \in Int
  BY <1>1, Distributes
<1>3. c \in [1 .. Len(a) -> Int]
  BY <1>2 DEF Pairwise
<1>4. Products(a, b) = Total(c) /\ \A i \in 1 .. Len(a) : c[i] = a[i] * b[i]
  BY DEF Products, Pairwise
<1> HIDE DEF c
<1>5. c \in Seq(Int) /\ Len(c) = Len(a)
  BY <1>1, <1>3
<1>6. Total(c) \in Int
  BY <1>5, TotalIsInt
<1> QED BY <1>4, <1>5, <1>6 DEF c

-----------------------------------------------------------------------------
(* Covariance and regression.                                              *)

(* A product of two deviations, multiplied out.                            *)
LEMMA DeviationTerm ==
    ASSUME NEW n \in Int, NEW u \in Int, NEW v \in Int, NEW X \in Int, NEW Y \in Int
    PROVE  (n * u - X) * (n * v - Y)
             = (n * n) * (u * v) + (-(n * Y)) * u + (-(n * X)) * v + X * Y
  BY SMTT(30)

(* The sum of them all.                                                    *)
LEMMA DeviationSum ==
    ASSUME NEW n \in Int, NEW P \in Int, NEW X \in Int, NEW Y \in Int
    PROVE  (n * n) * P + (-(n * Y)) * X + (-(n * X)) * Y + (X * Y) * n
             = n * (n * P - X * Y)
  BY SMTT(30)

(* One square of a combination of deviations, multiplied out.              *)
LEMMA SquareTerm ==
    ASSUME NEW A \in Int, NEW B \in Int, NEW u \in Int, NEW v \in Int
    PROVE  /\ (A * v - B * u) * (A * v - B * u)
                = (A * A) * (v * v) + (-(2 * (A * B))) * (u * v) + (B * B) * (u * u) + 0
           /\ (A * v - B * u) * (A * v - B * u) >= 0
  BY SMTT(30)

(* The sum of them all, for the coefficients CauchySchwarz takes.          *)
LEMMA SquareSum ==
    ASSUME NEW A \in Int, NEW B \in Int, NEW C \in Int, NEW n \in Int
    PROVE  (A * A) * C + (-(2 * (A * B))) * B + (B * B) * A + 0 * n = A * (A * C - B * B)
  BY SMTT(30)

(* Slope times variance is covariance.                                     *)
LEMMA SlopeIdentity ==
    ASSUME NEW n \in Int, NEW num \in Int, NEW den \in Int, NEW N \in Int
    PROVE  (num * (n * den)) * N = (n * num) * (den * N)
  BY SMTT(30)

(* Slope times the mean of x, and the intercept, are the mean of y.        *)
LEMMA InterceptIdentity ==
    ASSUME NEW n \in Int, NEW X \in Int, NEW Y \in Int, NEW Q \in Int, NEW P \in Int
    PROVE  LET num == n * P - X * Y
               den == n * Q - X * X
           IN  Y * ((den * n) * den)
                 = ((num * X) * den + (Y * Q - X * P) * (den * n)) * n
<1> DEFINE num == n * P - X * Y
           den == n * Q - X * X
<1>1. Y * den = num * X + (Y * Q - X * P) * n
  BY SMTT(30)
<1>2. num \in Int /\ den \in Int /\ Y * Q - X * P \in Int
  BY Distributes
<1> DEFINE k == Y * Q - X * P
<1> HIDE DEF num, den, k
<1>3. Y * den = num * X + k * n /\ k \in Int /\ num \in Int /\ den \in Int
  BY <1>1, <1>2 DEF k
<1>4. Y * ((den * n) * den) = (Y * den) * (n * den)
  BY <1>3, SMTT(30)
<1>5. ((num * X) * den + k * (den * n)) * n = (num * X + k * n) * (n * den)
  BY <1>3, SMTT(30)
<1> QED BY <1>3, <1>4, <1>5 DEF num, den, k

(* Squared correlation times variance is slope times covariance.           *)
LEMMA CorrelationIdentity ==
    ASSUME NEW n \in Int, NEW num \in Int, NEW den \in Int, NEW C \in Int, NEW N \in Int
    PROVE  (((n * num) * (n * num)) * C) * (den * N)
             = (num * (n * num)) * (((n * den) * C) * N)
  BY SMTT(30)

(* sum_sq / count - mean^2, scaled, is the sum of squared deviations,      *)
(* scaled.                                                                 *)
LEMMA VarianceIdentity ==
    ASSUME NEW c \in Int, NEW S \in Int, NEW Q \in Int
    PROVE  (((Q * (c * c) - (S * S) * c) * c) * ((c * c) * (c - 1)))
             = (c * (c * Q - S * S)) * ((c * (c * c)) * (c - 1))
  BY SMTT(30)

(* A function on 1 .. n is a sequence of length n.                         *)
LEMMA IsArray ==
    ASSUME NEW n \in Nat, NEW f \in [1 .. n -> Int]
    PROVE  f \in Seq(Int) /\ Len(f) = n /\ \A i \in 1 .. n : f[i] \in Int
  OBVIOUS

(* The sum of the products of the deviations, without its means: what the  *)
(* formulas that go over the data once compute.                            *)
LEMMA DeviationsBySums ==
    ASSUME NEW a \in Seq(Int), NEW b \in Seq(Int), Len(b) = Len(a)
    PROVE  /\ Deviations(a, b)
                = Len(a) * (Len(a) * Products(a, b) - Total(a) * Total(b))
           /\ Deviations(a, b) \in Int
<1> DEFINE n == Len(a)
           X == Total(a)
           Y == Total(b)
           c == Pairwise(a, b)
           d == [i \in 1 .. n |-> (n * a[i] - X) * (n * b[i] - Y)]
<1>0. n \in Nat /\ n = Len(a) /\ \A i \in 1 .. n : a[i] \in Int /\ b[i] \in Int
  OBVIOUS
<1>1. X \in Int /\ Y \in Int
  BY TotalIsInt
<1>2. /\ c \in Seq(Int) /\ Len(c) = n /\ \A i \in 1 .. n : c[i] = a[i] * b[i]
      /\ Products(a, b) = Total(c) /\ Products(a, b) \in Int
  BY PairwiseIsArray
<1>3. Deviations(a, b) = Total(d)
  BY DEF Deviations
<1>4. \A i \in 1 .. n : d[i] = (n * a[i] - X) * (n * b[i] - Y)
  OBVIOUS
<1>5. \A i \in 1 .. n : (n * a[i] - X) * (n * b[i] - Y) \in Int
  <2> HIDE DEF n, X, Y, c, d
  <2>1. \A i \in 1 .. n : n * a[i] - X \in Int /\ n * b[i] - Y \in Int
    BY <1>0, <1>1
  <2> QED BY <2>1, Distributes
<1>6. d \in [1 .. n -> Int]
  BY <1>5
<1> HIDE DEF n, X, Y, c, d
<1>7. d \in Seq(Int) /\ Len(d) = n
  BY <1>0, <1>6, IsArray
<1> DEFINE p == n * n
           q == -(n * Y)
           r == -(n * X)
           t == X * Y
<1>8. p \in Int /\ q \in Int /\ r \in Int /\ t \in Int
  BY <1>0, <1>1, Distributes
<1>9. \A i \in 1 .. n : d[i] = p * c[i] + q * a[i] + r * b[i] + t
  <2> TAKE i \in 1 .. n
  <2>1. n \in Int /\ a[i] \in Int /\ b[i] \in Int
    BY <1>0
  <2>2. (n * a[i] - X) * (n * b[i] - Y)
          = (n * n) * (a[i] * b[i]) + (-(n * Y)) * a[i] + (-(n * X)) * b[i] + X * Y
    <3> DEFINE u == a[i]
               v == b[i]
    <3>1. u \in Int /\ v \in Int
      BY <2>1
    <3> HIDE DEF u, v
    <3>2. (n * u - X) * (n * v - Y)
            = (n * n) * (u * v) + (-(n * Y)) * u + (-(n * X)) * v + X * Y
      BY <1>1, <2>1, <3>1, DeviationTerm
    <3> QED BY <3>2 DEF u, v
  <2> QED BY <1>2, <1>4, <2>2
<1>10. Total(d) = p * Total(c) + q * Total(a) + r * Total(b) + t * Len(c)
  <2> HIDE DEF p, q, r, t
  <2>1. Len(a) = Len(c) /\ Len(b) = Len(c) /\ Len(d) = Len(c)
    BY <1>0, <1>2, <1>7
  <2>2. \A i \in 1 .. Len(c) : d[i] = p * c[i] + q * a[i] + r * b[i] + t
    BY <1>2, <1>9
  <2>3. Combines(d, c, a, b, p, q, r, t)
    BY <2>1, <2>2 DEF Combines
  <2> QED BY <1>2, <1>7, <1>8, <2>3, TotalIsLinear
<1>11. Total(d) = n * (n * Products(a, b) - X * Y)
  <2>1. Total(d) = p * Products(a, b) + q * X + r * Y + t * n
    BY <1>2, <1>10 DEF X, Y
  <2> DEFINE P == Products(a, b)
  <2>2. P \in Int /\ n \in Int
    BY <1>0, <1>2
  <2> HIDE DEF P
  <2>3. (n * n) * P + (-(n * Y)) * X + (-(n * X)) * Y + (X * Y) * n = n * (n * P - X * Y)
    BY <1>1, <2>2, DeviationSum
  <2>4. Total(d) = (n * n) * P + (-(n * Y)) * X + (-(n * X)) * Y + (X * Y) * n
    BY <2>1 DEF P
  <2>5. Total(d) = n * (n * P - X * Y)
    BY <2>3, <2>4
  <2> QED BY <2>5 DEF P
<1>12. Total(d) \in Int
  BY <1>7, TotalIsInt
<1> QED BY <1>0, <1>3, <1>11, <1>12 DEF X, Y

(* No correlation is stronger than that of an array with itself: the       *)
(* inequality of Cauchy and Schwarz, from a sum of squares.                *)
LEMMA CauchySchwarz ==
    ASSUME NEW a \in Seq(Int), NEW b \in Seq(Int), Len(b) = Len(a)
    PROVE  /\ Deviations(a, a) >= 0
           /\ Deviations(a, a) # 0
                => Deviations(a, b) * Deviations(a, b)
                     <= Deviations(a, a) * Deviations(b, b)
<1> DEFINE n == Len(a)
           u == [i \in 1 .. n |-> n * a[i] - Total(a)]
           v == [i \in 1 .. n |-> n * b[i] - Total(b)]
           A == Deviations(a, a)
           B == Deviations(a, b)
           C == Deviations(b, b)
<1>0. n \in Nat /\ n = Len(a) /\ n = Len(b) /\ \A i \in 1 .. n : a[i] \in Int /\ b[i] \in Int
  OBVIOUS
<1>1. Total(a) \in Int /\ Total(b) \in Int
  BY TotalIsInt
<1>2. \A i \in 1 .. n : n * a[i] - Total(a) \in Int /\ n * b[i] - Total(b) \in Int
  <2> HIDE DEF n, u, v, A, B, C
  <2> QED BY <1>0, <1>1, Distributes
<1>3. u \in [1 .. n -> Int] /\ v \in [1 .. n -> Int]
  BY <1>2
<1>4. A \in Int /\ B \in Int /\ C \in Int
  BY DeviationsBySums
<1>5. /\ A = Total(Pairwise(u, u)) /\ B = Total(Pairwise(u, v))
      /\ C = Total(Pairwise(v, v))
  <2>1. Len(u) = n /\ Len(v) = n
    BY <1>0, <1>3
  <2>2. /\ Pairwise(u, u) = [i \in 1 .. n |-> (n * a[i] - Total(a)) * (n * a[i] - Total(a))]
        /\ Pairwise(u, v) = [i \in 1 .. n |-> (n * a[i] - Total(a)) * (n * b[i] - Total(b))]
        /\ Pairwise(v, v) = [i \in 1 .. n |-> (n * b[i] - Total(b)) * (n * b[i] - Total(b))]
    BY <2>1 DEF Pairwise
  <2> QED BY <1>0, <2>2 DEF Deviations
<1> HIDE DEF n, u, v, A, B, C
<1>6. u \in Seq(Int) /\ v \in Seq(Int) /\ Len(u) = n /\ Len(v) = n
      /\ \A i \in 1 .. n : u[i] \in Int /\ v[i] \in Int
  BY <1>0, <1>3, IsArray
<1> DEFINE uu == Pairwise(u, u)
           uv == Pairwise(u, v)
           vv == Pairwise(v, v)
<1>7. /\ uu \in Seq(Int) /\ Len(uu) = n /\ \A i \in 1 .. n : uu[i] = u[i] * u[i]
      /\ uv \in Seq(Int) /\ Len(uv) = n /\ \A i \in 1 .. n : uv[i] = u[i] * v[i]
      /\ vv \in Seq(Int) /\ Len(vv) = n /\ \A i \in 1 .. n : vv[i] = v[i] * v[i]
  <2>1. /\ uu \in Seq(Int) /\ Len(uu) = Len(u)
        /\ \A i \in 1 .. Len(u) : uu[i] = u[i] * u[i]
    BY <1>6, PairwiseIsArray
  <2>2. /\ uv \in Seq(Int) /\ Len(uv) = Len(u)
        /\ \A i \in 1 .. Len(u) : uv[i] = u[i] * v[i]
    <3>1. Len(v) = Len(u)
      BY <1>6
    <3> QED BY <1>6, <3>1, PairwiseIsArray
  <2>3. /\ vv \in Seq(Int) /\ Len(vv) = Len(v)
        /\ \A i \in 1 .. Len(v) : vv[i] = v[i] * v[i]
    BY <1>6, PairwiseIsArray
  <2> HIDE DEF uu, uv, vv
  <2> QED BY <1>6, <2>1, <2>2, <2>3
<1> HIDE DEF uu, uv, vv
<1>8. A >= 0
  <2>1. \A i \in Int : i * i >= 0
    BY SMTT(30)
  <2>2. \A i \in 1 .. Len(uu) : uu[i] >= 0
    BY <1>6, <1>7, <2>1
  <2> QED BY <1>5, <1>7, <2>2, TotalOfNaturals DEF uu
<1> DEFINE s == [i \in 1 .. n |-> (A * v[i] - B * u[i]) * (A * v[i] - B * u[i])]
<1>9. \A i \in 1 .. n : (A * v[i] - B * u[i]) * (A * v[i] - B * u[i]) \in Int
  <2>1. \A i \in 1 .. n : A * v[i] - B * u[i] \in Int
    BY <1>4, <1>6, Distributes
  <2> QED BY <2>1, Distributes
<1>10. s \in [1 .. n -> Int]
       /\ \A i \in 1 .. n : s[i] = (A * v[i] - B * u[i]) * (A * v[i] - B * u[i])
  BY <1>9
<1> HIDE DEF s
<1>11. s \in Seq(Int) /\ Len(s) = n
  BY <1>0, <1>10, IsArray
<1> DEFINE p == A * A
           q == -(2 * (A * B))
           r == B * B
<1>12. p \in Int /\ q \in Int /\ r \in Int
  BY <1>4, Distributes
<1>13. \A i \in 1 .. n : s[i] = p * vv[i] + q * uv[i] + r * uu[i] + 0 /\ s[i] >= 0
  <2> TAKE i \in 1 .. n
  <2>1. u[i] \in Int /\ v[i] \in Int
    BY <1>6
  <2>2. /\ (A * v[i] - B * u[i]) * (A * v[i] - B * u[i])
              = p * (v[i] * v[i]) + q * (u[i] * v[i]) + r * (u[i] * u[i]) + 0
        /\ (A * v[i] - B * u[i]) * (A * v[i] - B * u[i]) >= 0
    BY <1>4, <2>1, SquareTerm
  <2> HIDE DEF p, q, r
  <2> QED BY <1>7, <1>10, <2>2
<1>14. Total(s) = p * Total(vv) + q * Total(uv) + r * Total(uu) + 0 * Len(vv)
  <2> HIDE DEF p, q, r
  <2>1. 0 \in Int
    OBVIOUS
  <2>2. Len(uv) = Len(vv) /\ Len(uu) = Len(vv) /\ Len(s) = Len(vv)
    BY <1>7, <1>11
  <2>3. \A i \in 1 .. Len(vv) : s[i] = p * vv[i] + q * uv[i] + r * uu[i] + 0
    BY <1>7, <1>13
  <2>4. Combines(s, vv, uv, uu, p, q, r, 0)
    BY <2>2, <2>3 DEF Combines
  <2> QED BY <1>7, <1>11, <1>12, <2>1, <2>4, TotalIsLinear
<1>15. Total(s) >= 0
  BY <1>11, <1>13, TotalOfNaturals
<1>16. Total(s) = A * (A * C - B * B)
  <2>1. Total(s) = p * C + q * B + r * A + 0 * n
    BY <1>5, <1>7, <1>14 DEF uu, uv, vv
  <2> QED BY <1>0, <1>4, <2>1, SquareSum
<1>17. A # 0 => B * B <= A * C
  <2>1. \A k \in Int : A > 0 /\ A * k >= 0 => k >= 0
    BY <1>4, SMTT(30)
  <2>2. A * C \in Int /\ B * B \in Int
    BY <1>4, Distributes
  <2>3. A # 0 => A * C - B * B >= 0
    BY <1>4, <1>8, <1>15, <1>16, <2>1, <2>2
  <2> QED BY <2>2, <2>3
<1> QED BY <1>8, <1>17 DEF A, B, C

(* stats_linear_regression, statistics.c:379-404, agrees with covariance,  *)
(* variance and correlation, statistics.c:71, 205 and 221, on any two      *)
(* arrays of one length.                                                   *)
LEMMA RegressionHolds ==
    ASSUME NEW xs \in Seq(Int), NEW ys \in Seq(Int), Len(ys) = Len(xs)
    PROVE  RegressionAgrees(xs, ys)
<1> DEFINE n == Len(xs)
           X == Total(xs)
           Y == Total(ys)
           Q == Products(xs, xs)
           P == Products(xs, ys)
           A == Deviations(xs, xs)
           B == Deviations(xs, ys)
           C == Deviations(ys, ys)
           N == (n * n) * (n - 1)
           num == n * P - X * Y
           den == n * Q - X * X
           lr == LinearRegression(xs, ys)
<1>1. /\ n \in Nat /\ X \in Int /\ Y \in Int /\ Q \in Int /\ P \in Int
      /\ A \in Int /\ B \in Int /\ C \in Int
  BY TotalIsInt, PairwiseIsArray, DeviationsBySums
<1>2. A = n * den /\ B = n * num
  BY DeviationsBySums
<1>3. A # 0 => B * B <= A * C
  BY CauchySchwarz
<1>4. C = 0 /\ A # 0 => B = 0
  <2> HIDE DEF A, B, C
  <2>1. \A u, v \in Int : u * u <= v * 0 => u = 0
    BY SMTT(30)
  <2> QED BY <1>1, <1>3, <2>1
<1>5. /\ Variance(xs) = IF n <= 1 THEN Zero ELSE <<A, N>>
      /\ Variance(ys) = IF n <= 1 THEN Zero ELSE <<C, N>>
      /\ Covariance(xs, ys) = IF n <= 1 THEN Zero ELSE <<B, N>>
  BY DEF Variance, Covariance
<1>6. SUFFICES ASSUME Variance(xs)[1] # 0
      PROVE  /\ Same(Mul(lr.slope, Variance(xs)), Covariance(xs, ys))
             /\ Same(Mean(ys), Add2(Mul(lr.slope, Mean(xs)), lr.intercept))
             /\ Same(Mul(lr.r_squared, Variance(ys)), Mul(lr.slope, Covariance(xs, ys)))
             /\ ~ Less(Whole(1), lr.r_squared)
  BY DEF RegressionAgrees
<1>7. /\ ~ (n <= 1) /\ A # 0 /\ xs # <<>> /\ ys # <<>>
      /\ Variance(xs) = <<A, N>> /\ Variance(ys) = <<C, N>> /\ Covariance(xs, ys) = <<B, N>>
  <2> HIDE DEF A, B, C, N
  <2>1. ~ (n <= 1)
    BY <1>5, <1>6 DEF Zero
  <2> QED BY <1>5, <1>6, <2>1
<1>8. Mean(xs) = <<X, n>> /\ Mean(ys) = <<Y, n>>
  BY <1>7 DEF Mean
<1>9. num \in Int /\ den \in Int /\ N \in Int /\ n \in Int
  <2> HIDE DEF X, Y, Q, P
  <2> QED BY <1>1, Distributes
<1>10. den # 0
  <2>1. n * 0 = 0
    BY <1>1
  <2> HIDE DEF den, A
  <2> QED BY <1>2, <1>7, <2>1
<1>11. lr = [slope |-> <<num, den>>, intercept |-> <<Y * Q - X * P, den>>,
             r_squared |-> RSquared(xs, ys)]
  BY <1>7, <1>10 DEF LinearRegression
<1>12. RSquared(xs, ys) = IF C = 0 THEN Zero ELSE <<B * B, A * C>>
  <2> HIDE DEF N
  <2> QED BY <1>7 DEF RSquared
<1> DEFINE i == Y * Q - X * P
<1>13. i \in Int
  <2> HIDE DEF X, Y, Q, P
  <2> QED BY <1>1, Distributes
<1>14. Y * ((den * n) * den) = ((num * X) * den + i * (den * n)) * n
  <2> HIDE DEF X, Y, Q, P
  <2> QED BY <1>1, <1>9, InterceptIdentity
<1> HIDE DEF n, X, Y, Q, P, A, B, C, N, num, den, lr, i
<1>15. lr.slope = <<num, den>> /\ lr.intercept = <<i, den>> /\ lr.r_squared = RSquared(xs, ys)
  BY <1>11 DEF i
<1>16. Same(Mul(lr.slope, Variance(xs)), Covariance(xs, ys))
  <2>1. (num * (n * den)) * N = (n * num) * (den * N)
    BY <1>9, SlopeIdentity
  <2>2. (num * A) * N = B * (den * N)
    BY <1>2, <2>1
  <2>3. Mul(lr.slope, Variance(xs)) = <<num * A, den * N>> /\ Covariance(xs, ys) = <<B, N>>
    BY <1>7, <1>15 DEF Mul
  <2> QED BY <2>2, <2>3 DEF Same
<1>17. Same(Mean(ys), Add2(Mul(lr.slope, Mean(xs)), lr.intercept))
  <2>1. Add2(Mul(lr.slope, Mean(xs)), lr.intercept)
          = <<(num * X) * den + i * (den * n), (den * n) * den>>
    BY <1>8, <1>15 DEF Mul, Add2
  <2> QED BY <1>8, <1>14, <2>1 DEF Same
<1>18. Same(Mul(lr.r_squared, Variance(ys)), Mul(lr.slope, Covariance(xs, ys)))
  <2>1. Mul(lr.slope, Covariance(xs, ys)) = <<num * B, den * N>>
    BY <1>7, <1>15 DEF Mul
  <2>2. CASE C = 0
    <3>1. lr.r_squared = <<0, 1>>
      BY <1>12, <1>15, <2>2 DEF Zero
    <3>2. Mul(lr.r_squared, Variance(ys)) = <<0 * 0, 1 * N>>
      BY <1>7, <2>2, <3>1 DEF Mul
    <3>3. B = 0
      BY <1>4, <1>7, <2>2
    <3>4. (0 * 0) * (den * N) = (num * 0) * (1 * N)
      <4>1. \A u, v, w \in Int : (0 * 0) * (u * w) = (v * 0) * (1 * w)
        BY SMTT(30)
      <4> QED BY <1>9, <4>1
    <3> QED BY <2>1, <3>2, <3>3, <3>4 DEF Same
  <2>3. CASE C # 0
    <3>1. Mul(lr.r_squared, Variance(ys)) = <<(B * B) * C, (A * C) * N>>
      <4>1. lr.r_squared = <<B * B, A * C>>
        BY <1>12, <1>15, <2>3
      <4> QED BY <1>7, <4>1 DEF Mul
    <3>2. (((n * num) * (n * num)) * C) * (den * N)
             = (num * (n * num)) * (((n * den) * C) * N)
      BY <1>1, <1>9, CorrelationIdentity
    <3>3. ((B * B) * C) * (den * N) = (num * B) * ((A * C) * N)
      BY <1>2, <3>2
    <3> QED BY <2>1, <3>1, <3>3 DEF Same
  <2> QED BY <2>2, <2>3
<1>19. ~ Less(Whole(1), lr.r_squared)
  <2>1. CASE C = 0
    <3>1. lr.r_squared = <<0, 1>>
      BY <1>12, <1>15, <2>1 DEF Zero
    <3> QED BY <3>1 DEF Less, Whole
  <2>2. CASE C # 0
    <3>1. lr.r_squared = <<B * B, A * C>>
      BY <1>12, <1>15, <2>2
    <3>2. B * B \in Int /\ A * C \in Int
      BY <1>1, Distributes
    <3>3. ~ (1 * (A * C) < (B * B) * 1)
      BY <1>3, <1>7, <3>2
    <3> QED BY <3>1, <3>3 DEF Less, Whole
  <2> QED BY <2>1, <2>2
<1> QED BY <1>16, <1>17, <1>18, <1>19

-----------------------------------------------------------------------------
(* Sorting.                                                                *)

(* Among the subsets of an array's positions counting respects inclusion.  *)
LEMMA Counting ==
    ASSUME NEW n \in Nat, NEW T \in SUBSET (1 .. n)
    PROVE  /\ IsFiniteSet(T) /\ Cardinality(T) \in Nat /\ Cardinality(T) <= n
           /\ \A R \in SUBSET T : Cardinality(R) <= Cardinality(T)
           /\ \A R \in SUBSET T : R # T => Cardinality(R) < Cardinality(T)
<1>1. IsFiniteSet(1 .. n) /\ Cardinality(1 .. n) = n
  <2>1. 1 \in Int /\ n \in Int
    OBVIOUS
  <2> QED BY <2>1, FS_Interval
<1>2. IsFiniteSet(T) /\ Cardinality(T) <= n
  BY <1>1, FS_Subset
<1>3. Cardinality(T) \in Nat
  BY <1>2, FS_CardinalityType
<1>4. ASSUME NEW R \in SUBSET T
      PROVE  /\ Cardinality(R) <= Cardinality(T)
             /\ R # T => Cardinality(R) < Cardinality(T)
  <2>1. IsFiniteSet(R) /\ Cardinality(R) <= Cardinality(T)
        /\ (Cardinality(R) = Cardinality(T) <=> R = T)
    BY <1>2, FS_Subset
  <2>2. Cardinality(R) \in Nat
    BY <2>1, FS_CardinalityType
  <2> QED BY <1>3, <2>1, <2>2
<1> QED BY <1>2, <1>3, <1>4

(* The ranks of a value: how many elements are below it and up to it.      *)
LEMMA Ranks ==
    ASSUME NEW a \in Seq(Int), NEW v \in Int
    PROVE  /\ Below(a, v) \in Nat /\ UpTo(a, v) \in Nat
           /\ Below(a, v) <= UpTo(a, v) /\ UpTo(a, v) <= Len(a)
           /\ v \in ToSet(a) => Below(a, v) < UpTo(a, v)
           /\ Occurrences(a, v) = UpTo(a, v) - Below(a, v)
<1> DEFINE n == Len(a)
           B == {j \in 1 .. n : a[j] < v}
           U == {j \in 1 .. n : a[j] <= v}
           O == {j \in 1 .. n : a[j] = v}
<1>1. n \in Nat /\ DOMAIN a = 1 .. n /\ \A j \in 1 .. n : a[j] \in Int
  OBVIOUS
<1>2. /\ Below(a, v) = Cardinality(B) /\ UpTo(a, v) = Cardinality(U)
      /\ Occurrences(a, v) = Cardinality(O)
  BY <1>1 DEF Below, UpTo, Occurrences
<1>3. B \in SUBSET U /\ U \in SUBSET (1 .. n) /\ O \in SUBSET U /\ B \in SUBSET (1 .. n)
  BY <1>1
<1>4. U \ B = O
  BY <1>1
<1>5. v \in ToSet(a) => O # {}
  BY <1>1 DEF ToSet
<1> HIDE DEF n, B, U, O
<1>6. /\ Cardinality(B) \in Nat /\ Cardinality(U) \in Nat /\ IsFiniteSet(U) /\ IsFiniteSet(B)
      /\ Cardinality(B) <= Cardinality(U) /\ Cardinality(U) <= n
  BY <1>1, <1>3, Counting
<1>7. Cardinality(O) = Cardinality(U) - Cardinality(B)
  <2>1. Cardinality(U \ B) = Cardinality(U) - Cardinality(U \cap B)
    BY <1>6, FS_Difference
  <2>2. U \cap B = B
    BY <1>3
  <2> QED BY <1>4, <2>1, <2>2
<1>8. v \in ToSet(a) => Cardinality(B) < Cardinality(U)
  <2>1. v \in ToSet(a) => B # U
    BY <1>4, <1>5
  <2> QED BY <1>1, <1>3, <2>1, Counting
<1> QED BY <1>2, <1>6, <1>7, <1>8 DEF n

(* All the elements up to a value are below any greater value.             *)
LEMMA RanksAscend ==
    ASSUME NEW a \in Seq(Int), NEW u \in Int, NEW v \in Int, u < v
    PROVE  UpTo(a, u) <= Below(a, v)
<1> DEFINE n == Len(a)
           B == {j \in 1 .. n : a[j] < v}
           U == {j \in 1 .. n : a[j] <= u}
<1>1. n \in Nat /\ DOMAIN a = 1 .. n /\ \A j \in 1 .. n : a[j] \in Int
  OBVIOUS
<1>2. Below(a, v) = Cardinality(B) /\ UpTo(a, u) = Cardinality(U)
  BY <1>1 DEF Below, UpTo
<1>3. U \in SUBSET B /\ B \in SUBSET (1 .. n)
  BY <1>1
<1> HIDE DEF n, B, U
<1> QED BY <1>1, <1>2, <1>3, Counting

(* Some of the elements of an array have a biggest among them.             *)
LEMMA Biggest ==
    ASSUME NEW a \in Seq(Int), NEW T \in SUBSET ToSet(a), T # {}
    PROVE  \E m \in T : \A w \in T : w <= m
<1> DEFINE R == {Len(a) - UpTo(a, w) : w \in T}
<1>0. \A w \in T : w \in Int /\ w \in ToSet(a)
  BY DEF ToSet
<1>1. R \in SUBSET Nat /\ R # {}
  <2>1. \A w \in T : UpTo(a, w) \in Nat /\ UpTo(a, w) <= Len(a)
    BY <1>0, Ranks
  <2> QED BY <2>1
<1>2. PICK k \in R : \A r \in R : k <= r
  <2> HIDE DEF R
  <2> QED BY <1>1, LeastNatural
<1>3. PICK m \in T : k = Len(a) - UpTo(a, m)
  BY <1>2
<1>4. ASSUME NEW w \in T, w > m PROVE FALSE
  <2>1. UpTo(a, m) <= Below(a, w) /\ Below(a, w) < UpTo(a, w)
    BY <1>0, <1>4, Ranks, RanksAscend
  <2>2. Len(a) - UpTo(a, m) <= Len(a) - UpTo(a, w)
    BY <1>2, <1>3
  <2>3. UpTo(a, m) \in Nat /\ UpTo(a, w) \in Nat /\ Below(a, w) \in Nat /\ Len(a) \in Nat
    BY <1>0, Ranks
  <2> QED BY <2>1, <2>2, <2>3
<1>5. \A w \in T : w <= m
  BY <1>0, <1>4
<1> QED BY <1>5

(* Every position has a value of its rank.                                 *)
LEMMA RankExists ==
    ASSUME NEW a \in Seq(Int), NEW k \in 1 .. Len(a)
    PROVE  \E v \in ToSet(a) : Below(a, v) < k /\ k <= UpTo(a, v)
<1> DEFINE R == {UpTo(a, v) : v \in {w \in ToSet(a) : k <= UpTo(a, w)}}
<1>0. \A w \in ToSet(a) :
        w \in Int /\ UpTo(a, w) \in Nat /\ Below(a, w) \in Nat /\ Below(a, w) < UpTo(a, w)
  <2>1. \A w \in ToSet(a) : w \in Int
    BY DEF ToSet
  <2> QED BY <2>1, Ranks
<1>1. R # {}
  <2>1. a[k] \in ToSet(a)
    BY DEF ToSet
  <2>2. PICK m \in ToSet(a) : \A w \in ToSet(a) : w <= m
    <3>1. ToSet(a) \in SUBSET ToSet(a) /\ ToSet(a) # {}
      BY <2>1
    <3> QED BY <3>1, Biggest
  <2>3. {j \in DOMAIN a : a[j] <= m} = 1 .. Len(a)
    BY <2>2 DEF ToSet
  <2>4. UpTo(a, m) = Len(a)
    <3> DEFINE n == Len(a)
    <3>1. 1 \in Int /\ n \in Int /\ ~ (1 > n) /\ n - 1 + 1 = n
      OBVIOUS
    <3>2. UpTo(a, m) = Cardinality(1 .. n)
      BY <2>3 DEF UpTo
    <3> HIDE DEF n
    <3>3. Cardinality(1 .. n) = n
      BY <3>1, FS_Interval
    <3> QED BY <3>2, <3>3 DEF n
  <2> QED BY <2>2, <2>4
<1>2. PICK r \in R : \A q \in R : r <= q
  <2>1. R \in SUBSET Nat
    BY <1>0
  <2> HIDE DEF R
  <2> QED BY <1>1, <2>1, LeastNatural
<1>3. PICK v \in ToSet(a) : k <= UpTo(a, v) /\ r = UpTo(a, v)
  BY <1>2
<1>4. SUFFICES ASSUME k <= Below(a, v) PROVE FALSE
  BY <1>0, <1>3
<1> DEFINE T == {w \in ToSet(a) : w < v}
<1>5. T # {}
  <2>1. SUFFICES ASSUME T = {} PROVE FALSE
    OBVIOUS
  <2>2. {j \in DOMAIN a : a[j] < v} = {}
    BY <2>1 DEF ToSet
  <2>3. Below(a, v) = 0
    BY <2>2, FS_EmptySet DEF Below
  <2> QED BY <1>4, <2>3
<1>6. PICK m \in T : \A w \in T : w <= m
  <2>1. T \in SUBSET ToSet(a)
    OBVIOUS
  <2> HIDE DEF T
  <2> QED BY <1>5, <2>1, Biggest
<1>7. {j \in DOMAIN a : a[j] <= m} = {j \in DOMAIN a : a[j] < v}
  <2>1. m \in Int /\ v \in Int /\ m < v
    BY <1>0, <1>6
  <2>2. ASSUME NEW j \in DOMAIN a PROVE a[j] <= m <=> a[j] < v
    <3>1. a[j] \in ToSet(a) /\ a[j] \in Int
      BY DEF ToSet
    <3>2. a[j] < v => a[j] <= m
      BY <1>6, <3>1
    <3> QED BY <2>1, <3>1, <3>2
  <2> QED BY <2>2
<1>8. UpTo(a, m) = Below(a, v)
  BY <1>7 DEF UpTo, Below
<1>9. UpTo(a, m) \in R
  BY <1>4, <1>6, <1>8
<1>10. r <= UpTo(a, m) /\ r = UpTo(a, v) /\ Below(a, v) < UpTo(a, v)
  <2> HIDE DEF R
  <2> QED BY <1>0, <1>2, <1>3, <1>9
<1>11. UpTo(a, v) \in Nat /\ Below(a, v) \in Nat
  BY <1>0
<1> QED BY <1>8, <1>10, <1>11

(* Sorting puts the elements in ascending order: at each position stands   *)
(* the value of that rank, and no other value has it.                      *)
LEMMA SortedRanks ==
    ASSUME NEW a \in Seq(Int)
    PROVE  /\ Sorted(a) \in Seq(ToSet(a)) /\ Sorted(a) \in Seq(Int)
           /\ Len(Sorted(a)) = Len(a) /\ DOMAIN Sorted(a) = 1 .. Len(a)
           /\ \A k \in 1 .. Len(a) :
                /\ Sorted(a)[k] \in ToSet(a) /\ Sorted(a)[k] \in Int
                /\ Below(a, Sorted(a)[k]) < k /\ k <= UpTo(a, Sorted(a)[k])
<1> DEFINE s == Sorted(a)
<1>1. DOMAIN a = 1 .. Len(a) /\ Len(a) \in Nat
  OBVIOUS
<1>2. s = [k \in 1 .. Len(a) |->
            CHOOSE v \in ToSet(a) : Below(a, v) < k /\ k <= UpTo(a, v)]
  BY <1>1 DEF Sorted
<1>3. ASSUME NEW k \in 1 .. Len(a)
      PROVE  s[k] \in ToSet(a) /\ Below(a, s[k]) < k /\ k <= UpTo(a, s[k])
  <2>1. s[k] = CHOOSE v \in ToSet(a) : Below(a, v) < k /\ k <= UpTo(a, v)
    BY <1>2
  <2>2. \E v \in ToSet(a) : Below(a, v) < k /\ k <= UpTo(a, v)
    BY RankExists
  <2> HIDE DEF s
  <2> QED BY <2>1, <2>2
<1>4. ToSet(a) \subseteq Int
  BY DEF ToSet
<1>5. s \in [1 .. Len(a) -> ToSet(a)]
  <2>1. s = [k \in 1 .. Len(a) |-> s[k]]
    BY <1>2
  <2> HIDE DEF s
  <2> QED BY <1>3, <2>1
<1> HIDE DEF s
<1>6. s \in Seq(ToSet(a)) /\ s \in Seq(Int) /\ Len(s) = Len(a) /\ DOMAIN s = 1 .. Len(a)
  <2>1. s \in Seq(ToSet(a)) /\ DOMAIN s = 1 .. Len(a)
    BY <1>1, <1>5
  <2>2. s \in [1 .. Len(a) -> Int]
    BY <1>4, <1>5
  <2>3. s \in Seq(Int) /\ Len(s) = Len(a)
    BY <1>1, <2>2, IsArray
  <2> QED BY <2>1, <2>3
<1> QED BY <1>3, <1>4, <1>6 DEF s

(* The sorted array ascends.                                               *)
LEMMA SortedAscends ==
    ASSUME NEW a \in Seq(Int), NEW i \in 1 .. Len(a), NEW j \in 1 .. Len(a), i <= j
    PROVE  Sorted(a)[i] <= Sorted(a)[j]
<1> DEFINE u == Sorted(a)[i]
           v == Sorted(a)[j]
<1>1. /\ u \in Int /\ v \in Int
      /\ Below(a, u) < i /\ j <= UpTo(a, v)
  BY SortedRanks
<1> HIDE DEF u, v
<1>2. Below(a, u) \in Nat /\ UpTo(a, v) \in Nat
  BY <1>1, Ranks
<1>3. v < u => UpTo(a, v) <= Below(a, u)
  BY <1>1, RanksAscend
<1>4. ~ (v < u)
  BY <1>1, <1>2, <1>3
<1> QED BY <1>1, <1>4 DEF u, v

(* A value stands at each position its ranks leave for it.                 *)
LEMMA SortedAtRank ==
    ASSUME NEW a \in Seq(Int), NEW v \in Int, NEW k \in 1 .. Len(a),
           Below(a, v) < k, k <= UpTo(a, v)
    PROVE  Sorted(a)[k] = v
<1> DEFINE u == Sorted(a)[k]
<1>1. u \in Int /\ Below(a, u) < k /\ k <= UpTo(a, u)
  BY SortedRanks
<1> HIDE DEF u
<1>2. /\ Below(a, u) \in Nat /\ UpTo(a, u) \in Nat
      /\ Below(a, v) \in Nat /\ UpTo(a, v) \in Nat
  BY <1>1, Ranks
<1>3. /\ u < v => UpTo(a, u) <= Below(a, v)
      /\ v < u => UpTo(a, v) <= Below(a, u)
  BY <1>1, RanksAscend
<1> QED BY <1>1, <1>2, <1>3 DEF u

(* Sorting loses no element.                                               *)
LEMMA SortedKeeps ==
    ASSUME NEW a \in Seq(Int), NEW v \in Int
    PROVE  Occurrences(Sorted(a), v) = Occurrences(a, v)
<1> DEFINE s == Sorted(a)
           lo == Below(a, v) + 1
           hi == UpTo(a, v)
<1>1. /\ lo - 1 = Below(a, v) /\ lo \in Int /\ hi \in Int
      /\ lo >= 1 /\ hi <= Len(a) /\ lo <= hi + 1
      /\ Occurrences(a, v) = hi - lo + 1
  <2>1. /\ Below(a, v) \in Nat /\ UpTo(a, v) \in Nat
        /\ Below(a, v) <= UpTo(a, v) /\ UpTo(a, v) <= Len(a)
        /\ Occurrences(a, v) = UpTo(a, v) - Below(a, v)
    BY Ranks
  <2>2. lo - 1 = Below(a, v) /\ lo \in Int /\ hi \in Int /\ lo >= 1 /\ lo <= hi + 1
    BY <2>1
  <2>3. hi <= Len(a)
    BY <2>1
  <2>4. Occurrences(a, v) = hi - lo + 1
    <3>1. Below(a, v) = lo - 1
      BY <2>2
    <3> HIDE DEF lo
    <3> QED BY <2>1, <2>2, <3>1
  <2> QED BY <2>2, <2>3, <2>4
<1>2. DOMAIN s = 1 .. Len(a) /\ Len(a) \in Nat
  BY SortedRanks
<1>3. {k \in DOMAIN s : s[k] = v} = lo .. hi
  <2>1. \A k \in 1 .. Len(a) : s[k] = v => Below(a, v) < k /\ k <= UpTo(a, v)
    BY SortedRanks
  <2>2. \A k \in 1 .. Len(a) : Below(a, v) < k /\ k <= UpTo(a, v) => s[k] = v
    BY SortedAtRank
  <2> HIDE DEF s
  <2>3. \A k \in 1 .. Len(a) : s[k] = v <=> k \in lo .. hi
    <3> TAKE k \in 1 .. Len(a)
    <3>1. Below(a, v) < k <=> lo <= k
      BY <1>1
    <3> QED BY <1>1, <2>1, <2>2, <3>1
  <2> HIDE DEF lo, hi
  <2>4. \A k \in lo .. hi : k \in 1 .. Len(a)
    BY <1>1, <1>2
  <2> QED BY <1>2, <2>3, <2>4
<1> HIDE DEF lo, hi
<1>4. Cardinality(lo .. hi) = hi - lo + 1
  <2>1. Cardinality(lo .. hi) = IF lo > hi THEN 0 ELSE hi - lo + 1
    BY <1>1, FS_Interval
  <2> QED BY <1>1, <2>1
<1> QED BY <1>1, <1>3, <1>4 DEF Occurrences

-----------------------------------------------------------------------------
(* Percentiles and modes.                                                  *)

(* The least element stands first and the greatest last.                   *)
LEMMA ExtremesOfSorted ==
    ASSUME NEW a \in Seq(Int), a # <<>>
    PROVE  /\ Min(ToSet(a)) = Sorted(a)[1] /\ Max(ToSet(a)) = Sorted(a)[Len(a)]
           /\ Len(a) \in Nat \ {0}
<1> DEFINE n == Len(a)
           s == Sorted(a)
<1>1. n \in Nat \ {0} /\ n = Len(a) /\ 1 \in 1 .. n /\ n \in 1 .. n
  BY EmptySeq
<1>2. \A k \in 1 .. n : s[k] \in ToSet(a) /\ s[k] \in Int
  BY SortedRanks
<1>3. \A k \in 1 .. n : s[1] <= s[k] /\ s[k] <= s[n]
  <2> TAKE k \in 1 .. n
  <2>1. 1 <= k /\ k <= n
    BY <1>1
  <2> QED BY <1>1, <2>1, SortedAscends
<1>4. ASSUME NEW v \in ToSet(a) PROVE v \in Int /\ \E k \in 1 .. n : s[k] = v
  <2>1. v \in Int
    BY DEF ToSet
  <2> DEFINE u == UpTo(a, v)
  <2>2. Below(a, v) \in Nat /\ u \in Nat /\ Below(a, v) < u /\ u <= n
    BY <2>1, Ranks
  <2> HIDE DEF u
  <2>3. u \in 1 .. n
    BY <1>1, <2>2
  <2>4. s[u] = v
    <3>1. Below(a, v) < u /\ u <= UpTo(a, v)
      BY <2>2 DEF u
    <3> QED BY <2>1, <2>3, <3>1, SortedAtRank
  <2> QED BY <2>1, <2>3, <2>4
<1> HIDE DEF n, s
<1>5. /\ s[1] \in ToSet(a) /\ \A v \in ToSet(a) : v \in Int /\ s[1] <= v /\ v <= s[n]
      /\ s[n] \in ToSet(a)
  BY <1>1, <1>2, <1>3, <1>4
<1>6. \A v \in ToSet(a) : (\A w \in ToSet(a) : v <= w) => v = s[1]
  BY <1>5
<1>7. \A v \in ToSet(a) : (\A w \in ToSet(a) : v >= w) => v = s[n]
  BY <1>5
<1>8. Min(ToSet(a)) = s[1]
  <2>1. \A w \in ToSet(a) : s[1] <= w
    BY <1>5
  <2> QED BY <1>5, <1>6, <2>1 DEF Min
<1>9. Max(ToSet(a)) = s[n]
  <2>1. \A w \in ToSet(a) : s[n] >= w
    BY <1>5
  <2> QED BY <1>5, <1>7, <2>1 DEF Max
<1> QED BY <1>1, <1>8, <1>9 DEF n, s

(* Quotient and remainder by 100 and by 2.                                 *)
LEMMA HundredSplit ==
    ASSUME NEW m \in Nat, NEW q \in Int, NEW r \in Int, q = m \div 100, r = m % 100
    PROVE  m = 100 * q + r
  BY SMTT(30)

(* A number of hundredths is a quotient and a remainder.                   *)
LEMMA PartOfHundred ==
    ASSUME NEW m \in Nat
    PROVE  \E q \in Int, r \in 0 .. 99 :
              m \div 100 = q /\ m % 100 = r /\ m = 100 * q + r
<1>1. PICK q \in Int : q = m \div 100
  OBVIOUS
<1>2. PICK r \in 0 .. 99 : r = m % 100
  OBVIOUS
<1>3. m = 100 * q + r
  <2>1. r \in Int
    OBVIOUS
  <2> QED BY <1>1, <1>2, <2>1, HundredSplit
<1> QED BY <1>1, <1>2, <1>3

(* Where a percentile lies.                                                *)
LEMMA PercentilePosition ==
    ASSUME NEW n \in Nat \ {0}, NEW p \in 0 .. 100
    PROVE  \E l \in 0 .. n - 1, f \in 0 .. 99 :
              /\ l = (p * (n - 1)) \div 100 /\ f = (p * (n - 1)) % 100
              /\ p * (n - 1) = 100 * l + f
              /\ l = n - 1 => f = 0
<1> DEFINE m == p * (n - 1)
<1>1. m \in Nat /\ m <= 100 * (n - 1)
  <2>1. \A u \in 0 .. 100, v \in Nat : u * v \in Nat /\ u * v <= 100 * v
    BY SMTT(30)
  <2>2. n - 1 \in Nat
    OBVIOUS
  <2> QED BY <2>1, <2>2
<1> HIDE DEF m
<1>2. PICK q \in Int, r \in 0 .. 99 :
          m \div 100 = q /\ m % 100 = r /\ m = 100 * q + r
  BY <1>1, PartOfHundred
<1>3. q \in 0 .. n - 1 /\ (q = n - 1 => r = 0)
  BY <1>1, <1>2
<1> QED BY <1>2, <1>3 DEF m

(* p is the fraction of h hundredths.                                      *)
Hundredths(p, h) ==
    /\ p[1] \in Int /\ p[2] \in Nat \ {0} /\ h \in Int
    /\ 100 * p[1] = h * p[2]

(* Fractions brought to one denominator.                                   *)
LEMMA CrossMultiplied ==
    ASSUME NEW p1 \in Int, NEW p2 \in Nat \ {0}, NEW q1 \in Int, NEW q2 \in Nat \ {0},
           NEW h \in Int, NEW k \in Int, 100 * p1 = h * p2, 100 * q1 = k * q2
    PROVE  /\ 100 * (p1 * q2) = h * (p2 * q2) /\ 100 * (q1 * p2) = k * (p2 * q2)
           /\ p1 * q2 \in Int /\ q1 * p2 \in Int /\ p2 * q2 \in Nat \ {0}
<1>1. 100 * (p1 * q2) = (100 * p1) * q2 /\ (h * p2) * q2 = h * (p2 * q2)
  BY SMTT(30)
<1>2. 100 * (q1 * p2) = (100 * q1) * p2 /\ (k * q2) * p2 = k * (p2 * q2)
  BY SMTT(30)
<1>3. p1 * q2 \in Int /\ q1 * p2 \in Int
  BY Distributes
<1>4. p2 * q2 \in Nat \ {0}
  BY SMTT(30)
<1> QED BY <1>1, <1>2, <1>3, <1>4

(* Fractions compare and subtract as their hundredths do.                  *)
LEMMA HundredthsCompared ==
    ASSUME NEW p, NEW q, NEW h, NEW k, Hundredths(p, h), Hundredths(q, k)
    PROVE  /\ h = k => Same(p, q)
           /\ h <= k => ~ Less(q, p)
           /\ Hundredths(Sub(q, p), k - h)
<1> DEFINE p1 == p[1]
           p2 == p[2]
           q1 == q[1]
           q2 == q[2]
<1>1. /\ p1 \in Int /\ p2 \in Nat \ {0} /\ q1 \in Int /\ q2 \in Nat \ {0}
      /\ h \in Int /\ k \in Int /\ 100 * p1 = h * p2 /\ 100 * q1 = k * q2
  BY DEF Hundredths
<1>2. /\ Same(p, q) <=> p1 * q2 = q1 * p2
      /\ Less(q, p) <=> q1 * p2 < p1 * q2
      /\ Sub(q, p)[1] = q1 * p2 - p1 * q2 /\ Sub(q, p)[2] = q2 * p2
  BY DEF Same, Less, Sub
<1> HIDE DEF p1, p2, q1, q2
<1> DEFINE d == p2 * q2
           u == p1 * q2
           v == q1 * p2
<1>3. 100 * u = h * d /\ 100 * v = k * d /\ u \in Int /\ v \in Int /\ d \in Nat \ {0}
  BY <1>1, CrossMultiplied
<1>4. q2 * p2 = d
  BY <1>1, SMTT(30)
<1> HIDE DEF d, u, v
<1>5. h <= k => h * d <= k * d
  BY <1>1, <1>3, SMTT(30)
<1>6. (k - h) * d = k * d - h * d /\ k * d \in Int /\ h * d \in Int
  BY <1>1, <1>3, SMTT(30)
<1>7. h = k => u = v
  BY <1>1, <1>3, <1>6
<1>8. h <= k => ~ (v < u)
  BY <1>3, <1>5, <1>6
<1>9. 100 * (v - u) = (k - h) * d
  BY <1>3, <1>6
<1>10. Sub(q, p)[1] \in Int /\ Sub(q, p)[2] \in Nat \ {0} /\ k - h \in Int
  BY <1>1, <1>2, <1>3, <1>4 DEF u, v
<1>11. 100 * Sub(q, p)[1] = (k - h) * Sub(q, p)[2]
  BY <1>2, <1>4, <1>9 DEF u, v
<1> QED BY <1>2, <1>7, <1>8, <1>10, <1>11 DEF Hundredths, u, v

(* A percentile in hundredths: between two neighbours of the sorted array. *)
Level(a, l, f) ==
    IF l = Len(a) - 1 THEN 100 * Sorted(a)[Len(a)]
    ELSE Sorted(a)[l + 1] * (100 - f) + Sorted(a)[l + 2] * f

(* It lies between its neighbours and ascends from one to the next.        *)
LEMMA LevelBounds ==
    ASSUME NEW a \in Seq(Int), a # <<>>,
           NEW l \in 0 .. Len(a) - 1, NEW f \in 0 .. 99, NEW g \in 0 .. 99, f <= g
    PROVE  /\ Level(a, l, f) \in Int
           /\ 100 * Sorted(a)[l + 1] <= Level(a, l, f)
           /\ l < Len(a) - 1 => Level(a, l, f) <= 100 * Sorted(a)[l + 2]
           /\ Level(a, l, f) <= Level(a, l, g)
<1> DEFINE n == Len(a)
           s == Sorted(a)
<1>1. n \in Nat \ {0}
  BY EmptySeq
<1>2. \A k \in 1 .. n : s[k] \in Int
  BY SortedRanks
<1>3. CASE l = n - 1
  <2>1. l + 1 = n /\ n \in 1 .. n
    BY <1>1, <1>3
  <2>2. Level(a, l, f) = 100 * s[n] /\ Level(a, l, g) = 100 * s[n]
    BY <1>3 DEF Level
  <2> HIDE DEF n, s
  <2>3. 100 * s[n] \in Int
    BY <1>2, <2>1
  <2> QED BY <1>3, <2>1, <2>2, <2>3 DEF n, s
<1>4. CASE l # n - 1
  <2> DEFINE u == s[l + 1]
             v == s[l + 2]
  <2>1. l + 1 \in 1 .. n /\ l + 2 \in 1 .. n
    BY <1>1, <1>4
  <2>2. u \in Int /\ v \in Int
    BY <1>2, <2>1
  <2>3. u <= v
    <3>1. l + 1 <= l + 2
      OBVIOUS
    <3> QED BY <2>1, <3>1, SortedAscends
  <2>4. Level(a, l, f) = u * (100 - f) + v * f /\ Level(a, l, g) = u * (100 - g) + v * g
    BY <1>4 DEF Level
  <2> HIDE DEF u, v, n, s
  <2>5. u * (100 - f) + v * f \in Int
    BY <2>2, SMTT(30)
  <2>6. 100 * u <= u * (100 - f) + v * f
    BY <2>2, <2>3, SMTT(30)
  <2>7. u * (100 - f) + v * f <= 100 * v
    BY <2>2, <2>3, SMTT(30)
  <2>8. u * (100 - f) + v * f <= u * (100 - g) + v * g
    <3>1. \A i \in Int : u * (100 - i) + v * i = 100 * u + (v - u) * i
      BY <2>2, SMTT(30)
    <3>2. \A d, i, j \in Nat : i <= j => d * i <= d * j
      BY SMTT(30)
    <3>3. v - u \in Nat /\ f \in Nat /\ g \in Nat
      BY <2>2, <2>3
    <3>4. (v - u) * f <= (v - u) * g
      BY <3>2, <3>3
    <3>5. (v - u) * f \in Int /\ (v - u) * g \in Int
      BY <3>3, Distributes
    <3> QED BY <2>2, <3>1, <3>3, <3>4, <3>5
  <2> QED BY <2>4, <2>5, <2>6, <2>7, <2>8 DEF u, v, n, s
<1> QED BY <1>3, <1>4

(* The percentile of p stands at the level of its position.                *)
LEMMA PercentileLevel ==
    ASSUME NEW a \in Seq(Int), a # <<>>, NEW p \in 0 .. 100
    PROVE  \E l \in 0 .. Len(a) - 1, f \in 0 .. 99 :
              /\ p * (Len(a) - 1) = 100 * l + f /\ (l = Len(a) - 1 => f = 0)
              /\ Hundredths(Percentile(a, p), Level(a, l, f))
<1> DEFINE n == Len(a)
           s == Sorted(a)
<1>1. n \in Nat \ {0}
  BY EmptySeq
<1>2. \A k \in 1 .. n : s[k] \in Int
  BY SortedRanks
<1>3. PICK l \in 0 .. n - 1, f \in 0 .. 99 :
          /\ l = (p * (n - 1)) \div 100 /\ f = (p * (n - 1)) % 100
          /\ p * (n - 1) = 100 * l + f
          /\ l = n - 1 => f = 0
  <2> HIDE DEF n
  <2> QED BY <1>1, PercentilePosition
<1>4. Percentile(a, p) = IF l + 1 >= n THEN Whole(s[l + 1])
                         ELSE <<s[l + 1] * (100 - f) + s[l + 2] * f, 100>>
  <2>1. ~ (n = 0 \/ p < 0 \/ p > 100)
    BY <1>1
  <2> QED BY <1>3, <2>1 DEF Percentile
<1>5. Level(a, l, f) = IF l = n - 1 THEN 100 * s[n]
                       ELSE s[l + 1] * (100 - f) + s[l + 2] * f
  BY DEF Level
<1>6. Level(a, l, f) \in Int
  <2>1. f <= f
    OBVIOUS
  <2> QED BY <2>1, LevelBounds
<1> HIDE DEF n, s
<1>7. CASE l = n - 1
  <2>1. l + 1 = n /\ l + 1 >= n /\ n \in 1 .. n
    BY <1>1, <1>7
  <2>2. Percentile(a, p) = <<s[n], 1>> /\ Level(a, l, f) = 100 * s[n]
    BY <1>4, <1>5, <1>7, <2>1 DEF Whole
  <2>3. Hundredths(Percentile(a, p), Level(a, l, f))
    <3>1. s[n] \in Int /\ 100 * s[n] = (100 * s[n]) * 1
      BY <1>2, <2>1
    <3> QED BY <1>6, <2>2, <3>1 DEF Hundredths
  <2> QED BY <1>3, <2>3 DEF n
<1>8. CASE l # n - 1
  <2>1. ~ (l + 1 >= n)
    BY <1>1, <1>3, <1>8
  <2>2. Percentile(a, p) = <<Level(a, l, f), 100>>
    BY <1>4, <1>5, <1>8, <2>1
  <2>3. Hundredths(Percentile(a, p), Level(a, l, f))
    BY <1>6, <2>2 DEF Hundredths
  <2> QED BY <1>3, <2>3 DEF n
<1> QED BY <1>7, <1>8

(* A higher percentile is not lower.                                       *)
LEMMA PercentilesAscend ==
    ASSUME NEW a \in Seq(Int), a # <<>>, NEW p \in 0 .. 100, NEW q \in 0 .. 100, p <= q
    PROVE  \E h, k \in Int : /\ h <= k /\ Hundredths(Percentile(a, p), h)
                             /\ Hundredths(Percentile(a, q), k)
<1> DEFINE n == Len(a)
           s == Sorted(a)
<1>1. n \in Nat \ {0} /\ n - 1 \in Nat
  BY EmptySeq
<1>2. PICK l \in 0 .. n - 1, f \in 0 .. 99 :
          /\ p * (n - 1) = 100 * l + f /\ (l = n - 1 => f = 0)
          /\ Hundredths(Percentile(a, p), Level(a, l, f))
  BY PercentileLevel
<1>3. PICK m \in 0 .. n - 1, g \in 0 .. 99 :
          /\ q * (n - 1) = 100 * m + g /\ (m = n - 1 => g = 0)
          /\ Hundredths(Percentile(a, q), Level(a, m, g))
  BY PercentileLevel
<1>4. p * (n - 1) <= q * (n - 1)
  <2>1. \A w \in Nat : p * w <= q * w
    BY SMTT(30)
  <2> HIDE DEF n
  <2> QED BY <1>1, <2>1
<1>5. l < m \/ (l = m /\ f <= g)
  <2> HIDE DEF n
  <2> QED BY <1>1, <1>2, <1>3, <1>4
<1>6. Level(a, l, f) <= Level(a, m, g) /\ Level(a, l, f) \in Int /\ Level(a, m, g) \in Int
  <2>1. CASE l = m /\ f <= g
    <3>1. f <= g /\ g <= g
      BY <2>1
    <3> QED BY <2>1, <3>1, LevelBounds
  <2>2. CASE l < m
    <3>1. f <= f /\ g <= g /\ l < n - 1
      BY <2>2
    <3>2. Level(a, l, f) <= 100 * s[l + 2] /\ Level(a, l, f) \in Int
      BY <3>1, LevelBounds
    <3>3. 100 * s[m + 1] <= Level(a, m, g) /\ Level(a, m, g) \in Int
      BY <3>1, LevelBounds
    <3>4. l + 2 \in 1 .. n /\ m + 1 \in 1 .. n /\ l + 2 <= m + 1
      BY <2>2
    <3>5. s[l + 2] <= s[m + 1]
      BY <3>4, SortedAscends
    <3>6. s[l + 2] \in Int /\ s[m + 1] \in Int
      BY <3>4, SortedRanks
    <3> DEFINE u == s[l + 2]
               v == s[m + 1]
               h == Level(a, l, f)
               k == Level(a, m, g)
    <3>7. /\ h <= 100 * u /\ 100 * v <= k /\ u <= v
          /\ u \in Int /\ v \in Int /\ h \in Int /\ k \in Int
      BY <3>2, <3>3, <3>5, <3>6
    <3> HIDE DEF u, v, h, k
    <3>8. h <= k
      BY <3>7
    <3> QED BY <3>7, <3>8 DEF h, k
  <2> QED BY <1>5, <2>1, <2>2
<1> QED BY <1>2, <1>3, <1>6

(* A fraction has one number of hundredths.                                *)
LEMMA HundredthsAreUnique ==
    ASSUME NEW p, NEW h, NEW k, Hundredths(p, h), Hundredths(p, k)
    PROVE  h = k
<1>1. \A d \in Nat \ {0}, i, j \in Int : i * d = j * d => i = j
  BY SMTT(30)
<1> QED BY <1>1 DEF Hundredths

LEMMA HalfSplit ==
    ASSUME NEW m \in Nat, NEW q \in Int, NEW r \in Int, q = m \div 2, r = m % 2
    PROVE  m = 2 * q + r
  BY SMTT(30)

(* A number is a half and a remainder.                                     *)
LEMMA PartOfTwo ==
    ASSUME NEW m \in Nat
    PROVE  \E q \in Int, r \in 0 .. 1 : m \div 2 = q /\ m % 2 = r /\ m = 2 * q + r
<1>1. PICK q \in Int : q = m \div 2
  OBVIOUS
<1>2. PICK r \in 0 .. 1 : r = m % 2
  OBVIOUS
<1>3. m = 2 * q + r
  <2>1. r \in Int
    OBVIOUS
  <2> QED BY <1>1, <1>2, <2>1, HalfSplit
<1> QED BY <1>1, <1>2, <1>3

(* The median is the fiftieth percentile.                                  *)
LEMMA MedianLevel ==
    ASSUME NEW a \in Seq(Int), a # <<>>
    PROVE  \E h \in Int : Hundredths(Median(a), h) /\ Hundredths(Percentile(a, 50), h)
<1> DEFINE n == Len(a)
           s == Sorted(a)
<1>1. n \in Nat \ {0}
  BY EmptySeq
<1>2. \A k \in 1 .. n : s[k] \in Int
  BY SortedRanks
<1>3. PICK l \in 0 .. n - 1, f \in 0 .. 99 :
          /\ 50 * (n - 1) = 100 * l + f /\ (l = n - 1 => f = 0)
          /\ Hundredths(Percentile(a, 50), Level(a, l, f))
  <2>1. 50 \in 0 .. 100
    OBVIOUS
  <2> QED BY <2>1, PercentileLevel
<1>4. PICK m \in Int, r \in 0 .. 1 : n \div 2 = m /\ n % 2 = r /\ n = 2 * m + r
  <2> HIDE DEF n
  <2> QED BY <1>1, PartOfTwo
<1>5. Level(a, l, f) = IF l = n - 1 THEN 100 * s[n]
                       ELSE s[l + 1] * (100 - f) + s[l + 2] * f
  BY DEF Level
<1>6. Median(a) = IF r = 0 THEN <<s[m] + s[m + 1], 2>> ELSE <<s[m + 1], 1>>
  BY <1>1, <1>4 DEF Median, Whole
<1>7. Level(a, l, f) \in Int
  BY <1>3 DEF Hundredths
<1> HIDE DEF n, s
<1>8. CASE r = 0
  <2>1. l = m - 1 /\ f = 50 /\ l # n - 1 /\ m \in 1 .. n /\ m + 1 \in 1 .. n
    BY <1>1, <1>3, <1>4, <1>8
  <2>2. Level(a, l, f) = s[m] * 50 + s[m + 1] * 50
    <3>1. l + 1 = m /\ l + 2 = m + 1 /\ 100 - f = 50
      BY <1>4, <2>1
    <3> QED BY <1>5, <2>1, <3>1
  <2>3. Median(a) = <<s[m] + s[m + 1], 2>>
    BY <1>6, <1>8
  <2>4. s[m] \in Int /\ s[m + 1] \in Int
    BY <1>2, <2>1
  <2>5. Hundredths(Median(a), Level(a, l, f))
    <3> DEFINE u == s[m]
               v == s[m + 1]
    <3>1. u \in Int /\ v \in Int
      BY <2>4
    <3> HIDE DEF u, v
    <3>2. 100 * (u + v) = (u * 50 + v * 50) * 2
      BY <3>1
    <3>3. u + v \in Int
      BY <3>1
    <3> QED BY <1>7, <2>2, <2>3, <3>2, <3>3 DEF Hundredths, u, v
  <2> QED BY <1>3, <1>7, <2>5
<1>9. CASE r = 1
  <2>1. l = m /\ f = 0 /\ m + 1 \in 1 .. n /\ (l = n - 1 => m + 1 = n)
        /\ (l # n - 1 => l + 2 \in 1 .. n)
    BY <1>1, <1>3, <1>4, <1>9
  <2>2. Level(a, l, f) = 100 * s[m + 1]
    <3>1. CASE l = n - 1
      BY <1>5, <2>1, <3>1
    <3>2. CASE l # n - 1
      <4>1. Level(a, l, f) = s[m + 1] * (100 - 0) + s[m + 2] * 0
        BY <1>5, <2>1, <3>2
      <4>2. s[m + 1] \in Int /\ s[m + 2] \in Int
        BY <1>2, <2>1, <3>2
      <4> QED BY <4>1, <4>2
    <3> QED BY <3>1, <3>2
  <2>3. Median(a) = <<s[m + 1], 1>>
    BY <1>6, <1>9
  <2>4. s[m + 1] \in Int /\ 100 * s[m + 1] = (100 * s[m + 1]) * 1
    BY <1>2, <2>1
  <2>5. Hundredths(Median(a), Level(a, l, f))
    BY <1>7, <2>2, <2>3, <2>4 DEF Hundredths
  <2> QED BY <1>3, <1>7, <2>5
<1> QED BY <1>4, <1>8, <1>9

(* Minimum and maximum are the extreme percentiles.                        *)
LEMMA ExtremeLevels ==
    ASSUME NEW a \in Seq(Int), a # <<>>
    PROVE  /\ \E h \in Int : Hundredths(MinOf(a), h) /\ Hundredths(Percentile(a, 0), h)
           /\ \E h \in Int : Hundredths(MaxOf(a), h) /\ Hundredths(Percentile(a, 100), h)
<1> DEFINE n == Len(a)
           s == Sorted(a)
<1>1. /\ n \in Nat \ {0} /\ MinOf(a) = <<s[1], 1>> /\ MaxOf(a) = <<s[n], 1>>
  BY ExtremesOfSorted DEF MinOf, MaxOf, Whole
<1>2. \A k \in 1 .. n : s[k] \in Int
  BY SortedRanks
<1>3. ASSUME NEW k \in 1 .. n
      PROVE  Hundredths(<<s[k], 1>>, 100 * s[k]) /\ 100 * s[k] \in Int
  <2>1. s[k] \in Int /\ 100 * s[k] \in Int /\ 100 * s[k] = (100 * s[k]) * 1
    BY <1>2
  <2> HIDE DEF s
  <2> QED BY <2>1 DEF Hundredths
<1>4. Hundredths(Percentile(a, 0), 100 * s[1])
  <2>1. 0 \in 0 .. 100
    OBVIOUS
  <2>2. PICK l \in 0 .. n - 1, f \in 0 .. 99 :
            /\ 0 * (n - 1) = 100 * l + f /\ (l = n - 1 => f = 0)
            /\ Hundredths(Percentile(a, 0), Level(a, l, f))
    BY <2>1, PercentileLevel
  <2>3. l = 0 /\ f = 0
    <3> HIDE DEF n
    <3>1. 0 * (n - 1) = 0 /\ l \in Nat /\ f \in Nat
      BY <1>1
    <3>2. 100 * l + f = 0
      BY <2>2, <3>1
    <3> QED BY <3>1, <3>2
  <2>4. Level(a, l, f) = 100 * s[1]
    <3>1. Level(a, l, f) = IF 0 = n - 1 THEN 100 * s[n]
                           ELSE s[0 + 1] * (100 - 0) + s[0 + 2] * 0
      BY <2>3 DEF Level
    <3> HIDE DEF n, s
    <3>2. CASE n = 1
      BY <3>1, <3>2
    <3>3. CASE n # 1
      <4>1. s[1] \in Int /\ s[2] \in Int
        BY <1>1, <1>2, <3>3
      <4>2. Level(a, l, f) = s[1] * (100 - 0) + s[2] * 0
        BY <1>1, <3>1, <3>3
      <4> QED BY <4>1, <4>2
    <3> QED BY <3>2, <3>3
  <2> QED BY <2>2, <2>4
<1>5. Hundredths(Percentile(a, 100), 100 * s[n])
  <2>1. 100 \in 0 .. 100
    OBVIOUS
  <2>2. PICK l \in 0 .. n - 1, f \in 0 .. 99 :
            /\ 100 * (n - 1) = 100 * l + f /\ (l = n - 1 => f = 0)
            /\ Hundredths(Percentile(a, 100), Level(a, l, f))
    BY <2>1, PercentileLevel
  <2>3. l = n - 1
    <3> HIDE DEF n
    <3> QED BY <1>1, <2>2
  <2>4. Level(a, l, f) = 100 * s[n]
    BY <2>3 DEF Level
  <2> QED BY <2>2, <2>4
<1>6. 1 \in 1 .. n /\ n \in 1 .. n
  <2> HIDE DEF n
  <2> QED BY <1>1
<1> QED BY <1>1, <1>3, <1>4, <1>5, <1>6

(* The loop of stats_mode, turn by turn.                                   *)
LEMMA ModesRun ==
    ASSUME NEW a \in Seq(Int), a # <<>>
    PROVE  /\ Modes(a)[0] = [mode |-> a[1], count |-> 1]
           /\ \A i \in 1 .. Len(a) :
                Modes(a)[i] = IF Occurrences(a, a[i]) > Modes(a)[i - 1].count
                              THEN [mode |-> a[i], count |-> Occurrences(a, a[i])]
                              ELSE Modes(a)[i - 1]
<1> DEFINE n == Len(a)
           M == [mode : Int, count : Nat]
           next(i, b) == IF Occurrences(a, a[i]) > b.count
                         THEN [mode |-> a[i], count |-> Occurrences(a, a[i])] ELSE b
           g == [i \in 1 .. n |-> [b \in M |-> next(i, b)]]
           first == [mode |-> a[1], count |-> 1]
           IsLoop(f) == f = [i \in 0 .. Len(a) |->
                               IF i = 0 THEN [mode |-> a[1], count |-> 1]
                               ELSE IF Occurrences(a, a[i]) > f[i - 1].count
                               THEN [mode |-> a[i], count |-> Occurrences(a, a[i])]
                               ELSE f[i - 1]]
<1>1. n \in Nat /\ n = Len(a) /\ n # 0 /\ \A i \in 1 .. n : a[i] \in Int
  BY EmptySeq
<1>2. \A i \in 1 .. n : Occurrences(a, a[i]) \in Nat
  <2> TAKE i \in 1 .. n
  <2>1. a[i] \in Int
    BY <1>1
  <2>2. /\ Below(a, a[i]) \in Nat /\ UpTo(a, a[i]) \in Nat /\ Below(a, a[i]) <= UpTo(a, a[i])
        /\ Occurrences(a, a[i]) = UpTo(a, a[i]) - Below(a, a[i])
    BY <2>1, Ranks
  <2> QED BY <2>2
<1> HIDE DEF n
<1>3. \A i \in 1 .. n : i \in 0 .. n /\ i # 0 /\ i - 1 \in 0 .. n
  BY <1>1
<1>4. first \in M
  BY <1>1
<1>5. g \in [1 .. n -> [M -> M]]
  <2>1. ASSUME NEW i \in 1 .. n, NEW b \in M PROVE next(i, b) \in M
    BY <1>1, <1>2
  <2> HIDE DEF next, M
  <2> QED BY <2>1
<1>6. PICK f : IsRun(f, M, n, first, g)
  <2> HIDE DEF g, M, first
  <2> QED BY <1>1, <1>4, <1>5, LoopExists
<1>7. IsLoop(f)
  <2>1. \A i \in 1 .. n : f[i - 1] \in M
    BY <1>3, <1>6 DEF IsRun
  <2>2. \A i \in 1 .. n : g[i][f[i - 1]] = next(i, f[i - 1])
    <3> HIDE DEF next, M
    <3> QED BY <2>1
  <2>3. \A i \in 1 .. n : f[i] = next(i, f[i - 1])
    <3> HIDE DEF next, g
    <3> QED BY <1>6, <2>2 DEF IsRun
  <2>4. f[0] = [mode |-> a[1], count |-> 1] /\ f = [i \in 0 .. n |-> f[i]]
    BY <1>6 DEF IsRun
  <2>5. \A i \in 0 .. n : i # 0 => i \in 1 .. n
    BY <1>1
  <2>6. \A i \in 0 .. n : f[i] = IF i = 0 THEN [mode |-> a[1], count |-> 1]
                                 ELSE next(i, f[i - 1])
    <3> HIDE DEF next
    <3> QED BY <2>3, <2>4, <2>5
  <2>7. f = [i \in 0 .. n |-> IF i = 0 THEN [mode |-> a[1], count |-> 1]
                              ELSE next(i, f[i - 1])]
    <3> HIDE DEF next
    <3> QED BY <2>4, <2>6
  <2> QED BY <1>1, <2>7
<1> DEFINE c == Modes(a)
<1>8. IsLoop(c)
  <2>1. Modes(a) = CHOOSE r : IsLoop(r)
    BY DEF Modes
  <2> HIDE DEF IsLoop
  <2> QED BY <1>7, <2>1
<1> HIDE DEF c
<1>9. 0 \in 0 .. n
  BY <1>1
<1> QED BY <1>1, <1>3, <1>8, <1>9 DEF c

(* No element occurs more often than the mode.                             *)
LEMMA ModeHolds ==
    ASSUME NEW a \in Seq(Int), a # <<>>
    PROVE  /\ Mode(a).count = Occurrences(a, Mode(a).mode)
           /\ \A v \in ToSet(a) : Occurrences(a, v) <= Mode(a).count
<1> DEFINE n == Len(a)
           c == Modes(a)
           T == {i \in 0 .. n :
                    /\ c[i].count \in Nat
                    /\ i # 0 => /\ c[i].count = Occurrences(a, c[i].mode)
                                /\ \A j \in 1 .. i : Occurrences(a, a[j]) <= c[i].count}
<1>1. n \in Nat /\ n # 0 /\ \A i \in 1 .. n : a[i] \in Int
  BY EmptySeq
<1>2. \A i \in 1 .. n : Occurrences(a, a[i]) \in Nat /\ Occurrences(a, a[i]) >= 1
  <2> TAKE i \in 1 .. n
  <2>1. a[i] \in Int /\ a[i] \in ToSet(a)
    BY <1>1 DEF ToSet
  <2>2. /\ Below(a, a[i]) \in Nat /\ UpTo(a, a[i]) \in Nat /\ Below(a, a[i]) < UpTo(a, a[i])
        /\ Occurrences(a, a[i]) = UpTo(a, a[i]) - Below(a, a[i])
    BY <2>1, Ranks
  <2> QED BY <2>2
<1>3. /\ c[0] = [mode |-> a[1], count |-> 1]
      /\ \A i \in 1 .. n :
            c[i] = IF Occurrences(a, a[i]) > c[i - 1].count
                   THEN [mode |-> a[i], count |-> Occurrences(a, a[i])] ELSE c[i - 1]
  BY ModesRun
<1> HIDE DEF n, c
<1>4. 0 \in T
  BY <1>1, <1>3
<1>5. ASSUME NEW i \in 1 .. n, i - 1 \in T PROVE i \in T
  <2> DEFINE o == Occurrences(a, a[i])
  <2>1. o \in Nat /\ o >= 1
    BY <1>2
  <2>2. c[i] = IF o > c[i - 1].count THEN [mode |-> a[i], count |-> o] ELSE c[i - 1]
    BY <1>3
  <2>3. i \in 0 .. n /\ i # 0
    BY <1>1
  <2>4. CASE i = 1
    <3>1. c[0].count = 1 /\ c[0].mode = a[1]
      BY <1>3
    <3>2. c[1].mode = a[1] /\ c[1].count = o
      <4>1. CASE o > 1
        BY <2>2, <2>4, <3>1, <4>1
      <4>2. CASE ~ (o > 1)
        <5>1. o = 1 /\ c[1] = c[0]
          BY <2>1, <2>2, <2>4, <3>1, <4>2
        <5> QED BY <3>1, <5>1
      <4> QED BY <4>1, <4>2
    <3>3. \A j \in 1 .. i : j = i
      BY <2>4
    <3> QED BY <2>1, <2>3, <2>4, <3>2, <3>3
  <2>5. CASE i # 1
    <3>1. i - 1 # 0
      BY <2>5
    <3>2. /\ c[i - 1].count = Occurrences(a, c[i - 1].mode)
          /\ \A j \in 1 .. i - 1 : Occurrences(a, a[j]) <= c[i - 1].count
      BY <1>5, <3>1
    <3>3. \A j \in 1 .. i : j = i \/ j \in 1 .. i - 1
      OBVIOUS
    <3>4. \A j \in 1 .. i : j \in 1 .. n
      BY <1>1
    <3>5. c[i - 1].count \in Nat
      BY <1>5
    <3>6. CASE o > c[i - 1].count
      <4>1. c[i].mode = a[i] /\ c[i].count = o
        BY <2>2, <3>6
      <4> HIDE DEF o
      <4>2. \A j \in 1 .. i - 1 : Occurrences(a, a[j]) <= o
        <5> TAKE j \in 1 .. i - 1
        <5>1. j \in 1 .. i
          OBVIOUS
        <5>2. Occurrences(a, a[j]) \in Nat
          BY <1>2, <3>4, <5>1
        <5>3. Occurrences(a, a[j]) <= c[i - 1].count
          BY <3>2
        <5> QED BY <2>1, <3>5, <3>6, <5>2, <5>3
      <4>3. Occurrences(a, a[i]) <= o /\ o = Occurrences(a, c[i].mode)
        BY <2>1, <4>1 DEF o
      <4>4. \A j \in 1 .. i : Occurrences(a, a[j]) <= o
        BY <3>3, <4>2, <4>3
      <4> QED BY <2>1, <2>3, <4>1, <4>3, <4>4
    <3>7. CASE ~ (o > c[i - 1].count)
      <4>1. c[i] = c[i - 1]
        BY <2>2, <3>7
      <4>2. o <= c[i - 1].count
        BY <2>1, <3>5, <3>7
      <4>3. \A j \in 1 .. i : Occurrences(a, a[j]) <= c[i - 1].count
        BY <3>2, <3>3, <4>2
      <4> QED BY <2>3, <3>2, <3>5, <4>1, <4>3
    <3> QED BY <3>6, <3>7
  <2> QED BY <2>4, <2>5
<1>6. n \in T
  <2>1. T \in SUBSET (0 .. n)
    OBVIOUS
  <2> HIDE DEF T
  <2>2. T = 0 .. n
    BY <1>1, <1>4, <1>5, <2>1, TurnInduction
  <2>3. n \in 0 .. n
    BY <1>1
  <2> QED BY <2>2, <2>3
<1>7. Mode(a) = c[n]
  BY DEF Mode, c, n
<1>8. \A v \in ToSet(a) : \E j \in 1 .. n : v = a[j]
  BY DEF ToSet, n
<1> QED BY <1>1, <1>6, <1>7, <1>8

-----------------------------------------------------------------------------
(* The moving window.                                                      *)

(* The index moves to the next slot, and from the last to the first.       *)
LEMMA NextSlot ==
    ASSUME NEW s \in Nat \ {0}, NEW i \in 0 .. s - 1
    PROVE  (i + 1) % s = IF i + 1 = s THEN 0 ELSE i + 1
  BY SMTT(30)

(* The part of WindowOK that says where things are.                        *)
Shape ==
    /\ size \in 0 .. MaxSize
    /\ window \in [0 .. size - 1 -> Value \union {Junk}]
    /\ count \in 0 .. size
    /\ index \in Nat /\ index <= size /\ (size # 0 => index < size)
    /\ WrittenBeforeRead

(* The shape holds before the first window, and across windows.            *)
LEMMA ShapeInit == Null => Shape
  BY WindowAssumption DEF Null, Shape, WrittenBeforeRead

LEMMA ShapeCreate ==
    ASSUME Shape, NEW n \in 1 .. MaxSize, Create(n) PROVE Shape'
  BY WindowAssumption DEF Shape, WrittenBeforeRead, Create

LEMMA ShapeDestroy == ASSUME Shape, Destroy PROVE Shape'
  BY WindowAssumption DEF Shape, WrittenBeforeRead, Destroy

(* Filling writes the slot behind the last one; the index stays 0.         *)
LEMMA ShapeFill ==
    ASSUME Shape, NEW v \in Value, Fill(v), UNCHANGED size PROVE Shape'
  BY WindowAssumption DEF Shape, WrittenBeforeRead, Fill

(* Replacing writes the slot at the index and moves the index.             *)
LEMMA ShapeReplace ==
    ASSUME Shape, NEW v \in Value, Replace(v), size # 0, UNCHANGED size
    PROVE  Shape'
  <1>1. count = size /\ count' = size /\ size \in Nat \ {0} /\ index \in 0 .. size - 1
    BY WindowAssumption DEF Shape, Replace
  <1>2. index' = IF index + 1 = size THEN 0 ELSE index + 1
    BY <1>1, NextSlot DEF Replace
  <1>3. window' = [window EXCEPT ![index] = v]
    BY DEF Replace
  <1> QED
    BY <1>1, <1>2, <1>3, WindowAssumption DEF Shape, WrittenBeforeRead, Replace

(* Creating and destroying a MovingStats open and close an empty window.   *)
LEMMA CreateOpens ==
    ASSUME Shape, NEW n \in 1 .. MaxSize, Create(n) PROVE Window!Open
  BY WindowAssumption DEF Shape, Create, Contents, Window!Open

LEMMA DestroyCloses == ASSUME Shape, Destroy PROVE Window!Close
  BY DEF Shape, Destroy, Contents, Window!Close

(* What Contents is after a step, element by element.                      *)
LEMMA FillContents ==
    ASSUME Shape, NEW v \in Value, Fill(v), size # 0, UNCHANGED size
    PROVE  /\ Contents' = Append(Contents, v)
           /\ Contents \in Seq(Value \union {Junk}) /\ Len(Append(Contents, v)) <= size
  <1>1. index = 0 /\ index' = 0 /\ count' = count + 1 /\ count < size
        /\ count \in Nat /\ size \in Nat
    BY WindowAssumption DEF Shape, WrittenBeforeRead, Fill
  <1>2. window' = [window EXCEPT ![count] = v]
        /\ DOMAIN window = 0 .. size - 1
    BY DEF Shape, Fill
  <1>3. \A i \in 1 .. count : Slot(i - 1) = i - 1 /\ Slot(i - 1)' = i - 1
    BY <1>1 DEF Slot
  <1>4. Contents = [i \in 1 .. count |-> window[i - 1]]
    BY <1>3 DEF Contents
  <1>5. Contents' = [i \in 1 .. count + 1 |-> IF i = count + 1 THEN v ELSE window[i - 1]]
    <2>1. \A i \in 1 .. count + 1 : Slot(i - 1)' = i - 1
      BY <1>1 DEF Slot
    <2> QED
      BY <1>1, <1>2, <2>1 DEF Contents
  <1>6. Len(Contents) = count /\ Contents \in Seq(Value \union {Junk})
    BY <1>1, <1>4 DEF Shape
  <1>7. Append(Contents, v) = Contents'
    BY <1>1, <1>4, <1>5, <1>6, SMT
  <1>8. Len(Append(Contents, v)) <= size
    BY <1>1, <1>6
  <1> QED
    BY <1>6, <1>7, <1>8

(* Filling is observing.                                                   *)
LEMMA FillObserves ==
    ASSUME Shape, NEW v \in Value, Fill(v), size # 0, UNCHANGED size
    PROVE  Window!Observe(v)
  <1>1. Contents' = Append(Contents, v) /\ Len(Append(Contents, v)) <= size
    BY FillContents
  <1> QED
    BY <1>1 DEF Window!Observe, Window!Latest

(* The slot at the index holds the oldest observation.                     *)
LEMMA ReplaceContents ==
    ASSUME Shape, NEW v \in Value, Replace(v), size # 0, UNCHANGED size
    PROVE  /\ Contents' = Append(Tail(Contents), v)
           /\ Contents \in Seq(Value \union {Junk}) /\ Len(Contents) = size
           /\ Contents # <<>> /\ Contents[1] = window[index]
  <1>1. count = size /\ count' = size /\ size \in Nat \ {0} /\ index \in 0 .. size - 1
    BY WindowAssumption DEF Shape, Replace
  <1>2. index' = IF index + 1 = size THEN 0 ELSE index + 1
    BY <1>1, NextSlot DEF Replace
  <1>3. window' = [window EXCEPT ![index] = v] /\ DOMAIN window = 0 .. size - 1
    BY DEF Shape, Replace
  <1>4. \A i \in 1 .. size - 1 : Slot(i - 1)' = Slot(i)
    BY <1>1, <1>2 DEF Slot
  <1>5. Slot(size - 1)' = index
    BY <1>1, <1>2 DEF Slot
  <1>6. \A i \in 1 .. size - 1 : Slot(i) \in 0 .. size - 1 /\ Slot(i) # index
    BY <1>1 DEF Slot
  <1>7. Contents = [i \in 1 .. size |-> window[Slot(i - 1)]]
    BY <1>1 DEF Contents
  <1>8. Contents' = [i \in 1 .. size |-> IF i = size THEN v ELSE window[Slot(i)]]
    <2>1. Contents' = [i \in 1 .. size |-> window'[Slot(i - 1)']]
      BY <1>1 DEF Contents
    <2>2. ASSUME NEW i \in 1 .. size
          PROVE  window'[Slot(i - 1)'] = IF i = size THEN v ELSE window[Slot(i)]
      <3>1. CASE i = size
        BY <3>1, <1>1, <1>3, <1>5
      <3>2. CASE i # size
        <4>1. i \in 1 .. size - 1
          BY <3>2, <1>1
        <4> QED
          BY <4>1, <3>2, <1>3, <1>4, <1>6
      <3> QED
        BY <3>1, <3>2
    <2> QED
      BY <2>1, <2>2
  <1>9. Slot(0) \in 0 .. size - 1
    BY <1>1 DEF Slot
  <1>10. Contents \in Seq(Value \union {Junk}) /\ Len(Contents) = size
    <2>1. \A i \in 1 .. size : Slot(i - 1) \in 0 .. size - 1
      BY <1>1 DEF Slot
    <2> QED
      BY <1>1, <1>7, <2>1 DEF Shape
  <1>11. Append(Tail(Contents), v) = Contents'
    <2> DEFINE t == Tail(Contents)
    <2>1. t \in Seq(Value \union {Junk}) /\ Len(t) = size - 1
      BY <1>1, <1>10
    <2>2. \A i \in 1 .. size - 1 : t[i] = Contents[i + 1]
      BY <1>1, <1>10
    <2>3. \A i \in 1 .. size - 1 : t[i] = window[Slot(i)]
      BY <1>1, <1>7, <2>2
    <2>4. Append(t, v) = [i \in 1 .. size |-> IF i = size THEN v ELSE t[i]]
      <3> HIDE DEF t
      <3> DEFINE a == Append(t, v)
      <3>1. /\ a \in Seq(Value \union {Junk}) /\ Len(a) = size
            /\ \A i \in 1 .. size - 1 : a[i] = t[i]
            /\ a[size] = v
        BY <1>1, <2>1, AppendProperties
      <3> HIDE DEF a
      <3>2. a = [i \in 1 .. size |-> a[i]]
        BY <3>1
      <3>3. \A i \in 1 .. size : a[i] = IF i = size THEN v ELSE t[i]
        BY <1>1, <3>1
      <3>4. a = [i \in 1 .. size |-> IF i = size THEN v ELSE t[i]]
        BY <3>2, <3>3, Zenon
      <3> QED
        BY <3>4 DEF a
    <2> QED
      BY <1>1, <1>8, <2>3, <2>4
  <1>12. Contents # <<>>
    BY <1>1, <1>10
  <1>13. Contents[1] = window[index]
    <2>1. 1 \in 1 .. size /\ 1 - 1 = 0 /\ Slot(0) = index
      BY <1>1 DEF Slot
    <2> QED
      BY <1>7, <2>1
  <1> QED
    BY <1>10, <1>11, <1>12, <1>13

(* And so is replacing.                                                    *)
LEMMA ReplaceObserves ==
    ASSUME Shape, NEW v \in Value, Replace(v), size # 0, UNCHANGED size
    PROVE  Window!Observe(v)
  <1>1. /\ Contents' = Append(Tail(Contents), v) /\ Contents # <<>>
        /\ Contents \in Seq(Value \union {Junk}) /\ Len(Contents) = size /\ size \in Nat
    BY ReplaceContents DEF Shape
  <1>2. Tail(Append(Contents, v)) = Append(Tail(Contents), v)
    BY <1>1, SMT
  <1>3. Len(Append(Contents, v)) > size
    BY <1>1
  <1> QED
    BY <1>1, <1>2, <1>3 DEF Window!Observe, Window!Latest

-----------------------------------------------------------------------------
(* The three programs of Sampling: two leave the object alone.             *)
LEMMA ObjectStep ==
    ASSUME Shape, [SamplingNext]_samplingVars
    PROVE  Shape' /\ [Window!Next]_<<size, Contents>>
  <1>1. CASE UNCHANGED msVars
    <2>1. Shape' /\ UNCHANGED <<size, Contents>>
      BY <1>1 DEF msVars, Shape, WrittenBeforeRead, Contents, Slot
    <2> QED
      BY <2>1
  <1>2. CASE OpenWindow
    BY <1>2, ShapeCreate, CreateOpens DEF OpenWindow, Window!Next
  <1>3. CASE CloseWindow
    BY <1>3, ShapeDestroy, DestroyCloses DEF CloseWindow, Window!Next
  <1>4. CASE Watch
    <2>1. PICK v \in Value : Add(v)
      BY <1>4 DEF Watch
    <2>2. size # 0 /\ UNCHANGED size /\ (Fill(v) \/ Replace(v))
      BY <2>1 DEF Add
    <2>3. Shape'
      BY <2>2, ShapeFill, ShapeReplace
    <2>4. Window!Observe(v)
      BY <2>2, FillObserves, ReplaceObserves
    <2> QED
      BY <2>3, <2>4 DEF Window!Next
  <1>5. DrawPair \/ AskMedian \/ DrawNumber \/ UNCHANGED samplingVars
            => UNCHANGED msVars
    BY DEF DrawPair, AskMedian, DrawNumber, samplingVars
  <1> QED
    BY <1>1, <1>2, <1>3, <1>4, <1>5 DEF SamplingNext

(* For every window size and every stream of observations, finite or not,  *)
(* a MovingStats object holds exactly the last ones, oldest first.         *)
THEOREM WindowRefinement == SamplingSpec => WindowSpec
  <1>1. SamplingInit => Shape /\ Window!Init
    BY ShapeInit DEF SamplingInit, Null, Window!Init, Contents
  <1>2. Shape /\ [SamplingNext]_samplingVars => Shape' /\ [Window!Next]_<<size, Contents>>
    BY ObjectStep
  <1> QED
    BY <1>1, <1>2, PTL DEF SamplingSpec, WindowSpec, Window!Spec

(* And no operation of it reads a slot before it was written or outside    *)
(* the window.                                                             *)
THEOREM WindowMemory == SamplingSpec => []Shape
  <1>1. SamplingInit => Shape
    BY ShapeInit DEF SamplingInit
  <1>2. Shape /\ [SamplingNext]_samplingVars => Shape'
    BY ObjectStep
  <1> QED
    BY <1>1, <1>2, PTL DEF SamplingSpec

-----------------------------------------------------------------------------
(* The running sums of a MovingStats.                                      *)

(* Finite numbers add exactly; what is not finite stays so.                *)
LEMMA DoubleArithmetic ==
    /\ \A a, b \in Int : Plus(a, b) = a + b /\ Minus(a, b) = a - b /\ Squared(a) = a * a
    /\ \A a, b : a \in Special \/ b \in Special => Plus(a, b) \in Special
    /\ \A a, b : a \in Special => Minus(a, b) \in Special
    /\ \A a \in Special : Squared(a) \in Special
<1>1. \A a \in Special : a \notin Int
  BY SpecialAssumption
<1>2. \A a, b \in Int : Plus(a, b) = a + b
  BY DEF Plus
<1>3. \A b \in Int : Negated(b) = -b /\ -b \in Int
  <2> TAKE b \in Int
  <2>1. b # Inf /\ b # NegInf /\ b # NaN
    BY <1>1 DEF Special
  <2> QED BY <2>1 DEF Negated
<1>4. \A a, b \in Int : Minus(a, b) = a - b
  BY <1>2, <1>3 DEF Minus
<1>5. \A a \in Int : Squared(a) = a * a
  <2> TAKE a \in Int
  <2>1. a # NaN
    BY <1>1 DEF Special
  <2> QED BY <2>1 DEF Squared
<1>6. ASSUME NEW a, NEW b, a \in Special \/ b \in Special PROVE Plus(a, b) \in Special
  <2>1. ~ (a \in Int /\ b \in Int)
    BY <1>1, <1>6
  <2>2. Plus(a, b) \in {NaN, Inf, NegInf}
    BY <2>1 DEF Plus
  <2> QED BY <2>2 DEF Special
<1>7. \A a, b : a \in Special => Minus(a, b) \in Special
  BY <1>6 DEF Minus
<1>8. ASSUME NEW a \in Special PROVE Squared(a) \in Special
  <2>1. a \notin Int
    BY <1>1
  <2>2. Squared(a) \in {NaN, Inf}
    <3>1. CASE a = NaN
      BY <2>1, <3>1 DEF Squared
    <3>2. CASE a # NaN
      BY <2>1, <3>2 DEF Squared
    <3> QED BY <3>1, <3>2
  <2> QED BY <2>2 DEF Special
<1> QED BY <1>2, <1>4, <1>5, <1>6, <1>7, <1>8

(* A sum of squares moves with its array.                                  *)
LEMMA SquaresOfAppend ==
    ASSUME NEW a \in Seq(Int), NEW v \in Int
    PROVE  Products(Append(a, v), Append(a, v)) = Products(a, a) + v * v
<1> DEFINE n == Len(a)
           b == Append(a, v)
           p == Pairwise(a, a)
           q == Pairwise(b, b)
<1>1. /\ b \in Seq(Int) /\ Len(b) = n + 1 /\ n \in Nat /\ n = Len(a)
      /\ \A i \in 1 .. n : b[i] = a[i]
      /\ b[n + 1] = v
  BY AppendProperties
<1> HIDE DEF b
<1>2. /\ p \in Seq(Int) /\ Len(p) = n /\ \A i \in 1 .. n : p[i] = a[i] * a[i]
      /\ Products(a, a) = Total(p)
  BY PairwiseIsArray
<1>3. /\ q \in Seq(Int) /\ Len(q) = n + 1 /\ \A i \in 1 .. n + 1 : q[i] = b[i] * b[i]
      /\ Products(b, b) = Total(q)
  <2>1. /\ q \in Seq(Int) /\ Len(q) = Len(b)
        /\ \A i \in 1 .. Len(b) : q[i] = b[i] * b[i]
        /\ Products(b, b) = Total(q)
    BY <1>1, PairwiseIsArray
  <2> HIDE DEF q
  <2> QED BY <1>1, <2>1
<1> HIDE DEF n, p, q
<1>4. v * v \in Int
  BY Distributes
<1> DEFINE w == v * v
           r == Append(p, w)
<1> HIDE DEF w
<1>5. /\ r \in Seq(Int) /\ Len(r) = n + 1
      /\ \A i \in 1 .. n : r[i] = p[i]
      /\ r[n + 1] = w
  BY <1>2, <1>4, AppendProperties DEF w
<1> HIDE DEF r
<1>6. \A i \in 1 .. n + 1 : q[i] = r[i]
  <2>1. \A i \in 1 .. n + 1 : i \in 1 .. n \/ i = n + 1
    BY <1>1
  <2>2. \A i \in 1 .. n : q[i] = r[i]
    <3>1. \A i \in 1 .. n : i \in 1 .. n + 1
      BY <1>1
    <3> QED BY <1>1, <1>2, <1>3, <1>5, <3>1
  <2>3. q[n + 1] = r[n + 1]
    <3>1. n + 1 \in 1 .. n + 1
      BY <1>1
    <3> QED BY <1>1, <1>3, <1>5, <3>1 DEF w
  <2> QED BY <2>1, <2>2, <2>3
<1>7. q = r
  BY <1>3, <1>5, <1>6, SeqEqual
<1>8. Total(r) = Total(p) + w
  BY <1>2, <1>4, TotalOfAppend DEF r, w
<1> QED BY <1>2, <1>3, <1>7, <1>8 DEF b, w

(* The squares without the first one.                                      *)
LEMMA SquaresOfTail ==
    ASSUME NEW a \in Seq(Int), a # <<>>
    PROVE  Products(Tail(a), Tail(a)) = Products(a, a) - a[1] * a[1]
<1> DEFINE n == Len(a)
           b == Tail(a)
           p == Pairwise(a, a)
           q == Pairwise(b, b)
           r == Tail(p)
<1>1. /\ b \in Seq(Int) /\ Len(b) = n - 1 /\ n \in Nat /\ n = Len(a) /\ n >= 1
      /\ \A i \in 1 .. n - 1 : b[i] = a[i + 1]
  BY TailElements
<1> HIDE DEF b
<1>2. /\ p \in Seq(Int) /\ Len(p) = n /\ \A i \in 1 .. n : p[i] = a[i] * a[i]
      /\ Products(a, a) = Total(p)
  BY PairwiseIsArray
<1>3. /\ q \in Seq(Int) /\ Len(q) = n - 1 /\ \A i \in 1 .. n - 1 : q[i] = b[i] * b[i]
      /\ Products(b, b) = Total(q)
  <2>1. /\ q \in Seq(Int) /\ Len(q) = Len(b)
        /\ \A i \in 1 .. Len(b) : q[i] = b[i] * b[i]
        /\ Products(b, b) = Total(q)
    BY <1>1, PairwiseIsArray
  <2> HIDE DEF q
  <2> QED BY <1>1, <2>1
<1> HIDE DEF n, p, q
<1>4. p # <<>>
  BY <1>1, <1>2
<1>5. r \in Seq(Int) /\ Len(r) = n - 1 /\ \A i \in 1 .. n - 1 : r[i] = p[i + 1]
  BY <1>2, <1>4, TailElements
<1> HIDE DEF r
<1>6. \A i \in 1 .. n - 1 : q[i] = r[i]
  <2>1. \A i \in 1 .. n - 1 : i + 1 \in 1 .. n
    BY <1>1
  <2> QED BY <1>1, <1>2, <1>3, <1>5, <2>1
<1>7. q = r
  BY <1>3, <1>5, <1>6, SeqEqual
<1>8. Total(r) = Total(p) - p[1]
  BY <1>2, <1>4, TotalOfTail DEF r
<1>9. p[1] = a[1] * a[1]
  <2>1. 1 \in 1 .. n
    BY <1>1
  <2> QED BY <1>2, <2>1
<1> QED BY <1>2, <1>3, <1>7, <1>8, <1>9 DEF b

(* The sums are those of the contents, or lost for good.                   *)
SumsKept ==
    /\ dirty \in BOOLEAN /\ (size = 0 => ~ dirty)
    /\ ~ dirty => /\ Contents \in Seq(Int)
                  /\ sum = Total(Contents) /\ sum_sq = Products(Contents, Contents)
    /\ dirty => {sum, sum_sq} \subseteq Special

(* The sums of an empty window.                                            *)
LEMMA EmptySums ==
    <<>> \in Seq(Int) /\ Total(<<>>) = 0 /\ Products(<<>>, <<>>) = 0
<1>1. <<>> \in Seq(Int) /\ Len(<<>>) = 0
  OBVIOUS
<1>2. [i \in 1 .. 0 |-> <<>>[i] * <<>>[i]] = <<>>
  OBVIOUS
<1> QED BY <1>1, <1>2, TotalIsInt DEF Products

(* The sums are kept from Null on.                                         *)
LEMMA SumsInit == Null => SumsKept
<1>1. Null => Contents = <<>>
  BY DEF Null, Contents
<1>2. Null => size = 0 /\ sum = 0 /\ sum_sq = 0 /\ dirty = FALSE
  BY DEF Null
<1> QED BY <1>1, <1>2, EmptySums DEF SumsKept

(* A new window is empty, and so are its sums.                             *)
LEMMA SumsCreate ==
    ASSUME SumsKept, NEW n \in Nat, Create(n) PROVE SumsKept'
<1>1. Contents' = <<>>
  BY DEF Create, Contents
<1>2. size = 0 /\ size' # 0 /\ sum' = 0 /\ sum_sq' = 0 /\ dirty' = dirty /\ ~ dirty
  BY DEF Create, SumsKept
<1> QED BY <1>1, <1>2, EmptySums DEF SumsKept

(* NULL speaks for nothing.                                                *)
LEMMA SumsDestroy ==
    ASSUME Destroy PROVE SumsKept'
<1>1. Contents' = <<>>
  BY DEF Destroy, Contents
<1>2. size' = 0 /\ sum' = 0 /\ sum_sq' = 0 /\ dirty' = FALSE
  BY DEF Destroy
<1> QED BY <1>1, <1>2, EmptySums DEF SumsKept

(* The step of a running sum, whatever enters and leaves.                  *)
LEMMA SumsAdd ==
    ASSUME Shape, SumsKept, NEW v \in Value, Add(v) PROVE SumsKept'
<1>1. size # 0 /\ UNCHANGED size /\ dirty' = (dirty \/ v \notin Int)
  BY DEF Add
<1>2. v \in Int \/ v \in Special
  BY WindowAssumption
<1>3. CASE Fill(v)
  <2>1. Contents' = Append(Contents, v)
    BY <1>1, <1>3, FillContents
  <2>2. sum' = Plus(sum, v) /\ sum_sq' = Plus(sum_sq, Squared(v))
    BY <1>3 DEF Fill
  <2>3. CASE dirty'
    <3>1. dirty \/ v \in Special
      BY <1>1, <1>2, <2>3
    <3>2. {sum', sum_sq'} \subseteq Special
      BY <2>2, <3>1, DoubleArithmetic DEF SumsKept
    <3> QED BY <1>1, <2>3, <3>2 DEF SumsKept
  <2>4. CASE ~ dirty'
    <3>1. ~ dirty /\ v \in Int
      BY <1>1, <2>4
    <3>2. Contents \in Seq(Int) /\ sum = Total(Contents) /\ sum_sq = Products(Contents, Contents)
      BY <3>1 DEF SumsKept
    <3>3. /\ Contents' \in Seq(Int) /\ Total(Contents') = Total(Contents) + v
          /\ Products(Contents', Contents') = Products(Contents, Contents) + v * v
      BY <2>1, <3>1, <3>2, TotalOfAppend, SquaresOfAppend, AppendProperties
    <3>4. Total(Contents) \in Int /\ Products(Contents, Contents) \in Int /\ v * v \in Int
      BY <3>1, <3>2, TotalIsInt, PairwiseIsArray, Distributes
    <3>5. sum' = sum + v /\ sum_sq' = sum_sq + v * v
      BY <2>2, <3>1, <3>2, <3>4, DoubleArithmetic
    <3> QED BY <1>1, <2>4, <3>2, <3>3, <3>5 DEF SumsKept
  <2> QED BY <2>3, <2>4
<1>4. CASE Replace(v)
  <2>1. /\ Contents' = Append(Tail(Contents), v)
        /\ Contents # <<>> /\ Contents[1] = window[index]
    BY <1>1, <1>4, ReplaceContents
  <2> DEFINE o == window[index]
  <2>2. /\ sum' = Plus(Minus(sum, o), v)
        /\ sum_sq' = Plus(Minus(sum_sq, Squared(o)), Squared(v))
    BY <1>4 DEF Replace
  <2> HIDE DEF o
  <2>3. CASE dirty'
    <3>1. dirty \/ v \in Special
      BY <1>1, <1>2, <2>3
    <3>2. {sum', sum_sq'} \subseteq Special
      <4>1. CASE dirty
        BY <2>2, <4>1, DoubleArithmetic DEF SumsKept
      <4>2. CASE v \in Special
        BY <2>2, <4>2, DoubleArithmetic
      <4> QED BY <3>1, <4>1, <4>2
    <3> QED BY <1>1, <2>3, <3>2 DEF SumsKept
  <2>4. CASE ~ dirty'
    <3> DEFINE c == Contents
               t == Tail(Contents)
    <3>1. ~ dirty /\ v \in Int
      BY <1>1, <2>4
    <3>2. c \in Seq(Int) /\ sum = Total(c) /\ sum_sq = Products(c, c)
      BY <3>1 DEF SumsKept
    <3>3. t \in Seq(Int) /\ o \in Int /\ o = c[1]
      BY <2>1, <3>2, TailElements DEF o
    <3>4. Total(t) = Total(c) - o /\ Products(t, t) = Products(c, c) - o * o
      <4> HIDE DEF c
      <4>1. c # <<>> /\ t = Tail(c)
        BY <2>1 DEF c
      <4> HIDE DEF t
      <4> QED BY <3>2, <3>3, <4>1, TotalOfTail, SquaresOfTail
    <3>5. /\ Contents' \in Seq(Int) /\ Total(Contents') = Total(t) + v
          /\ Products(Contents', Contents') = Products(t, t) + v * v
      <4> HIDE DEF t
      <4>1. Contents' = Append(t, v)
        BY <2>1 DEF t
      <4> QED BY <3>1, <3>3, <4>1, TotalOfAppend, SquaresOfAppend, AppendProperties
    <3>6. /\ Total(c) \in Int /\ Products(c, c) \in Int /\ v * v \in Int /\ o * o \in Int
      BY <3>1, <3>2, <3>3, TotalIsInt, PairwiseIsArray, Distributes
    <3>7. sum' = (sum - o) + v
      <4>1. Minus(sum, o) = sum - o /\ sum - o \in Int
        <5>1. sum \in Int
          BY <3>2, <3>6
        <5>2. o \in Int
          BY <3>3
        <5>3. Minus(sum, o) = sum - o
          BY <5>1, <5>2, DoubleArithmetic
        <5> QED BY <5>1, <5>2, <5>3
      <4> QED BY <2>2, <3>1, <4>1, DoubleArithmetic
    <3>8. sum_sq' = (sum_sq - o * o) + v * v
      <4>1. Squared(o) = o * o /\ Squared(v) = v * v
        BY <3>1, <3>3, DoubleArithmetic
      <4> DEFINE oo == o * o
                 vv == v * v
      <4>2. sum_sq' = Plus(Minus(sum_sq, oo), vv) /\ oo \in Int /\ vv \in Int /\ sum_sq \in Int
        BY <2>2, <3>2, <3>6, <4>1
      <4> HIDE DEF oo, vv
      <4>3. Minus(sum_sq, oo) = sum_sq - oo /\ sum_sq - oo \in Int
        BY <4>2, DoubleArithmetic
      <4>4. sum_sq' = (sum_sq - oo) + vv
        BY <4>2, <4>3, DoubleArithmetic
      <4> QED BY <4>4 DEF oo, vv
    <3>9. sum' = Total(Contents')
      BY <3>2, <3>4, <3>5, <3>7
    <3>10. sum_sq' = Products(Contents', Contents')
      BY <3>2, <3>4, <3>5, <3>8
    <3> QED BY <1>1, <2>4, <3>5, <3>9, <3>10 DEF SumsKept
  <2> QED BY <2>3, <2>4
<1> QED BY <1>3, <1>4 DEF Add

(* The moving mean and variance are those of the window.                   *)
LEMMA MovingAgrees ==
    ASSUME Shape, SumsKept PROVE MovingAgreesWithBatch
<1>1. dirty => {sum, sum_sq} \subseteq Special
  BY DEF SumsKept
<1>2. ASSUME ~ dirty
      PROVE  /\ Same(MovingMean, Mean(Contents))
             /\ Same(MovingVariance, Variance(Contents))
  <2> DEFINE c == Contents
             Q == Products(c, c)
  <2>1. c \in Seq(Int) /\ sum = Total(c) /\ sum_sq = Q
    BY <1>2 DEF SumsKept
  <2>2. Len(c) = count /\ count \in Nat
    <3>1. count \in Nat
      BY WindowAssumption DEF Shape
    <3>2. c = [i \in 1 .. count |-> window[Slot(i - 1)]]
      BY DEF Contents
    <3> QED BY <3>1, <3>2
  <2>3. sum \in Int /\ sum_sq \in Int
    BY <2>1, TotalIsInt, PairwiseIsArray
  <2>4. Deviations(c, c) = count * (count * sum_sq - sum * sum)
    BY <2>1, <2>2, DeviationsBySums
  <2>5. c = <<>> <=> count = 0
    <3> HIDE DEF c
    <3> QED BY <2>1, <2>2, EmptySeq
  <2> HIDE DEF c, Q
  <2>6. Same(MovingMean, Mean(c))
    <3>1. MovingMean = Mean(c)
      BY <2>1, <2>2, <2>5 DEF MovingMean, Mean
    <3> QED BY <3>1 DEF Same
  <2>7. Same(MovingVariance, Variance(c))
    <3>1. CASE count <= 1
      <4>1. MovingVariance = Zero /\ Variance(c) = Zero
        BY <2>2, <3>1 DEF MovingVariance, Variance, Covariance
      <4> QED BY <4>1 DEF Same
    <3>2. CASE ~ (count <= 1)
      <4>1. count # 0
        BY <3>2
      <4>2. MovingMean = <<sum, count>>
        BY <4>1 DEF MovingMean
      <4>3. MovingVariance
              = <<(sum_sq * (count * count) - (sum * sum) * count) * count,
                  (count * (count * count)) * (count - 1)>>
        BY <3>2, <4>2 DEF MovingVariance, Mul, Sub
      <4>4. Variance(c) = <<count * (count * sum_sq - sum * sum),
                            (count * count) * (count - 1)>>
        BY <2>2, <2>4, <3>2 DEF Variance, Covariance
      <4>5. (((sum_sq * (count * count) - (sum * sum) * count) * count)
                * ((count * count) * (count - 1)))
              = (count * (count * sum_sq - sum * sum))
                * ((count * (count * count)) * (count - 1))
        BY <2>2, <2>3, VarianceIdentity
      <4> QED BY <4>3, <4>4, <4>5 DEF Same
    <3> QED BY <3>1, <3>2
  <2> QED BY <2>6, <2>7 DEF c
<1> QED BY <1>1, <1>2 DEF MovingAgreesWithBatch

(* No step of the three programs loses the sums.                           *)
LEMMA SumsStep ==
    ASSUME Shape, SumsKept, [SamplingNext]_samplingVars PROVE SumsKept'
<1>1. CASE UNCHANGED msVars
  <2>1. UNCHANGED <<dirty, size, sum, sum_sq, Contents>>
    BY <1>1 DEF msVars, Contents, Slot
  <2> QED BY <2>1 DEF SumsKept
<1>2. CASE OpenWindow
  <2>1. PICK n \in 1 .. MaxSize : Create(n)
    BY <1>2 DEF OpenWindow
  <2> QED BY <2>1, SumsCreate
<1>3. CASE CloseWindow
  BY <1>3, SumsDestroy DEF CloseWindow
<1>4. CASE Watch
  <2>1. PICK v \in Value : Add(v)
    BY <1>4 DEF Watch
  <2> QED BY <2>1, SumsAdd
<1>5. DrawPair \/ AskMedian \/ DrawNumber \/ UNCHANGED samplingVars => UNCHANGED msVars
  BY DEF DrawPair, AskMedian, DrawNumber, samplingVars
<1> QED BY <1>1, <1>2, <1>3, <1>4, <1>5 DEF SamplingNext

(* For every window and every stream of observations: the running sums     *)
(* give the mean and the variance of exactly what the window holds, until  *)
(* an infinite or undefined observation spoils them for good.              *)
THEOREM MovingAgreesHolds == SamplingSpec => []MovingAgreesWithBatch
<1>1. SamplingInit => Shape /\ SumsKept
  BY ShapeInit, SumsInit DEF SamplingInit
<1>2. Shape /\ SumsKept /\ [SamplingNext]_samplingVars => Shape' /\ SumsKept'
  BY ObjectStep, SumsStep
<1>3. Shape /\ SumsKept => MovingAgreesWithBatch
  BY MovingAgrees
<1> QED BY <1>1, <1>2, <1>3, PTL DEF SamplingSpec

-----------------------------------------------------------------------------
(* The statistics of a whole array.                                        *)

(* The order statistics agree, whatever the data.                          *)
LEMMA OrderStatisticsHold ==
    ASSUME NEW a \in Seq(Int) PROVE OrderStatisticsAgree(a)
<1>1. CASE a = <<>>
  <2>1. /\ Median(a) = Zero /\ MinOf(a) = Zero /\ MaxOf(a) = Zero
        /\ \A p : Percentile(a, p) = Zero
    BY <1>1 DEF Median, MinOf, MaxOf, Percentile
  <2>2. \A q \in 1 .. 3 : Quartile(a, q) = Zero
    BY <2>1 DEF Quartile
  <2>3. Range2(a) = <<0, 1>> /\ Iqr(a) = <<0, 1>>
    BY <2>1, <2>2 DEF Range2, Iqr, Sub, Zero
  <2>4. ToSet(a) = {} /\ Mode(a) = [mode |-> 0, count |-> 0]
    BY <1>1 DEF ToSet, Mode
  <2>5. Occurrences(a, 0) = 0
    <3>1. {j \in DOMAIN a : a[j] = 0} = {}
      BY <1>1
    <3> QED BY <3>1, FS_EmptySet DEF Occurrences
  <2>6. Same(Zero, Zero) /\ ~ Less(Zero, Zero)
    BY DEF Same, Less, Zero
  <2>7. \A q \in 1 .. 2 : q \in 1 .. 3 /\ q + 1 \in 1 .. 3
    OBVIOUS
  <2>8. <<0, 1>> = Zero
    BY DEF Zero
  <2>9. /\ Same(Median(a), Percentile(a, 50)) /\ Same(MinOf(a), Percentile(a, 0))
        /\ Same(MaxOf(a), Percentile(a, 100))
    BY <2>1, <2>6
  <2>10. \A q \in 1 .. 2 : ~ Less(Quartile(a, q + 1), Quartile(a, q))
    BY <2>2, <2>6, <2>7
  <2>11. ~ Less(Range2(a), Iqr(a)) /\ ~ Less(Iqr(a), Zero)
    BY <2>3, <2>6, <2>8
  <2>12. /\ Mode(a).count = Occurrences(a, Mode(a).mode)
         /\ \A v \in ToSet(a) : Occurrences(a, v) <= Mode(a).count
    BY <2>4, <2>5
  <2> QED BY <2>9, <2>10, <2>11, <2>12 DEF OrderStatisticsAgree
<1>2. CASE a # <<>>
  <2> DEFINE P(p) == Percentile(a, p)
  <2>1. PICK h \in Int : Hundredths(Median(a), h) /\ Hundredths(P(50), h)
    BY <1>2, MedianLevel
  <2>2. PICK i \in Int : Hundredths(MinOf(a), i) /\ Hundredths(P(0), i)
    BY <1>2, ExtremeLevels
  <2>3. PICK j \in Int : Hundredths(MaxOf(a), j) /\ Hundredths(P(100), j)
    BY <1>2, ExtremeLevels
  <2>4. PICK g \in Int, g2 \in Int : g <= g2 /\ Hundredths(P(25), g) /\ Hundredths(P(50), g2)
    <3>1. 25 \in 0 .. 100 /\ 50 \in 0 .. 100 /\ 25 <= 50
      OBVIOUS
    <3> QED BY <1>2, <3>1, PercentilesAscend
  <2>5. PICK k \in Int, h2 \in Int : h2 <= k /\ Hundredths(P(50), h2) /\ Hundredths(P(75), k)
    <3>1. 75 \in 0 .. 100 /\ 50 \in 0 .. 100 /\ 50 <= 75
      OBVIOUS
    <3> QED BY <1>2, <3>1, PercentilesAscend
  <2>6. PICK i2 \in Int, g3 \in Int : i2 <= g3 /\ Hundredths(P(0), i2) /\ Hundredths(P(25), g3)
    <3>1. 25 \in 0 .. 100 /\ 0 \in 0 .. 100 /\ 0 <= 25
      OBVIOUS
    <3> QED BY <1>2, <3>1, PercentilesAscend
  <2>7. PICK k2 \in Int, j2 \in Int : k2 <= j2 /\ Hundredths(P(75), k2) /\ Hundredths(P(100), j2)
    <3>1. 75 \in 0 .. 100 /\ 100 \in 0 .. 100 /\ 75 <= 100
      OBVIOUS
    <3> QED BY <1>2, <3>1, PercentilesAscend
  <2> HIDE DEF P
  <2>8. g2 = h /\ h2 = h /\ i2 = i /\ g3 = g /\ k2 = k /\ j2 = j
    BY <2>1, <2>2, <2>3, <2>4, <2>5, <2>6, <2>7, HundredthsAreUnique
  <2>9. i <= g /\ g <= h /\ h <= k /\ k <= j
    BY <2>4, <2>5, <2>6, <2>7, <2>8
  <2>10. Quartile(a, 1) = P(25) /\ Quartile(a, 2) = Median(a) /\ Quartile(a, 3) = P(75)
    BY DEF Quartile, P
  <2>11. /\ Same(Median(a), P(50)) /\ Same(MinOf(a), P(0)) /\ Same(MaxOf(a), P(100))
    BY <2>1, <2>2, <2>3, HundredthsCompared
  <2>12. \A q \in 1 .. 2 : ~ Less(Quartile(a, q + 1), Quartile(a, q))
    <3>1. ~ Less(Quartile(a, 2), Quartile(a, 1))
      BY <2>1, <2>4, <2>9, <2>10, HundredthsCompared
    <3>2. ~ Less(Quartile(a, 3), Quartile(a, 2))
      BY <2>1, <2>5, <2>9, <2>10, HundredthsCompared
    <3>3. \A q \in 1 .. 2 : (q = 1 /\ q + 1 = 2) \/ (q = 2 /\ q + 1 = 3)
      OBVIOUS
    <3> QED BY <3>1, <3>2, <3>3
  <2>13. Hundredths(Range2(a), j - i)
    BY <2>2, <2>3, HundredthsCompared DEF Range2
  <2>14. Hundredths(Iqr(a), k - g)
    BY <2>4, <2>5, <2>10, HundredthsCompared DEF Iqr
  <2>15. Hundredths(Zero, 0)
    BY DEF Hundredths, Zero
  <2>16. k - g <= j - i /\ 0 <= k - g /\ k - g \in Int /\ j - i \in Int
    BY <2>9
  <2>17. ~ Less(Range2(a), Iqr(a))
    <3> DEFINE d == k - g
               e == j - i
    <3>1. Hundredths(Range2(a), e) /\ Hundredths(Iqr(a), d) /\ d <= e
      BY <2>13, <2>14, <2>16
    <3> HIDE DEF d, e
    <3> QED BY <3>1, HundredthsCompared
  <2>18. ~ Less(Iqr(a), Zero)
    <3> DEFINE d == k - g
    <3>1. Hundredths(Iqr(a), d) /\ 0 <= d
      BY <2>14, <2>16
    <3> HIDE DEF d
    <3> QED BY <2>15, <3>1, HundredthsCompared
  <2>19. /\ Mode(a).count = Occurrences(a, Mode(a).mode)
         /\ \A v \in ToSet(a) : Occurrences(a, v) <= Mode(a).count
    BY <1>2, ModeHolds
  <2> QED BY <2>11, <2>12, <2>17, <2>18, <2>19 DEF OrderStatisticsAgree, P
<1> QED BY <1>1, <1>2

(* One more element is one more occurrence of its value.                   *)
LEMMA OccurrencesOfAppend ==
    ASSUME NEW a \in Seq(Int), NEW v \in Int, NEW w \in Int
    PROVE  Occurrences(Append(a, v), w) = Occurrences(a, w) + IF v = w THEN 1 ELSE 0
<1> DEFINE n == Len(a)
           b == Append(a, v)
           S == {j \in 1 .. n : a[j] = w}
           U == {j \in 1 .. n + 1 : b[j] = w}
<1>1. /\ b \in Seq(Int) /\ Len(b) = n + 1 /\ n \in Nat
      /\ DOMAIN a = 1 .. n /\ DOMAIN b = 1 .. n + 1
      /\ \A i \in 1 .. n : b[i] = a[i]
      /\ b[n + 1] = v
  BY AppendProperties
<1>2. Occurrences(a, w) = Cardinality(S) /\ Occurrences(b, w) = Cardinality(U)
  BY <1>1 DEF Occurrences
<1>3. S \in SUBSET (1 .. n)
  OBVIOUS
<1> HIDE DEF b, n
<1>4. \A j \in 1 .. n + 1 : j \in 1 .. n \/ j = n + 1
  BY <1>1
<1>5. \A j \in 1 .. n : j \in 1 .. n + 1
  BY <1>1
<1>6. n + 1 \notin S /\ n + 1 \in 1 .. n + 1
  BY <1>1
<1>7. U = IF v = w THEN S \union {n + 1} ELSE S
  BY <1>1, <1>4, <1>5, <1>6
<1> HIDE DEF S, U
<1>8. IsFiniteSet(S) /\ Cardinality(S) \in Nat
  BY <1>1, <1>3, Counting
<1>9. Cardinality(S \union {n + 1}) = Cardinality(S) + 1
  BY <1>6, <1>8, FS_AddElement
<1> QED BY <1>2, <1>7, <1>8, <1>9 DEF b

(* The first numbers of the pairs drawn.                                   *)
Firsts(d) == [i \in 1 .. Len(d) |-> d[i][1]]

(* A pair that is drawn adds its first number to the end of the firsts.    *)
LEMMA FirstsOfAppend ==
    ASSUME NEW d \in Seq(Int \X Int), NEW p \in Int \X Int
    PROVE  /\ Firsts(d) \in Seq(Int) /\ Len(Firsts(d)) = Len(d)
           /\ Firsts(Append(d, p)) = Append(Firsts(d), p[1])
<1> DEFINE n == Len(d)
           b == Append(d, p)
           f == Firsts(d)
           g == Firsts(b)
           h == Append(f, p[1])
<1>1. /\ b \in Seq(Int \X Int) /\ Len(b) = n + 1 /\ n \in Nat /\ n = Len(d)
      /\ \A i \in 1 .. n : b[i] = d[i] /\ d[i] \in Int \X Int
      /\ b[n + 1] = p
  BY AppendProperties
<1>2. f \in [1 .. n -> Int] /\ \A i \in 1 .. n : f[i] = d[i][1]
  BY <1>1 DEF Firsts
<1> HIDE DEF n, b
<1>3. \A i \in 1 .. n + 1 : i \in 1 .. n \/ i = n + 1
  BY <1>1
<1>4. g \in [1 .. n + 1 -> Int] /\ \A i \in 1 .. n + 1 : g[i] = b[i][1]
  BY <1>1, <1>3 DEF Firsts
<1> HIDE DEF f, g
<1>5. f \in Seq(Int) /\ Len(f) = n
  BY <1>1, <1>2, IsArray
<1>6. g \in Seq(Int) /\ Len(g) = n + 1
  <2>1. n + 1 \in Nat
    BY <1>1
  <2> QED BY <1>4, <2>1, IsArray
<1>7. /\ h \in Seq(Int) /\ Len(h) = n + 1 /\ h[n + 1] = p[1]
      /\ \A i \in 1 .. n : h[i] = f[i]
  BY <1>5, AppendProperties
<1> HIDE DEF h
<1>8. \A i \in 1 .. n + 1 : g[i] = h[i]
  <2>1. \A i \in 1 .. n : i \in 1 .. n + 1
    BY <1>1
  <2>2. n + 1 \in 1 .. n + 1
    BY <1>1
  <2>3. \A i \in 1 .. n : g[i] = h[i]
    BY <1>1, <1>2, <1>4, <1>7, <2>1
  <2>4. g[n + 1] = h[n + 1]
    BY <1>1, <1>4, <1>7, <2>2
  <2> QED BY <1>3, <2>3, <2>4
<1>9. g = h
  BY <1>6, <1>7, <1>8, SeqEqual
<1> QED BY <1>1, <1>5, <1>9 DEF f, g, h, b

(* The arrays hold what was drawn, in some order.                          *)
ArraysKept ==
    /\ x \in Seq(Lo .. Hi + 1) /\ y \in Seq(Lo .. Hi + 1) /\ drawn \in Seq(Int \X Int)
    /\ Len(x) = Len(y) /\ Len(x) = Len(drawn)
    /\ \A w \in Int : Occurrences(x, w) = Occurrences(Firsts(drawn), w)

(* Sequences over a smaller set.                                           *)
LEMMA WiderSeq ==
    ASSUME NEW T, NEW U, T \subseteq U, NEW s \in Seq(T)
    PROVE  s \in Seq(U)
  OBVIOUS

(* The numbers the model watches are integers.                             *)
LEMMA InRangeIsInt ==
    /\ Lo .. Hi + 1 \subseteq Int
    /\ \A a \in Seq(Lo .. Hi + 1) : a \in Seq(Int)
<1> DEFINE R == Lo .. Hi + 1
           Z == Int
<1>1. R \subseteq Z
  BY BoundsAssumption
<1> HIDE DEF R, Z
<1>2. \A a \in Seq(R) : a \in Seq(Z)
  BY <1>1, WiderSeq
<1> QED BY <1>1, <1>2 DEF R, Z

(* Nothing is drawn at first.                                              *)
LEMMA ArraysInit == SamplingInit => ArraysKept
<1>1. SamplingInit => x = <<>> /\ y = <<>> /\ drawn = <<>>
  BY DEF SamplingInit
<1>2. Firsts(<<>>) = <<>>
  BY DEF Firsts
<1>3. <<>> \in Seq(Lo .. Hi + 1) /\ <<>> \in Seq(Int \X Int)
  OBVIOUS
<1> QED BY <1>1, <1>2, <1>3 DEF ArraysKept

(* A pair drawn is one more element of each.                               *)
LEMMA ArraysDraw ==
    ASSUME ArraysKept, DrawPair PROVE ArraysKept'
<1>1. PICK o \in UniformInts(Lo, Hi), q \in UniformInts(Lo, Hi) :
          /\ x' = Append(x, o.value) /\ y' = Append(y, q.value)
          /\ drawn' = Append(drawn, <<o.value, q.value>>)
  BY DEF DrawPair
<1> DEFINE u == o.value
           v == q.value
           p == <<u, v>>
<1>2. u \in Lo .. Hi + 1 /\ v \in Lo .. Hi + 1 /\ u \in Int /\ v \in Int
  BY UniformIntsStray, BoundsAssumption, InRangeIsInt
<1>3. x' = Append(x, u) /\ y' = Append(y, v) /\ drawn' = Append(drawn, p)
  BY <1>1
<1> HIDE DEF u, v
<1>4. p \in Int \X Int /\ p[1] = u
  BY <1>2
<1> HIDE DEF p
<1> DEFINE R == Lo .. Hi + 1
<1>5. /\ x \in Seq(R) /\ y \in Seq(R) /\ u \in R /\ v \in R /\ drawn \in Seq(Int \X Int)
      /\ Len(x) = Len(y) /\ Len(x) = Len(drawn)
  BY <1>2 DEF ArraysKept
<1>6. x \in Seq(Int) /\ R \subseteq Int
  BY <1>5, InRangeIsInt
<1> HIDE DEF R
<1>7. /\ x' \in Seq(R) /\ Len(x') = Len(x) + 1
      /\ y' \in Seq(R) /\ Len(y') = Len(y) + 1
      /\ drawn' \in Seq(Int \X Int) /\ Len(drawn') = Len(drawn) + 1
  <2>1. x' \in Seq(R) /\ Len(x') = Len(x) + 1
    BY <1>3, <1>5, AppendProperties
  <2>2. y' \in Seq(R) /\ Len(y') = Len(y) + 1
    BY <1>3, <1>5, AppendProperties
  <2>3. drawn' \in Seq(Int \X Int) /\ Len(drawn') = Len(drawn) + 1
    BY <1>3, <1>4, <1>5, AppendProperties
  <2> QED BY <2>1, <2>2, <2>3
<1>8. ASSUME NEW w \in Int
      PROVE  Occurrences(x', w) = Occurrences(Firsts(drawn'), w)
  <2>1. /\ Firsts(drawn) \in Seq(Int) /\ Firsts(drawn') = Append(Firsts(drawn), u)
    BY <1>3, <1>4, <1>5, FirstsOfAppend
  <2>2. Occurrences(x', w) = Occurrences(x, w) + IF u = w THEN 1 ELSE 0
    BY <1>2, <1>3, <1>6, OccurrencesOfAppend
  <2>3. Occurrences(Firsts(drawn'), w)
          = Occurrences(Firsts(drawn), w) + IF u = w THEN 1 ELSE 0
    BY <1>2, <2>1, OccurrencesOfAppend
  <2>4. Occurrences(x, w) = Occurrences(Firsts(drawn), w)
    BY DEF ArraysKept
  <2> QED BY <2>2, <2>3, <2>4
<1> QED BY <1>5, <1>7, <1>8 DEF ArraysKept, R

(* Sorting for the median reorders x and nothing else.                     *)
LEMMA ArraysSort ==
    ASSUME ArraysKept, AskMedian PROVE ArraysKept'
<1>1. x' = Sorted(x) /\ y' = y /\ drawn' = drawn
  BY DEF AskMedian
<1> DEFINE R == Lo .. Hi + 1
<1>2. x \in Seq(R) /\ x \in Seq(Int) /\ R \subseteq Int
  BY InRangeIsInt DEF ArraysKept
<1> HIDE DEF R
<1>3. Sorted(x) \in Seq(ToSet(x)) /\ Len(Sorted(x)) = Len(x)
  BY <1>2, SortedRanks
<1>4. ToSet(x) \subseteq R
  BY <1>2 DEF ToSet
<1>5. x' \in Seq(R)
  BY <1>1, <1>3, <1>4, WiderSeq
<1>6. \A w \in Int : Occurrences(x', w) = Occurrences(x, w)
  BY <1>1, <1>2, SortedKeeps
<1> QED BY <1>1, <1>3, <1>5, <1>6 DEF ArraysKept, R

(* No other step touches the arrays.                                       *)
LEMMA ArraysStep ==
    ASSUME ArraysKept, [SamplingNext]_samplingVars PROVE ArraysKept'
<1>1. OpenWindow \/ CloseWindow \/ Watch \/ DrawNumber \/ UNCHANGED samplingVars
          => UNCHANGED <<x, y, drawn>>
  BY DEF OpenWindow, CloseWindow, Watch, DrawNumber, samplingVars, arrays
<1>2. UNCHANGED <<x, y, drawn>> => ArraysKept'
  BY DEF ArraysKept
<1> QED BY <1>1, <1>2, ArraysDraw, ArraysSort DEF SamplingNext

(* What is kept is enough for the statistics to agree.                     *)
LEMMA BatchAgrees == ASSUME ArraysKept PROVE BatchFormulasAgree
<1>1. x \in Seq(Int) /\ y \in Seq(Int) /\ Len(y) = Len(x) /\ drawn \in Seq(Int \X Int)
  BY InRangeIsInt DEF ArraysKept
<1>2. OrderStatisticsAgree(x)
  BY <1>1, OrderStatisticsHold
<1>3. RegressionAgrees(x, y)
  BY <1>1, RegressionHolds
<1>4. ASSUME NEW a \in ToSet(x) \union {d[1] : d \in ToSet(drawn)}
      PROVE  Occurrences(x, a) = Cardinality({i \in DOMAIN drawn : drawn[i][1] = a})
  <2>1. a \in Int
    <3>1. \A d \in ToSet(drawn) : d \in Int \X Int
      BY <1>1 DEF ToSet
    <3>2. ToSet(x) \subseteq Int
      BY <1>1 DEF ToSet
    <3> QED BY <3>1, <3>2
  <2>2. Occurrences(x, a) = Occurrences(Firsts(drawn), a)
    BY <2>1 DEF ArraysKept
  <2>3. {i \in DOMAIN Firsts(drawn) : Firsts(drawn)[i] = a}
          = {i \in DOMAIN drawn : drawn[i][1] = a}
    <3>1. DOMAIN drawn = 1 .. Len(drawn) /\ DOMAIN Firsts(drawn) = 1 .. Len(drawn)
      BY <1>1 DEF Firsts
    <3> QED BY <3>1 DEF Firsts
  <2> QED BY <2>2, <2>3 DEF Occurrences
<1> QED BY <1>2, <1>3, <1>4 DEF BatchFormulasAgree

(* For all data: the order statistics agree with each other, the           *)
(* regression line has the slope of covariance and variance and runs       *)
(* through the means, the squared correlation is at most 1, and sorting    *)
(* the array, which asking for the median does, loses no observation.      *)
THEOREM BatchFormulasHold == SamplingSpec => []BatchFormulasAgree
<1>1. ArraysKept /\ [SamplingNext]_samplingVars => ArraysKept'
  BY ArraysStep
<1>2. ArraysKept => BatchFormulasAgree
  BY BatchAgrees
<1> QED BY ArraysInit, <1>1, <1>2, PTL DEF SamplingSpec

-----------------------------------------------------------------------------
LastKept == last.sampler \in Kinds \union {"uniform_int", "between", "none"}

(* Only DrawNumber names a sampler, and one there is.                      *)
LEMMA LastStep ==
    ASSUME LastKept, [SamplingNext]_samplingVars PROVE LastKept'
<1>1. CASE DrawNumber
  <2>1. \A kind, bounds, extreme, o : Called(kind, bounds, extreme, o).sampler = kind
    BY DEF Called
  <2>2. \A c \in RealCalls : c.sampler \in Kinds
    BY <2>1 DEF RealCalls
  <2>3. \A c \in BoundedCalls : c.sampler \in {"uniform_int", "between"}
    <3>1. ASSUME NEW c \in BoundedCalls
          PROVE  \/ \E a \in Bounds, b \in Bounds : c \in UniformCalls(a, b)
                 \/ \E a \in Bounds, mode \in Bounds, b \in Bounds :
                        c \in BetweenCalls(a, mode, b)
      BY <3>1 DEF BoundedCalls
    <3>2. ASSUME NEW a, NEW b, NEW c \in UniformCalls(a, b)
          PROVE  c.sampler = "uniform_int"
      <4>1. PICK o \in UniformInts(a, b) : c = Called("uniform_int", <<a, b>>, FALSE, o)
        BY DEF UniformCalls
      <4> QED BY <4>1 DEF Called
    <3>3. ASSUME NEW a, NEW mode, NEW b, NEW c \in BetweenCalls(a, mode, b)
          PROVE  c.sampler = "between"
      <4>1. PICK o \in Triangulars(a, mode, b) : c = Called("between", <<a, b>>, FALSE, o)
        BY DEF BetweenCalls
      <4> QED BY <4>1 DEF Called
    <3> QED BY <3>1, <3>2, <3>3
  <2> QED BY <1>1, <2>2, <2>3 DEF DrawNumber, LastKept
<1>2. DrawPair \/ AskMedian \/ OpenWindow \/ CloseWindow \/ Watch
          \/ UNCHANGED samplingVars => UNCHANGED last
  BY DEF DrawPair, AskMedian, OpenWindow, CloseWindow, Watch, samplingVars
<1>3. UNCHANGED last => LastKept'
  BY DEF LastKept
<1> QED BY <1>1, <1>2, <1>3 DEF SamplingNext

(* For every range, window and stream: the window is read where it was     *)
(* written, the arrays keep one length and their integers stay in min ..   *)
(* max + 1, through drawing and sorting, and the sums are doubles.         *)
THEOREM SamplingTypes == SamplingSpec => []SamplingTypeOK
<1> DEFINE I == Shape /\ SumsKept /\ ArraysKept /\ LastKept
<1>1. SamplingInit => I
  <2>1. SamplingInit => LastKept
    BY DEF SamplingInit, Nothing, Called, LastKept
  <2> QED BY <2>1, ShapeInit, SumsInit, ArraysInit DEF SamplingInit
<1>2. I /\ [SamplingNext]_samplingVars => I'
  BY ObjectStep, SumsStep, ArraysStep, LastStep
<1>3. ASSUME I PROVE SamplingTypeOK
  <2>1. {sum, sum_sq} \subseteq Int \union Special
    <3>1. ~ dirty => sum \in Int /\ sum_sq \in Int
      BY <1>3, TotalIsInt, PairwiseIsArray DEF SumsKept
    <3> QED BY <1>3, <3>1 DEF SumsKept
  <2>2. WindowOK
    BY <1>3, <2>1 DEF Shape, SumsKept, WindowOK
  <2> QED BY <1>3, <2>2 DEF Shape, ArraysKept, LastKept, SamplingTypeOK
<1> HIDE DEF I
<1> QED BY <1>1, <1>2, <1>3, PTL DEF SamplingSpec
=============================================================================
