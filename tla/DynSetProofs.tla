---------------------------- MODULE DynSetProofs ----------------------------
(***************************************************************************)
(* Proofs about DynSet, for any handles, keys, copies and capacities: the  *)
(* arrays never hold two equal elements, so that they implement sets of    *)
(* keys, and every element has one owner.                                  *)
(***************************************************************************)
EXTENDS DynSet, SeqLemmas, FiniteSetTheorems

(* No two elements of a set are equal.                                     *)
DistinctKeys(s) ==
    \A i, j \in DOMAIN s.elements :
        KeyOf(s.elements[i]) = KeyOf(s.elements[j]) => i = j

(* The sets as the operations leave them.                                  *)
SoundSet ==
    {s \in SetRecord : Len(s.elements) <= s.capacity /\ DistinctKeys(s)}

(* The keys of those of es that are wanted, among the first i.             *)
WantedKeys(es, wanted, i) ==
    {KeyOf(es[j]) : j \in {k \in 1 .. i : es[k] \in wanted}}

-----------------------------------------------------------------------------
(* What the operations on one set do.                                      *)

LEMMA ElementFacts ==
    /\ \A e \in Element : KeyOf(e) \in Key
    /\ \A s \in SoundSet : s \in SetRecord
    /\ \A s \in SetRecord : /\ s.elements \in Seq(Element) /\ s.frees \in BOOLEAN
                            /\ s.capacity \in Nat \ {0}
                            /\ DOMAIN s.elements = 1 .. Len(s.elements)
                            /\ Len(s.elements) \in Nat
                            /\ \A i \in 1 .. Len(s.elements) : s.elements[i] \in Element
                            /\ KeysOf(s) \in SUBSET Key
  BY DEF Element, KeyOf, SoundSet, SetRecord, KeysOf

(* find_element finds an element of that key exactly if there is one.      *)
LEMMA FindElementFinds ==
    ASSUME NEW s \in SetRecord, NEW e
    PROVE  /\ HasElement(s, e) <=> KeyOf(e) \in KeysOf(s)
           /\ HasElement(s, e) =>
                /\ FindElement(s, e) \in DOMAIN s.elements
                /\ KeyOf(s.elements[FindElement(s, e)]) = KeyOf(e)
<1> DEFINE Found == {i \in 1 .. Len(s.elements) : KeyOf(s.elements[i]) = KeyOf(e)}
<1>1. FindElement(s, e) = IF Found # {} THEN Min(Found) ELSE 0
  BY DEF FindElement, SelectInSeq
<1>2. Found \in SUBSET Nat /\ 0 \notin Found
  OBVIOUS
<1>3. Found # {} <=> KeyOf(e) \in KeysOf(s)
  BY ElementFacts DEF KeysOf
<1>4. Found # {} => Min(Found) \in Found
  <2> HIDE DEF Found
  <2>1. Found # {} => \E m \in Found : \A k \in Found : m <= k
    BY <1>2, LeastNatural
  <2> QED BY <2>1 DEF Min
<1>5. Found \subseteq DOMAIN s.elements /\ \A i \in Found : KeyOf(s.elements[i]) = KeyOf(e)
  BY ElementFacts
<1> HIDE DEF Found
<1> QED BY <1>1, <1>2, <1>3, <1>4, <1>5 DEF HasElement

(* set_add keeps a set sound and adds the key of e to its keys.            *)
LEMMA AddToAdds ==
    ASSUME NEW s \in SoundSet, NEW e \in Element
    PROVE  /\ AddTo(s, e) \in SoundSet
           /\ AddTo(s, e).frees = s.frees
           /\ KeysOf(AddTo(s, e)) = KeysOf(s) \union {KeyOf(e)}
           /\ HasElement(s, e) => AddTo(s, e) = s
           /\ ~ HasElement(s, e) => AddTo(s, e).elements = Append(s.elements, e)
<1>1. s \in SetRecord /\ DistinctKeys(s) /\ Len(s.elements) <= s.capacity
  BY DEF SoundSet
<1>2. CASE HasElement(s, e)
  <2>1. AddTo(s, e) = s
    BY <1>2 DEF AddTo
  <2> QED BY <1>1, <1>2, <2>1, FindElementFinds
<1>3. CASE ~ HasElement(s, e)
  <2> DEFINE q == Append(s.elements, e)
             c == IF Len(s.elements) >= s.capacity
                  THEN GrowthFactor * s.capacity ELSE s.capacity
  <2>1. AddTo(s, e) = [s EXCEPT !.elements = q, !.capacity = c]
    BY <1>3 DEF AddTo
  <2>2. /\ AddTo(s, e) = [elements |-> q, capacity |-> c, frees |-> s.frees]
    BY <1>1, <2>1 DEF SetRecord
  <2>3. /\ q \in Seq(Element) /\ Len(q) = Len(s.elements) + 1
        /\ \A i \in 1 .. Len(s.elements) : q[i] = s.elements[i]
        /\ q[Len(s.elements) + 1] = e
        /\ DOMAIN q = 1 .. Len(s.elements) + 1
    BY <1>1, ElementFacts, AppendProperties
  <2>4. c \in Nat \ {0} /\ Len(q) <= c
    <3>1. s.capacity \in Nat \ {0} /\ Len(s.elements) \in Nat
      BY <1>1, ElementFacts
    <3>2. GrowthFactor * s.capacity \in Nat /\ GrowthFactor * s.capacity >= 2 * s.capacity
      <4>1. GrowthFactor \in Nat /\ GrowthFactor >= 2
        BY SetAssumption
      <4>2. \A g, x \in Nat : g >= 2 => g * x \in Nat /\ g * x >= 2 * x
        OBVIOUS
      <4> QED BY <3>1, <4>1, <4>2
    <3> QED BY <1>1, <2>3, <3>1, <3>2
  <2> HIDE DEF q, c
  <2>5. \A i \in 1 .. Len(s.elements) : KeyOf(s.elements[i]) # KeyOf(e)
    BY <1>1, <1>3, FindElementFinds, ElementFacts DEF KeysOf
  <2>6. \A i, j \in DOMAIN q : KeyOf(q[i]) = KeyOf(q[j]) => i = j
    <3>1. \A i, j \in 1 .. Len(s.elements) :
             KeyOf(s.elements[i]) = KeyOf(s.elements[j]) => i = j
      BY <1>1, ElementFacts DEF DistinctKeys
    <3>2. \A i \in DOMAIN q : i \in 1 .. Len(s.elements) \/ i = Len(s.elements) + 1
      BY <1>1, <2>3, ElementFacts
    <3> QED BY <2>3, <2>5, <3>1, <3>2
  <2>7. KeysOf(AddTo(s, e)) = KeysOf(s) \union {KeyOf(e)}
    <3>1. KeysOf(AddTo(s, e)) = {KeyOf(q[i]) : i \in DOMAIN q}
      BY <2>2 DEF KeysOf
    <3>2. KeysOf(s) = {KeyOf(s.elements[i]) : i \in 1 .. Len(s.elements)}
      BY <1>1, ElementFacts DEF KeysOf
    <3>3. DOMAIN q = 1 .. Len(s.elements) \union {Len(s.elements) + 1}
      BY <1>1, <2>3, ElementFacts
    <3> QED BY <2>3, <3>1, <3>2, <3>3
  <2>8. AddTo(s, e) \in SoundSet
    <3>1. AddTo(s, e) \in SetRecord
      BY <1>1, <2>2, <2>3, <2>4, ElementFacts DEF SetRecord
    <3> QED BY <2>2, <2>4, <2>6, <3>1 DEF SoundSet, DistinctKeys
  <2>9. AddTo(s, e).frees = s.frees /\ AddTo(s, e).elements = Append(s.elements, e)
    BY <2>2 DEF q
  <2> QED BY <1>3, <2>7, <2>8, <2>9
<1> QED BY <1>2, <1>3

(* The loop of a derived set has a value after every turn.                 *)
LEMMA CollectingIsALoop ==
    ASSUME NEW s \in SoundSet, NEW es \in Seq(Element), NEW wanted
    PROVE  /\ Collecting(s, es, wanted)[0] = s
           /\ \A i \in 1 .. Len(es) :
                Collecting(s, es, wanted)[i] =
                    IF es[i] \in wanted
                    THEN AddTo(Collecting(s, es, wanted)[i - 1], es[i])
                    ELSE Collecting(s, es, wanted)[i - 1]
<1> DEFINE g == [i \in 1 .. Len(es) |-> [t \in SoundSet |->
                    IF es[i] \in wanted THEN AddTo(t, es[i]) ELSE t]]
           IsLoop(f) == f = [i \in 0 .. Len(es) |->
                               IF i = 0 THEN s
                               ELSE IF es[i] \in wanted
                                    THEN AddTo(f[i - 1], es[i]) ELSE f[i - 1]]
<1>1. g \in [1 .. Len(es) -> [SoundSet -> SoundSet]]
  <2>1. \A i \in 1 .. Len(es), t \in SoundSet :
           (IF es[i] \in wanted THEN AddTo(t, es[i]) ELSE t) \in SoundSet
    BY AddToAdds
  <2> QED BY <2>1
<1>2. PICK f : IsRun(f, SoundSet, Len(es), s, g)
  <2> HIDE DEF g
  <2>1. Len(es) \in Nat
    OBVIOUS
  <2> QED BY <1>1, <2>1, LoopExists
<1>3. IsLoop(f)
  <2>1. \A i \in 1 .. Len(es) :
           g[i][f[i - 1]] = IF es[i] \in wanted THEN AddTo(f[i - 1], es[i]) ELSE f[i - 1]
    <3>1. \A i \in 1 .. Len(es) : f[i - 1] \in SoundSet
      BY <1>2 DEF IsRun
    <3> QED BY <3>1
  <2>2. \A i \in 0 .. Len(es) : i # 0 => i \in 1 .. Len(es)
    OBVIOUS
  <2> HIDE DEF g
  <2> QED BY <1>2, <2>1, <2>2 DEF IsRun
<1>4. Collecting(s, es, wanted) = CHOOSE r : IsLoop(r)
  BY DEF Collecting
<1> DEFINE c == Collecting(s, es, wanted)
<1>5. IsLoop(c)
  <2> HIDE DEF IsLoop
  <2>1. \E r : IsLoop(r)
    BY <1>3
  <2> QED BY <1>4, <2>1
<1> HIDE DEF c
<1>6. \A i \in 1 .. Len(es) : i \in 0 .. Len(es) /\ i # 0
  OBVIOUS
<1>7. 0 \in 0 .. Len(es)
  OBVIOUS
<1>8. /\ c[0] = s
      /\ \A i \in 1 .. Len(es) :
            c[i] = IF es[i] \in wanted THEN AddTo(c[i - 1], es[i]) ELSE c[i - 1]
  BY <1>5, <1>6, <1>7
<1> QED BY <1>8 DEF c

(* Appending an element adds it to those a sequence holds.                 *)
LEMMA AppendToSet ==
    ASSUME NEW S, NEW q \in Seq(S), NEW e \in S
    PROVE  ToSet(Append(q, e)) = ToSet(q) \union {e}
<1>1. /\ DOMAIN q = 1 .. Len(q) /\ Len(q) \in Nat
      /\ DOMAIN Append(q, e) = 1 .. Len(q) + 1
      /\ \A k \in 1 .. Len(q) : Append(q, e)[k] = q[k]
      /\ Append(q, e)[Len(q) + 1] = e
  BY AppendProperties
<1>2. \A k \in 1 .. Len(q) + 1 : k \in 1 .. Len(q) \/ k = Len(q) + 1
  BY <1>1
<1>3. \A k \in 1 .. Len(q) : k \in 1 .. Len(q) + 1
  BY <1>1
<1> QED BY <1>1, <1>2, <1>3 DEF ToSet

(* c is s with the wanted elements among the first i of es added.          *)
Collected(c, s, es, wanted, i) ==
    /\ c \in SoundSet
    /\ c.frees = s.frees
    /\ KeysOf(c) = KeysOf(s) \union WantedKeys(es, wanted, i)
    /\ ToSet(c.elements) \subseteq ToSet(s.elements) \union ToSet(es)

(* The loop adds the keys of the elements it wants and no others, and the  *)
(* set it leaves holds elements of the two sets only.                      *)
LEMMA CollectCollects ==
    ASSUME NEW s \in SoundSet, NEW es \in Seq(Element), NEW wanted
    PROVE  Collected(Collect(s, es, wanted), s, es, wanted, Len(es))
<1> DEFINE c == Collecting(s, es, wanted)
           D(i) == Collected(c[i], s, es, wanted, i)
           T == {i \in 0 .. Len(es) : D(i)}
<1>0. /\ c[0] = s
      /\ \A i \in 1 .. Len(es) :
            c[i] = IF es[i] \in wanted THEN AddTo(c[i - 1], es[i]) ELSE c[i - 1]
  BY CollectingIsALoop
<1> HIDE DEF c
<1>1. 0 \in T
  <2>1. WantedKeys(es, wanted, 0) = {}
    BY DEF WantedKeys
  <2>2. D(0)
    BY <1>0, <2>1 DEF Collected
  <2>3. 0 \in 0 .. Len(es)
    OBVIOUS
  <2> QED BY <2>2, <2>3
<1>2. ASSUME NEW i \in 1 .. Len(es), i - 1 \in T PROVE i \in T
  <2>1. D(i - 1)
    BY <1>2
  <2>2. /\ c[i - 1] \in SoundSet /\ c[i - 1].frees = s.frees
        /\ KeysOf(c[i - 1]) = KeysOf(s) \union WantedKeys(es, wanted, i - 1)
        /\ ToSet(c[i - 1].elements) \subseteq ToSet(s.elements) \union ToSet(es)
    BY <2>1 DEF Collected
  <2>3. es[i] \in Element /\ es[i] \in ToSet(es)
    BY DEF ToSet
  <2>4. WantedKeys(es, wanted, i) =
            WantedKeys(es, wanted, i - 1) \union
                (IF es[i] \in wanted THEN {KeyOf(es[i])} ELSE {})
    <3>1. 1 .. i = 1 .. i - 1 \union {i}
      OBVIOUS
    <3> QED BY <3>1 DEF WantedKeys
  <2>5. CASE es[i] \in wanted
    <3>1. c[i] = AddTo(c[i - 1], es[i])
      BY <1>0, <2>5
    <3> DEFINE d == c[i - 1]
    <3>2. /\ AddTo(d, es[i]) \in SoundSet
          /\ AddTo(d, es[i]).frees = d.frees
          /\ KeysOf(AddTo(d, es[i])) = KeysOf(d) \union {KeyOf(es[i])}
          /\ HasElement(d, es[i]) => AddTo(d, es[i]) = d
          /\ ~ HasElement(d, es[i]) => AddTo(d, es[i]).elements = Append(d.elements, es[i])
      BY <2>2, <2>3, AddToAdds
    <3>3. ToSet(AddTo(d, es[i]).elements) \subseteq ToSet(d.elements) \union {es[i]}
      <4>1. d.elements \in Seq(Element)
        BY <2>2, ElementFacts
      <4>2. ToSet(Append(d.elements, es[i])) = ToSet(d.elements) \union {es[i]}
        BY <2>3, <4>1, AppendToSet
      <4> QED BY <3>2, <4>2
    <3> HIDE DEF d
    <3>4. KeysOf(c[i]) = KeysOf(s) \union WantedKeys(es, wanted, i)
      BY <2>2, <2>4, <2>5, <3>1, <3>2 DEF d
    <3>5. ToSet(c[i].elements) \subseteq ToSet(s.elements) \union ToSet(es)
      BY <2>2, <2>3, <3>1, <3>3 DEF d
    <3>6. c[i] \in SoundSet /\ c[i].frees = s.frees
      BY <2>2, <3>1, <3>2 DEF d
    <3> QED BY <3>4, <3>5, <3>6 DEF Collected
  <2>6. CASE es[i] \notin wanted
    <3>1. c[i] = c[i - 1]
      BY <1>0, <2>6
    <3>2. WantedKeys(es, wanted, i) = WantedKeys(es, wanted, i - 1)
      BY <2>4, <2>6
    <3> QED BY <2>2, <3>1, <3>2 DEF Collected
  <2> QED BY <2>5, <2>6
<1>3. Len(es) \in T
  <2> HIDE DEF T
  <2>1. T \in SUBSET (0 .. Len(es)) /\ Len(es) \in Nat
    BY DEF T
  <2>2. T = 0 .. Len(es)
    BY <1>1, <1>2, <2>1, TurnInduction
  <2> QED BY <2>1, <2>2
<1>4. D(Len(es))
  BY <1>3
<1> QED BY <1>4 DEF Collect, c

(* What each derived set holds.                                            *)
LEMMA EmptyIsSound ==
    ASSUME NEW frees \in BOOLEAN
    PROVE  /\ Empty(frees) \in SoundSet /\ Empty(frees).frees = frees
           /\ KeysOf(Empty(frees)) = {} /\ ToSet(Empty(frees).elements) = {}
<1>1. /\ Empty(frees).elements = <<>>
      /\ Empty(frees).capacity = InitialCapacity
      /\ Empty(frees).frees = frees
  BY DEF Empty
<1>2. Empty(frees) \in SetRecord
  BY SetAssumption DEF Empty, SetRecord
<1>3. Len(<<>>) = 0 /\ DOMAIN <<>> = {}
  OBVIOUS
<1> QED BY <1>1, <1>2, <1>3, SetAssumption DEF SoundSet, DistinctKeys, KeysOf, ToSet

LEMMA DerivedSets ==
    ASSUME NEW s \in SoundSet, NEW t \in SoundSet
    PROVE  /\ /\ UnionOf(s, t) \in SoundSet /\ UnionOf(s, t).frees = s.frees
              /\ KeysOf(UnionOf(s, t)) = KeysOf(s) \union KeysOf(t)
              /\ ToSet(UnionOf(s, t).elements) \subseteq
                     ToSet(s.elements) \union ToSet(t.elements)
           /\ /\ IntersectionOf(s, t) \in SoundSet
              /\ IntersectionOf(s, t).frees = s.frees
              /\ KeysOf(IntersectionOf(s, t)) = KeysOf(s) \intersect KeysOf(t)
              /\ ToSet(IntersectionOf(s, t).elements) \subseteq ToSet(s.elements)
           /\ /\ DifferenceOf(s, t) \in SoundSet
              /\ DifferenceOf(s, t).frees = s.frees
              /\ KeysOf(DifferenceOf(s, t)) = KeysOf(s) \ KeysOf(t)
              /\ ToSet(DifferenceOf(s, t).elements) \subseteq ToSet(s.elements)
<1> DEFINE e0 == Empty(s.frees)
<1>1. /\ s \in SetRecord /\ s.elements \in Seq(Element) /\ s.frees \in BOOLEAN
      /\ t \in SetRecord /\ t.elements \in Seq(Element)
  BY ElementFacts
<1>2. e0 \in SoundSet /\ e0.frees = s.frees /\ KeysOf(e0) = {} /\ ToSet(e0.elements) = {}
  BY <1>1, EmptyIsSound
<1>3. \A x \in SetRecord :
         KeysOf(x) = {KeyOf(x.elements[i]) : i \in 1 .. Len(x.elements)}
  BY ElementFacts DEF KeysOf
<1>4. \A x \in SetRecord : WantedKeys(x.elements, Element, Len(x.elements)) = KeysOf(x)
  BY <1>3, ElementFacts DEF WantedKeys
<1>5. \A e \in Element : e \in Matching(t) <=> KeyOf(e) \in KeysOf(t)
  BY <1>1, FindElementFinds DEF Matching
<1>6. WantedKeys(s.elements, Matching(t), Len(s.elements)) = KeysOf(s) \intersect KeysOf(t)
  BY <1>1, <1>3, <1>5, ElementFacts DEF WantedKeys
<1>7. WantedKeys(s.elements, Element \ Matching(t), Len(s.elements)) = KeysOf(s) \ KeysOf(t)
  BY <1>1, <1>3, <1>5, ElementFacts DEF WantedKeys
<1> HIDE DEF e0
<1>8. /\ UnionOf(s, t) \in SoundSet /\ UnionOf(s, t).frees = s.frees
      /\ KeysOf(UnionOf(s, t)) = KeysOf(s) \union KeysOf(t)
      /\ ToSet(UnionOf(s, t).elements) \subseteq ToSet(s.elements) \union ToSet(t.elements)
  <2> DEFINE u == Collect(e0, s.elements, Element)
  <2>1. Collected(u, e0, s.elements, Element, Len(s.elements))
    BY <1>1, <1>2, CollectCollects
  <2> HIDE DEF u
  <2> DEFINE v == Collect(u, t.elements, Element)
  <2>4. u \in SoundSet
    BY <2>1 DEF Collected
  <2>2. Collected(v, u, t.elements, Element, Len(t.elements))
    BY <1>1, <2>4, CollectCollects
  <2> HIDE DEF v
  <2>3. UnionOf(s, t) = v
    BY DEF UnionOf, u, v, e0
  <2> QED BY <1>1, <1>2, <1>4, <2>1, <2>2, <2>3 DEF Collected
<1>9. /\ IntersectionOf(s, t) \in SoundSet /\ IntersectionOf(s, t).frees = s.frees
      /\ KeysOf(IntersectionOf(s, t)) = KeysOf(s) \intersect KeysOf(t)
      /\ ToSet(IntersectionOf(s, t).elements) \subseteq ToSet(s.elements)
  <2> DEFINE u == Collect(e0, s.elements, Matching(t))
  <2>1. Collected(u, e0, s.elements, Matching(t), Len(s.elements))
    BY <1>1, <1>2, CollectCollects
  <2> HIDE DEF u
  <2>2. IntersectionOf(s, t) = u
    BY DEF IntersectionOf, u, e0
  <2> QED BY <1>2, <1>6, <2>1, <2>2 DEF Collected
<1>10. /\ DifferenceOf(s, t) \in SoundSet /\ DifferenceOf(s, t).frees = s.frees
       /\ KeysOf(DifferenceOf(s, t)) = KeysOf(s) \ KeysOf(t)
       /\ ToSet(DifferenceOf(s, t).elements) \subseteq ToSet(s.elements)
  <2> DEFINE w == Element \ Matching(t)
             u == Collect(e0, s.elements, w)
  <2> HIDE DEF w
  <2>1. Collected(u, e0, s.elements, w, Len(s.elements))
    BY <1>1, <1>2, CollectCollects
  <2> HIDE DEF u
  <2>2. DifferenceOf(s, t) = u
    BY DEF DifferenceOf, u, e0, w
  <2>3. WantedKeys(s.elements, w, Len(s.elements)) = KeysOf(s) \ KeysOf(t)
    BY <1>7 DEF w
  <2> QED BY <1>2, <2>1, <2>2, <2>3 DEF Collected
<1> QED BY <1>8, <1>9, <1>10

(* set_clear and set_remove.                                               *)
LEMMA ClearedIsSound ==
    ASSUME NEW s \in SoundSet
    PROVE  /\ [s EXCEPT !.elements = <<>>] \in SoundSet
           /\ [s EXCEPT !.elements = <<>>].frees = s.frees
           /\ KeysOf([s EXCEPT !.elements = <<>>]) = {}
           /\ ToSet([s EXCEPT !.elements = <<>>].elements) = {}
<1> DEFINE c == [s EXCEPT !.elements = <<>>]
<1>1. c = [elements |-> <<>>, capacity |-> s.capacity, frees |-> s.frees]
  BY DEF SoundSet, SetRecord
<1>2. c.elements = <<>> /\ c.capacity = s.capacity /\ c.frees = s.frees
  BY <1>1
<1>3. c \in SetRecord
  <2>1. <<>> \in Seq(Element)
    OBVIOUS
  <2>2. s.capacity \in Nat \ {0} /\ s.frees \in BOOLEAN
    BY ElementFacts
  <2> QED BY <1>1, <2>1, <2>2 DEF SetRecord
<1>4. Len(<<>>) = 0 /\ DOMAIN <<>> = {} /\ s.capacity \in Nat
  BY ElementFacts
<1> HIDE DEF c
<1>5. c \in SoundSet
  BY <1>2, <1>3, <1>4 DEF SoundSet, DistinctKeys
<1>6. KeysOf(c) = {} /\ ToSet(c.elements) = {}
  BY <1>2, <1>4 DEF KeysOf, ToSet
<1> QED BY <1>2, <1>5, <1>6 DEF c

LEMMA RemovedIsSound ==
    ASSUME NEW s \in SoundSet, NEW i \in DOMAIN s.elements
    PROVE  /\ [s EXCEPT !.elements = RemoveAt(@, i)] \in SoundSet
           /\ [s EXCEPT !.elements = RemoveAt(@, i)].frees = s.frees
           /\ KeysOf([s EXCEPT !.elements = RemoveAt(@, i)]) =
                  KeysOf(s) \ {KeyOf(s.elements[i])}
           /\ ToSet([s EXCEPT !.elements = RemoveAt(@, i)].elements) =
                  ToSet(s.elements) \ {s.elements[i]}
<1> DEFINE q == s.elements
           r == RemoveAt(q, i)
           n == Len(q)
           c == [s EXCEPT !.elements = RemoveAt(@, i)]
<1>1. /\ s \in SetRecord /\ q \in Seq(Element) /\ n \in Nat /\ DOMAIN q = 1 .. n
      /\ i \in 1 .. n /\ n <= s.capacity /\ s.capacity \in Nat \ {0}
      /\ \A j, k \in 1 .. n : KeyOf(q[j]) = KeyOf(q[k]) => j = k
  BY ElementFacts DEF SoundSet, DistinctKeys
<1>2. c = [elements |-> r, capacity |-> s.capacity, frees |-> s.frees]
  BY <1>1 DEF SetRecord
<1>3. c.elements = r /\ c.capacity = s.capacity /\ c.frees = s.frees
  BY <1>2
<1> HIDE DEF q, n
<1>4. /\ r \in Seq(Element) /\ Len(r) = n - 1
      /\ \A j \in 1 .. n - 1 : r[j] = IF j < i THEN q[j] ELSE q[j + 1]
  <2>1. q \in Seq(Element) /\ i \in 1 .. Len(q)
    BY <1>1 DEF n
  <2>2. /\ RemoveAt(q, i) \in Seq(Element)
        /\ Len(RemoveAt(q, i)) = Len(q) - 1
        /\ \A j \in 1 .. Len(q) - 1 :
             RemoveAt(q, i)[j] = IF j < i THEN q[j] ELSE q[j + 1]
    BY <2>1, RemoveAtElements
  <2> QED BY <2>2 DEF n
<1> HIDE DEF c, r
<1>5. DOMAIN r = 1 .. n - 1
  BY <1>4, <1>1
<1> DEFINE from(j) == IF j < i THEN j ELSE j + 1
<1>6. \A j \in 1 .. n - 1 : from(j) \in 1 .. n /\ from(j) # i /\ r[j] = q[from(j)]
  BY <1>1, <1>4
<1>7. \A j \in 1 .. n : j # i => \E k \in 1 .. n - 1 : r[k] = q[j]
  <2> SUFFICES ASSUME NEW j \in 1 .. n, j # i PROVE \E k \in 1 .. n - 1 : r[k] = q[j]
    OBVIOUS
  <2>1. CASE j < i
    <3>1. j \in 1 .. n - 1 /\ r[j] = q[j]
      BY <1>1, <1>4, <2>1
    <3> QED BY <3>1
  <2>2. CASE j > i
    <3>1. j - 1 \in 1 .. n - 1 /\ r[j - 1] = q[j]
      BY <1>1, <1>4, <2>2
    <3> QED BY <3>1
  <2> QED BY <1>1, <2>1, <2>2
<1>8. \A j, k \in DOMAIN r : KeyOf(r[j]) = KeyOf(r[k]) => j = k
  <2> SUFFICES ASSUME NEW j \in 1 .. n - 1, NEW k \in 1 .. n - 1,
                      KeyOf(r[j]) = KeyOf(r[k])
               PROVE  j = k
    BY <1>5
  <2>1. from(j) = from(k)
    BY <1>1, <1>6
  <2> QED BY <1>1, <2>1
<1> HIDE DEF from
<1>9. c \in SetRecord /\ Len(c.elements) <= c.capacity
  BY <1>1, <1>2, <1>3, <1>4 DEF SetRecord
<1>10. c \in SoundSet
  BY <1>3, <1>8, <1>9 DEF SoundSet, DistinctKeys
<1>11. \A j \in 1 .. n : j # i => KeyOf(q[j]) # KeyOf(q[i]) /\ q[j] # q[i]
  BY <1>1
<1>12. KeysOf(c) = KeysOf(s) \ {KeyOf(q[i])}
  <2>1. KeysOf(c) = {KeyOf(r[j]) : j \in 1 .. n - 1}
    BY <1>3, <1>5 DEF KeysOf
  <2>2. KeysOf(s) = {KeyOf(q[j]) : j \in 1 .. n}
    BY <1>1 DEF KeysOf, q
  <2> QED BY <2>1, <2>2, <1>6, <1>7, <1>11
<1>13. ToSet(c.elements) = ToSet(q) \ {q[i]}
  <2>1. ToSet(c.elements) = {r[j] : j \in 1 .. n - 1}
    BY <1>3, <1>5 DEF ToSet
  <2>2. ToSet(q) = {q[j] : j \in 1 .. n}
    BY <1>1 DEF ToSet
  <2> QED BY <2>1, <2>2, <1>6, <1>7, <1>11
<1> QED BY <1>3, <1>10, <1>12, <1>13 DEF c, q

-----------------------------------------------------------------------------
(* The inductive invariant.                                                *)

(* No set ever holds two equal elements, and its array has room for all.   *)
SetsSound == sets \in [Handle -> SoundSet \union {NoSet}]

(* What a set owns, and what its caller still owns while the set has it.   *)
OwnedBy(s) == IF s # NoSet /\ s.frees THEN ToSet(s.elements) ELSE {}
LentTo(s) == IF s # NoSet /\ ~ s.frees THEN ToSet(s.elements) ELSE {}

(* OneOwner, handle by handle.                                             *)
Ownership ==
    /\ ~ misused
    /\ \A e \in Element : \/ e \in held \/ e \in freed
                          \/ \E h \in Handle : e \in OwnedBy(sets[h])
    /\ held \intersect freed = {}
    /\ \A h \in Handle : OwnedBy(sets[h]) \intersect (held \union freed) = {}
    /\ \A h, k \in Handle : h # k => OwnedBy(sets[h]) \intersect OwnedBy(sets[k]) = {}
    /\ \A h \in Handle : LentTo(sets[h]) \subseteq held

Inv ==
    /\ SetsSound
    /\ held \in SUBSET Element /\ freed \in SUBSET Element /\ misused \in BOOLEAN
    /\ Ownership

(* What the handles stand for in KeySets.                                  *)
Content == [h \in Handle |-> IF Exists(h) THEN KeysOf(sets[h]) ELSE NoSet]

LEMMA NoSetIsNotSound == NoSet \notin SoundSet
  BY NoSetAssumption DEF SoundSet

LEMMA ExistingIsSound ==
    ASSUME SetsSound, NEW h \in Handle, Exists(h)
    PROVE  /\ sets[h] \in SoundSet /\ sets[h] # NoSet
           /\ Elements(h) = sets[h].elements /\ Frees(h) = sets[h].frees
           /\ sets[h].frees \in BOOLEAN
           /\ ToSet(sets[h].elements) \subseteq Element
<1>1. sets[h] \in SoundSet /\ sets[h] # NoSet
  BY DEF SetsSound, Exists
<1>2. ToSet(sets[h].elements) \subseteq Element
  BY <1>1, ElementFacts DEF ToSet
<1> QED BY <1>1, <1>2, ElementFacts DEF Elements, Frees

(* An operation changes the set of one handle.                             *)
LEMMA BecomeFacts ==
    ASSUME SetsSound, NEW h \in Handle, NEW s \in SoundSet \union {NoSet}, Become(h, s)
    PROVE  /\ SetsSound'
           /\ sets'[h] = s
           /\ \A k \in Handle : k # h => sets'[k] = sets[k]
           /\ Content' = [Content EXCEPT ![h] = IF s = NoSet THEN NoSet ELSE KeysOf(s)]
<1>1. sets' = [sets EXCEPT ![h] = s]
  BY DEF Become
<1>2. SetsSound' /\ sets'[h] = s /\ \A k \in Handle : k # h => sets'[k] = sets[k]
  BY <1>1 DEF SetsSound
<1>3. Content' = [Content EXCEPT ![h] = IF s = NoSet THEN NoSet ELSE KeysOf(s)]
  BY <1>2 DEF Content, Exists
<1> QED BY <1>2, <1>3

(* A set that gives up elements it owned, each once, frees them.           *)
LEMMA GivingUp ==
    ASSUME Inv, NEW h \in Handle, NEW X \in SUBSET OwnedBy(sets[h]),
           \A k \in Handle : k # h => sets'[k] = sets[k],
           OwnedBy(sets'[h]) = OwnedBy(sets[h]) \ X,
           LentTo(sets'[h]) \subseteq LentTo(sets[h]),
           freed' = freed \union X, misused' = (misused \/ X \intersect freed # {}),
           held' = held
    PROVE  /\ held' \in SUBSET Element /\ freed' \in SUBSET Element
           /\ misused' \in BOOLEAN /\ Ownership'
<1>1. X \subseteq Element
  <2>1. OwnedBy(sets[h]) \subseteq Element
    BY ExistingIsSound DEF Inv, OwnedBy, Exists
  <2> QED BY <2>1
<1>2. X \intersect freed = {} /\ X \intersect held = {}
  BY DEF Inv, Ownership
<1>3. ~ misused'
  BY <1>2 DEF Inv, Ownership
<1>4. ASSUME NEW e \in Element
      PROVE  e \in held' \/ e \in freed' \/ \E k \in Handle : e \in OwnedBy(sets'[k])
  <2>1. e \in held \/ e \in freed \/ \E k \in Handle : e \in OwnedBy(sets[k])
    BY DEF Inv, Ownership
  <2>2. CASE \E k \in Handle : e \in OwnedBy(sets[k])
    <3>1. PICK k \in Handle : e \in OwnedBy(sets[k])
      BY <2>2
    <3> QED BY <3>1
  <2> QED BY <2>1, <2>2
<1>5. \A k \in Handle : OwnedBy(sets'[k]) \subseteq OwnedBy(sets[k])
  OBVIOUS
<1>6. \A k \in Handle : OwnedBy(sets'[k]) \intersect (held' \union freed') = {}
  <2> SUFFICES ASSUME NEW k \in Handle
               PROVE  OwnedBy(sets'[k]) \intersect (held' \union freed') = {}
    OBVIOUS
  <2>1. OwnedBy(sets[k]) \intersect (held \union freed) = {}
    BY DEF Inv, Ownership
  <2>2. CASE k = h
    BY <2>1, <2>2
  <2>3. CASE k # h
    <3>1. OwnedBy(sets[h]) \intersect OwnedBy(sets[k]) = {}
      BY <2>3 DEF Inv, Ownership
    <3> QED BY <2>1, <2>3, <3>1
  <2> QED BY <2>2, <2>3
<1>7. \A k, l \in Handle : k # l => OwnedBy(sets'[k]) \intersect OwnedBy(sets'[l]) = {}
  BY <1>5 DEF Inv, Ownership
<1>8. \A k \in Handle : LentTo(sets'[k]) \subseteq held'
  <2>1. \A k \in Handle : LentTo(sets[k]) \subseteq held
    BY DEF Inv, Ownership
  <2> QED BY <2>1
<1>9. held' \intersect freed' = {}
  BY <1>2 DEF Inv, Ownership
<1>10. Ownership'
  BY <1>3, <1>4, <1>6, <1>7, <1>8, <1>9 DEF Ownership
<1> QED BY <1>1, <1>3, <1>10 DEF Inv

(* A set that takes nothing over leaves the owners as they were.           *)
LEMMA KeepingOwners ==
    ASSUME Inv, NEW h \in Handle,
           \A k \in Handle : k # h => sets'[k] = sets[k],
           OwnedBy(sets'[h]) = OwnedBy(sets[h]), LentTo(sets'[h]) \subseteq held,
           UNCHANGED <<held, freed, misused>>
    PROVE  /\ held' \in SUBSET Element /\ freed' \in SUBSET Element
           /\ misused' \in BOOLEAN /\ Ownership'
<1>1. \A k \in Handle : OwnedBy(sets'[k]) = OwnedBy(sets[k])
  OBVIOUS
<1>2. \A k \in Handle : LentTo(sets'[k]) \subseteq held
  BY DEF Inv, Ownership
<1> QED BY <1>1, <1>2 DEF Inv, Ownership

(* A set with a destructor takes an element over from the caller.          *)
LEMMA TakingOver ==
    ASSUME Inv, NEW h \in Handle, NEW e \in held,
           \A k \in Handle : e \notin LentTo(sets[k]),
           \A k \in Handle : k # h => sets'[k] = sets[k],
           OwnedBy(sets'[h]) = OwnedBy(sets[h]) \union {e}, LentTo(sets'[h]) = {},
           held' = held \ {e}, UNCHANGED <<freed, misused>>
    PROVE  /\ held' \in SUBSET Element /\ freed' \in SUBSET Element
           /\ misused' \in BOOLEAN /\ Ownership'
<1>1. \A k \in Handle : e \notin OwnedBy(sets[k])
  BY DEF Inv, Ownership
<1>2. e \notin freed
  BY DEF Inv, Ownership
<1>3. ASSUME NEW x \in Element
      PROVE  x \in held' \/ x \in freed' \/ \E k \in Handle : x \in OwnedBy(sets'[k])
  <2>1. x \in held \/ x \in freed \/ \E k \in Handle : x \in OwnedBy(sets[k])
    BY DEF Inv, Ownership
  <2>2. CASE \E k \in Handle : x \in OwnedBy(sets[k])
    <3>1. PICK k \in Handle : x \in OwnedBy(sets[k])
      BY <2>2
    <3> QED BY <3>1
  <2> QED BY <2>1, <2>2
<1>4. \A k \in Handle : OwnedBy(sets'[k]) \intersect (held' \union freed') = {}
  <2> SUFFICES ASSUME NEW k \in Handle
               PROVE  OwnedBy(sets'[k]) \intersect (held' \union freed') = {}
    OBVIOUS
  <2>1. OwnedBy(sets[k]) \intersect (held \union freed) = {}
    BY DEF Inv, Ownership
  <2> QED BY <1>2, <2>1
<1>5. ASSUME NEW k \in Handle, NEW l \in Handle, k # l
      PROVE  OwnedBy(sets'[k]) \intersect OwnedBy(sets'[l]) = {}
  <2>1. OwnedBy(sets[k]) \intersect OwnedBy(sets[l]) = {}
    BY <1>5 DEF Inv, Ownership
  <2> QED BY <1>1, <1>5, <2>1
<1>6. \A k \in Handle : LentTo(sets'[k]) \subseteq held'
  <2>1. \A k \in Handle : LentTo(sets[k]) \subseteq held
    BY DEF Inv, Ownership
  <2> QED BY <2>1
<1>7. Ownership'
  BY <1>3, <1>4, <1>5, <1>6 DEF Inv, Ownership
<1> QED BY <1>7 DEF Inv

-----------------------------------------------------------------------------
(* Every action keeps the invariant and is a step of KeySets.              *)

LEMMA CreateKeeps ==
    ASSUME Inv, NEW h \in Handle, NEW frees \in BOOLEAN, Create(h, frees)
    PROVE  Inv' /\ KS!New(h)
<1> DEFINE s == Empty(frees)
<1>1. s \in SoundSet /\ KeysOf(s) = {} /\ ToSet(s.elements) = {} /\ s # NoSet
  BY EmptyIsSound, NoSetIsNotSound
<1>2. ~ Exists(h) /\ Become(h, s) /\ UNCHANGED <<held, freed, misused>>
  BY DEF Create
<1> HIDE DEF s
<1>3. /\ SetsSound' /\ sets'[h] = s /\ \A k \in Handle : k # h => sets'[k] = sets[k]
      /\ Content' = [Content EXCEPT ![h] = KeysOf(s)]
  <2>1. SetsSound
    BY DEF Inv
  <2> QED BY <1>1, <1>2, <2>1, BecomeFacts
<1>4. OwnedBy(sets[h]) = {} /\ OwnedBy(sets'[h]) = {} /\ LentTo(sets'[h]) = {}
  BY <1>1, <1>2, <1>3 DEF OwnedBy, LentTo, Exists
<1>5. Inv'
  BY <1>2, <1>3, <1>4, KeepingOwners DEF Inv
<1>6. KS!New(h)
  BY <1>1, <1>2, <1>3 DEF KS!New, KS!Exists, KS!Become, Content
<1> QED BY <1>5, <1>6

(* Destroying and clearing a set give up all it owned.                     *)
LEMMA EmptyingKeeps ==
    ASSUME Inv, NEW h \in Handle, NEW s \in SoundSet \union {NoSet}, Exists(h),
           OwnedBy(s) = {}, LentTo(s) = {}, Become(h, s),
           GiveUp(h, ToSet(Elements(h))), UNCHANGED held
    PROVE  Inv'
<1>1. SetsSound
  BY DEF Inv
<1>2. /\ SetsSound' /\ sets'[h] = s
      /\ \A k \in Handle : k # h => sets'[k] = sets[k]
  BY <1>1, BecomeFacts
<1>3. /\ sets[h] \in SoundSet /\ sets[h] # NoSet
      /\ Elements(h) = sets[h].elements /\ Frees(h) = sets[h].frees
      /\ sets[h].frees \in BOOLEAN
  BY <1>1, ExistingIsSound
<1> DEFINE X == OwnedBy(sets[h])
<1>4. freed' = freed \union X /\ misused' = (misused \/ X \intersect freed # {})
  <2>0. misused \in BOOLEAN
    BY DEF Inv
  <2>1. CASE Frees(h)
    BY <1>3, <2>1 DEF GiveUp, OwnedBy
  <2>2. CASE ~ Frees(h)
    <3>1. X = {} /\ X \intersect freed = {}
      BY <1>3, <2>2 DEF OwnedBy
    <3>2. freed' = freed /\ misused' = misused
      BY <2>2 DEF GiveUp
    <3> HIDE DEF X
    <3> QED BY <2>0, <3>1, <3>2
  <2> QED BY <2>1, <2>2
<1>5. OwnedBy(sets'[h]) = OwnedBy(sets[h]) \ X /\ LentTo(sets'[h]) \subseteq LentTo(sets[h])
  BY <1>2
<1> HIDE DEF X
<1>6. X \in SUBSET OwnedBy(sets[h])
  BY DEF X
<1> QED BY <1>2, <1>4, <1>5, <1>6, GivingUp DEF Inv

LEMMA DestroyKeeps ==
    ASSUME Inv, NEW h \in Handle, Destroy(h)
    PROVE  Inv' /\ KS!Discard(h)
<1>1. /\ Exists(h) /\ GiveUp(h, ToSet(Elements(h))) /\ Become(h, NoSet)
      /\ UNCHANGED held
  BY DEF Destroy
<1>2. OwnedBy(NoSet) = {} /\ LentTo(NoSet) = {}
  BY DEF OwnedBy, LentTo
<1>3. Inv'
  BY <1>1, <1>2, EmptyingKeeps
<1>4. SetsSound
  BY DEF Inv
<1>5. Content' = [Content EXCEPT ![h] = NoSet]
  BY <1>1, <1>4, BecomeFacts
<1>6. KeysOf(sets[h]) # NoSet
  BY <1>1, <1>4, ExistingIsSound, ElementFacts, NoSetAssumption
<1>7. KS!Discard(h)
  BY <1>1, <1>5, <1>6 DEF KS!Discard, KS!Exists, KS!Become, Content
<1> QED BY <1>3, <1>7

LEMMA ClearKeeps ==
    ASSUME Inv, NEW h \in Handle, Clear(h)
    PROVE  Inv' /\ KS!Empty(h)
<1> DEFINE s == [sets[h] EXCEPT !.elements = <<>>]
<1>1. /\ Exists(h) /\ GiveUp(h, ToSet(Elements(h))) /\ Become(h, s)
      /\ UNCHANGED held
  BY DEF Clear
<1>2. SetsSound
  BY DEF Inv
<1>3. s \in SoundSet /\ KeysOf(s) = {} /\ ToSet(s.elements) = {}
  BY <1>1, <1>2, ExistingIsSound, ClearedIsSound
<1> HIDE DEF s
<1>4. OwnedBy(s) = {} /\ LentTo(s) = {} /\ s # NoSet
  BY <1>3, NoSetIsNotSound DEF OwnedBy, LentTo
<1>5. Inv'
  BY <1>1, <1>3, <1>4, EmptyingKeeps
<1>6. Content' = [Content EXCEPT ![h] = {}]
  BY <1>1, <1>2, <1>3, <1>4, BecomeFacts
<1>7. KeysOf(sets[h]) # NoSet
  BY <1>1, <1>2, ExistingIsSound, ElementFacts, NoSetAssumption
<1>8. KS!Empty(h)
  BY <1>1, <1>6, <1>7 DEF KS!Empty, KS!Exists, KS!Become, Content
<1> QED BY <1>5, <1>8

LEMMA AddKeeps ==
    ASSUME Inv, NEW h \in Handle, NEW e \in Element, Add(h, e)
    PROVE  Inv' /\ KS!Put(h, KeyOf(e))
<1> DEFINE s == sets[h]
           t == AddTo(s, e)
<1>1. /\ Exists(h) /\ e \in held /\ (Frees(h) => e \notin InSets)
      /\ Become(h, t)
      /\ held' = IF Frees(h) /\ ~ HasElement(s, e) THEN held \ {e} ELSE held
      /\ UNCHANGED <<freed, misused>>
  BY DEF Add
<1>2. SetsSound
  BY DEF Inv
<1>3. /\ s \in SoundSet /\ s # NoSet /\ Elements(h) = s.elements
      /\ Frees(h) = s.frees /\ s.frees \in BOOLEAN
  BY <1>1, <1>2, ExistingIsSound
<1>4. /\ t \in SoundSet /\ t.frees = s.frees
      /\ KeysOf(t) = KeysOf(s) \union {KeyOf(e)}
      /\ HasElement(s, e) => t = s
      /\ ~ HasElement(s, e) => t.elements = Append(s.elements, e)
  BY <1>3, AddToAdds
<1>5. t # NoSet
  BY <1>4, NoSetIsNotSound
<1>6. ~ HasElement(s, e) => ToSet(t.elements) = ToSet(s.elements) \union {e}
  <2>1. s.elements \in Seq(Element)
    BY <1>3, ElementFacts
  <2> HIDE DEF s, t
  <2>2. ToSet(Append(s.elements, e)) = ToSet(s.elements) \union {e}
    BY <2>1, AppendToSet
  <2> QED BY <1>4, <2>2
<1> HIDE DEF s, t
<1>7. /\ SetsSound' /\ sets'[h] = t /\ \A k \in Handle : k # h => sets'[k] = sets[k]
      /\ Content' = [Content EXCEPT ![h] = KeysOf(t)]
  BY <1>1, <1>2, <1>4, <1>5, BecomeFacts
<1>8. LentTo(s) \subseteq held
  BY DEF Inv, Ownership, s
<1>9. Inv'
  <2>1. CASE HasElement(s, e)
    <3>1. /\ OwnedBy(sets'[h]) = OwnedBy(sets[h]) /\ LentTo(sets'[h]) \subseteq held
          /\ UNCHANGED <<held, freed, misused>>
      BY <1>1, <1>4, <1>7, <1>8, <2>1 DEF s
    <3> QED BY <1>7, <3>1, KeepingOwners DEF Inv
  <2>2. CASE ~ HasElement(s, e) /\ ~ Frees(h)
    <3>1. /\ OwnedBy(sets'[h]) = OwnedBy(sets[h]) /\ LentTo(sets'[h]) \subseteq held
          /\ UNCHANGED <<held, freed, misused>>
      BY <1>1, <1>3, <1>4, <1>5, <1>6, <1>7, <1>8, <2>2 DEF s, OwnedBy, LentTo
    <3> QED BY <1>7, <3>1, KeepingOwners DEF Inv
  <2>3. CASE ~ HasElement(s, e) /\ Frees(h)
    <3>1. /\ OwnedBy(sets'[h]) = OwnedBy(sets[h]) \union {e} /\ LentTo(sets'[h]) = {}
          /\ held' = held \ {e} /\ UNCHANGED <<freed, misused>>
      BY <1>1, <1>3, <1>4, <1>5, <1>6, <1>7, <2>3 DEF s, OwnedBy, LentTo
    <3>2. \A k \in Handle : e \notin LentTo(sets[k])
      BY <1>1, <2>3 DEF InSets, LentTo, Exists, Elements
    <3> QED BY <1>1, <1>7, <3>1, <3>2, TakingOver DEF Inv
  <2> QED BY <2>1, <2>2, <2>3
<1>10. KeysOf(s) # NoSet
  BY <1>3, ElementFacts, NoSetAssumption
<1>11. KS!Put(h, KeyOf(e))
  BY <1>1, <1>4, <1>7, <1>10 DEF KS!Put, KS!Exists, KS!Become, Content, s
<1> QED BY <1>9, <1>11

LEMMA RemoveKeeps ==
    ASSUME Inv, NEW h \in Handle, NEW e \in Element, RemoveElement(h, e)
    PROVE  Inv' /\ KS!Take(h, KeyOf(e))
<1> DEFINE s == sets[h]
           i == FindElement(s, e)
           t == [s EXCEPT !.elements = RemoveAt(@, i)]
           x == s.elements[i]
<1>1. /\ Exists(h) /\ i # 0 /\ GiveUp(h, {Elements(h)[i]}) /\ Become(h, t)
      /\ UNCHANGED held
  BY DEF RemoveElement
<1>2. SetsSound
  BY DEF Inv
<1>3. /\ s \in SoundSet /\ s # NoSet /\ Elements(h) = s.elements
      /\ Frees(h) = s.frees /\ s.frees \in BOOLEAN
  BY <1>1, <1>2, ExistingIsSound
<1>4. i \in DOMAIN s.elements /\ KeyOf(x) = KeyOf(e)
  BY <1>1, <1>3, ElementFacts, FindElementFinds DEF HasElement
<1> HIDE DEF i
<1>5. /\ t \in SoundSet /\ t.frees = s.frees
      /\ KeysOf(t) = KeysOf(s) \ {KeyOf(x)}
      /\ ToSet(t.elements) = ToSet(s.elements) \ {x}
  BY <1>3, <1>4, RemovedIsSound
<1>6. t # NoSet /\ x \in ToSet(s.elements)
  BY <1>4, <1>5, NoSetIsNotSound DEF ToSet
<1> HIDE DEF s, t, x
<1>7. /\ SetsSound' /\ sets'[h] = t /\ \A k \in Handle : k # h => sets'[k] = sets[k]
      /\ Content' = [Content EXCEPT ![h] = KeysOf(t)]
  BY <1>1, <1>2, <1>5, <1>6, BecomeFacts
<1>8. Inv'
  <2> DEFINE X == IF s.frees THEN {x} ELSE {}
  <2>1. freed' = freed \union X /\ misused' = (misused \/ X \intersect freed # {})
    <3>0. misused \in BOOLEAN /\ Elements(h)[i] = x
      BY <1>3 DEF Inv, x
    <3>1. CASE s.frees
      BY <1>1, <1>3, <3>0, <3>1 DEF GiveUp
    <3>2. CASE ~ s.frees
      BY <1>1, <1>3, <3>0, <3>2 DEF GiveUp
    <3> QED BY <3>1, <3>2
  <2>2. /\ OwnedBy(sets'[h]) = OwnedBy(sets[h]) \ X
        /\ LentTo(sets'[h]) \subseteq LentTo(sets[h])
        /\ X \in SUBSET OwnedBy(sets[h])
    BY <1>3, <1>5, <1>6, <1>7 DEF OwnedBy, LentTo, s
  <2> HIDE DEF X
  <2> QED BY <1>1, <1>7, <2>1, <2>2, GivingUp DEF Inv
<1>9. KeysOf(s) # NoSet
  BY <1>3, ElementFacts, NoSetAssumption
<1>10. KS!Take(h, KeyOf(e))
  BY <1>1, <1>4, <1>5, <1>7, <1>9 DEF KS!Take, KS!Exists, KS!Become, Content, s
<1> QED BY <1>8, <1>10

LEMMA CombineKeeps ==
    ASSUME Inv, NEW h \in Handle, NEW a \in Handle, NEW b \in Handle, Combine(h, a, b)
    PROVE  Inv' /\ KS!Combine(h, a, b)
<1> DEFINE s == sets[a]
           t == sets[b]
<1>1. /\ ~ Exists(h) /\ Exists(a) /\ Exists(b) /\ ~ Frees(a) /\ ~ Frees(b)
      /\ \E u \in {UnionOf(s, t), IntersectionOf(s, t), DifferenceOf(s, t)} : Become(h, u)
      /\ UNCHANGED <<held, freed, misused>>
  BY DEF Combine
<1>2. SetsSound
  BY DEF Inv
<1>3. /\ s \in SoundSet /\ t \in SoundSet /\ s # NoSet /\ t # NoSet
      /\ ~ s.frees /\ ~ t.frees
  BY <1>1, <1>2, ExistingIsSound
<1>4. ToSet(s.elements) \subseteq held /\ ToSet(t.elements) \subseteq held
  BY <1>3 DEF Inv, Ownership, LentTo
<1> HIDE DEF s, t
<1>5. PICK u \in {UnionOf(s, t), IntersectionOf(s, t), DifferenceOf(s, t)} : Become(h, u)
  BY <1>1
<1>6. /\ u \in SoundSet /\ ~ u.frees /\ ToSet(u.elements) \subseteq held
      /\ \/ KeysOf(u) = KeysOf(s) \union KeysOf(t)
         \/ KeysOf(u) = KeysOf(s) \intersect KeysOf(t)
         \/ KeysOf(u) = KeysOf(s) \ KeysOf(t)
  BY <1>3, <1>4, <1>5, DerivedSets
<1>7. u # NoSet
  BY <1>6, NoSetIsNotSound
<1>8. /\ SetsSound' /\ sets'[h] = u /\ \A k \in Handle : k # h => sets'[k] = sets[k]
      /\ Content' = [Content EXCEPT ![h] = KeysOf(u)]
  BY <1>2, <1>5, <1>6, <1>7, BecomeFacts
<1>9. OwnedBy(sets[h]) = {} /\ OwnedBy(sets'[h]) = {} /\ LentTo(sets'[h]) \subseteq held
  BY <1>1, <1>6, <1>8 DEF OwnedBy, LentTo, Exists
<1>10. Inv'
  BY <1>1, <1>8, <1>9, KeepingOwners DEF Inv
<1>11. KeysOf(s) # NoSet /\ KeysOf(t) # NoSet
  BY <1>3, ElementFacts, NoSetAssumption
<1>12. ~ KS!Exists(h) /\ KS!Exists(a) /\ KS!Exists(b)
  BY <1>1, <1>11 DEF KS!Exists, s, t
<1>13. Content[a] = KeysOf(s) /\ Content[b] = KeysOf(t)
  BY <1>1 DEF Content, s, t
<1>14. KS!Combine(h, a, b)
  BY <1>6, <1>8, <1>12, <1>13 DEF KS!Combine, KS!Become, Content
<1> QED BY <1>10, <1>14

LEMMA StutterKeeps ==
    ASSUME Inv, UNCHANGED vars
    PROVE  Inv' /\ Content' = Content
  BY DEF vars, Inv, SetsSound, Ownership, Content, Exists

(* The initial state and every step: the invariant and the step of KeySets.*)
LEMMA InvInit == Init => Inv
  BY DEF Init, Inv, SetsSound, Ownership, OwnedBy, LentTo

LEMMA InvStep ==
    ASSUME Inv, [Next]_vars
    PROVE  Inv' /\ (KS!Next \/ Content' = Content)
<1>1. CASE UNCHANGED vars
  BY <1>1, StutterKeeps
<1>2. ASSUME NEW h \in Handle, NEW frees \in BOOLEAN, Create(h, frees)
      PROVE  Inv' /\ KS!Next
  BY <1>2, CreateKeeps DEF KS!Next
<1>3. ASSUME NEW h \in Handle, Destroy(h) PROVE Inv' /\ KS!Next
  BY <1>3, DestroyKeeps DEF KS!Next
<1>4. ASSUME NEW h \in Handle, Clear(h) PROVE Inv' /\ KS!Next
  BY <1>4, ClearKeeps DEF KS!Next
<1>5. ASSUME NEW h \in Handle, NEW e \in Element, Add(h, e) PROVE Inv' /\ KS!Next
  BY <1>5, AddKeeps, ElementFacts DEF KS!Next
<1>6. ASSUME NEW h \in Handle, NEW e \in Element, RemoveElement(h, e)
      PROVE  Inv' /\ KS!Next
  BY <1>6, RemoveKeeps, ElementFacts DEF KS!Next
<1>7. ASSUME NEW h \in Handle, NEW a \in Handle, NEW b \in Handle, Combine(h, a, b)
      PROVE  Inv' /\ KS!Next
  BY <1>7, CombineKeeps DEF KS!Next
<1> QED BY <1>1, <1>2, <1>3, <1>4, <1>5, <1>6, <1>7 DEF Next

-----------------------------------------------------------------------------
(* What follows from the invariant.                                        *)

(* The arrays are well formed and have room for the elements they hold.    *)
THEOREM TypeOKHolds == Spec => []TypeOK
<1>1. Inv => TypeOK
  BY ElementFacts DEF Inv, SetsSound, TypeOK, SoundSet, Exists, Elements
<1> QED BY <1>1, InvInit, InvStep, PTL DEF Spec

(* set_is_subset decides the inclusion of keys.                            *)
LEMMA SubsetAgrees ==
    ASSUME NEW s \in SoundSet, NEW t \in SoundSet
    PROVE  IsSubset(s, t) <=> KeysOf(s) \subseteq KeysOf(t)
<1>1. \A i \in DOMAIN s.elements :
         HasElement(t, s.elements[i]) <=> KeyOf(s.elements[i]) \in KeysOf(t)
  BY ElementFacts, FindElementFinds
<1> QED BY <1>1 DEF IsSubset, KeysOf

(* A set holds as many keys as it counts elements.                         *)
LEMMA CountOfKeys ==
    ASSUME NEW s \in SoundSet
    PROVE  IsFiniteSet(KeysOf(s)) /\ Cardinality(KeysOf(s)) = Len(s.elements)
<1> DEFINE n == Len(s.elements)
           f == [i \in 1 .. n |-> KeyOf(s.elements[i])]
<1>1. n \in Nat /\ DOMAIN s.elements = 1 .. n
  BY ElementFacts
<1>2. \A i, j \in 1 .. n : KeyOf(s.elements[i]) = KeyOf(s.elements[j]) => i = j
  BY <1>1 DEF SoundSet, DistinctKeys
<1>3. KeysOf(s) = {KeyOf(s.elements[i]) : i \in 1 .. n}
  BY <1>1 DEF KeysOf
<1> HIDE DEF n
<1>4. f \in Bijection(1 .. n, KeysOf(s))
  BY <1>2, <1>3 DEF Bijection, Injection, Surjection, IsInjective
<1>5. IsFiniteSet(1 .. n) /\ Cardinality(1 .. n) = n
  BY <1>1, FS_Interval
<1> HIDE DEF f
<1>6. IsFiniteSet(KeysOf(s)) /\ Cardinality(KeysOf(s)) = Cardinality(1 .. n)
  <2>1. ExistsBijection(1 .. n, KeysOf(s))
    BY <1>4 DEF ExistsBijection
  <2> QED BY <1>5, <2>1, FS_Bijection
<1> QED BY <1>5, <1>6 DEF n

(* set_is_subset and set_equals agree with inclusion and equality of keys, *)
(* whatever operations made the sets: equality compares counts, which is   *)
(* right only because no key is held twice.                                *)
THEOREM ComparisonsAgreeHolds == Spec => []ComparisonsAgree
<1>1. ASSUME Inv, NEW h \in Handle, NEW k \in Handle, Exists(h), Exists(k)
      PROVE  /\ IsSubset(sets[h], sets[k]) <=> KeysOf(sets[h]) \subseteq KeysOf(sets[k])
             /\ Equals(sets[h], sets[k]) <=> KeysOf(sets[h]) = KeysOf(sets[k])
  <2> DEFINE s == sets[h]
             t == sets[k]
  <2>1. s \in SoundSet /\ t \in SoundSet
    BY <1>1, ExistingIsSound DEF Inv
  <2> HIDE DEF s, t
  <2>2. /\ IsSubset(s, t) <=> KeysOf(s) \subseteq KeysOf(t)
        /\ IsSubset(t, s) <=> KeysOf(t) \subseteq KeysOf(s)
    BY <2>1, SubsetAgrees
  <2>3. KeysOf(s) = KeysOf(t) => Len(s.elements) = Len(t.elements)
    BY <2>1, CountOfKeys
  <2>4. Equals(s, t) <=> KeysOf(s) = KeysOf(t)
    BY <2>2, <2>3 DEF Equals
  <2> QED BY <2>2, <2>4 DEF s, t
<1>2. Inv => ComparisonsAgree
  BY <1>1 DEF ComparisonsAgree
<1> QED BY <1>2, InvInit, InvStep, PTL DEF Spec

(* Every element has one owner: the caller, one set with a destructor, or  *)
(* nobody once it was freed, which happens once.                           *)
THEOREM OneOwnerHolds == Spec => []OneOwner
<1>1. ASSUME Inv PROVE OneOwner
  <2>1. \A h \in Handle : Exists(h) =>
           /\ sets[h] \in SoundSet /\ sets[h] # NoSet
           /\ Elements(h) = sets[h].elements /\ Frees(h) = sets[h].frees
    BY <1>1, ExistingIsSound DEF Inv
  <2>2. \A h \in Owners : h \in Handle /\ ToSet(Elements(h)) = OwnedBy(sets[h])
    BY <2>1 DEF Owners, OwnedBy
  <2>3. \A h \in Handle : OwnedBy(sets[h]) # {} => h \in Owners
    BY <2>1 DEF Owners, OwnedBy, Exists
  <2>4. Owned \subseteq Element
    BY <1>1, <2>2, ExistingIsSound DEF Owned, Owners, Inv
  <2>5. Element = held \union freed \union Owned
    BY <1>1, <2>2, <2>3, <2>4 DEF Owned, Inv, Ownership
  <2>6. Owned \intersect (held \union freed) = {}
    BY <1>1, <2>2 DEF Owned, Inv, Ownership
  <2>7. ASSUME NEW h \in Owners, NEW k \in Owners,
               NEW i \in DOMAIN Elements(h), NEW j \in DOMAIN Elements(k),
               Elements(h)[i] = Elements(k)[j]
        PROVE  h = k /\ i = j
    <3>1. h = k
      <4>1. Elements(h)[i] \in OwnedBy(sets[h]) /\ Elements(h)[i] \in OwnedBy(sets[k])
        <5>1. Elements(h)[i] \in ToSet(Elements(h)) /\ Elements(k)[j] \in ToSet(Elements(k))
          BY DEF ToSet
        <5> QED BY <2>2, <2>7, <5>1
      <4> QED BY <1>1, <2>2, <4>1 DEF Inv, Ownership
    <3>2. DistinctKeys(sets[h]) /\ Elements(h) = sets[h].elements
      BY <2>1 DEF Owners, SoundSet
    <3> QED BY <2>7, <3>1, <3>2 DEF DistinctKeys
  <2>8. \A h \in Handle : Exists(h) /\ ~ Frees(h) => ToSet(Elements(h)) \subseteq held
    BY <1>1, <2>1 DEF Inv, Ownership, LentTo
  <2> QED BY <1>1, <2>5, <2>6, <2>7, <2>8 DEF OneOwner, Inv, Ownership
<1> QED BY <1>1, InvInit, InvStep, PTL DEF Spec

(* The arrays implement sets of keys: every operation on the arrays is the *)
(* operation of KeySets on what they hold, or changes nothing there.       *)
THEOREM KeySetsRefined == Spec => KeySetsSpec
<1>1. Init => KS!Init
  BY DEF Init, KS!Init, Exists
<1>2. Inv /\ [Next]_vars => [KS!Next]_Content
  BY InvStep
<1>3. Spec => []Inv
  BY InvInit, InvStep, PTL DEF Spec
<1>4. KeySetsSpec <=> KS!Init /\ [][KS!Next]_Content
  BY DEF KeySetsSpec, KS!Spec, Content
<1> QED BY <1>1, <1>2, <1>3, <1>4, PTL DEF Spec
=============================================================================
