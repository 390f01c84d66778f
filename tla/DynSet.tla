------------------------------- MODULE DynSet -------------------------------
(***************************************************************************)
(* stdlib/data_structures/set.c: sets of pointers kept in growing arrays.  *)
(* set->compare tells elements apart by what they hold (their key), so     *)
(* that two pointers may be equal.  A set with a destructor (free_element) *)
(* frees the elements it gives up; its caller hands it an element that no  *)
(* other set holds and does not derive sets from it, which would share its *)
(* elements.  Growth is taken to succeed.                                  *)
(***************************************************************************)
EXTENDS Integers, Sequences, FiniteSets, SequencesExt

CONSTANTS
    Handle,           \* variables of type Set* in the caller
    Key, Copy,        \* an element is a pointer <<key, copy>>
    NoSet,            \* NULL
    InitialCapacity,  \* INITIAL_CAPACITY
    GrowthFactor      \* GROWTH_FACTOR

ASSUME SetAssumption ==
    InitialCapacity \in Nat \ {0} /\ GrowthFactor \in Nat \ {0, 1}

Element == Key \X Copy
KeyOf(e) == e[1]

SetRecord == [elements : Seq(Element), capacity : Nat \ {0}, frees : BOOLEAN]

(* NULL is not the address of a set, nor what an abstract set holds.       *)
ASSUME NoSetAssumption ==
    NoSet \notin SetRecord /\ \A keys \in SUBSET Key : keys # NoSet

VARIABLES
    sets,      \* per handle NoSet or [elements, capacity, frees]
    held,      \* history: elements that are the caller's to free
    freed,     \* history: elements handed to free_element
    misused    \* history: free_element was given a freed element

vars == <<sets, held, freed, misused>>

Exists(h) == sets[h] # NoSet
Elements(h) == sets[h].elements
Frees(h) == sets[h].frees

-----------------------------------------------------------------------------
(* Mistakes an author of this code could have made: each is an operation   *)
(* below with one thing wrong, and a property must notice it.              *)

(* No array is allocated for a new set.                                    *)
EmptyUnallocated(frees) == [elements |-> <<>>, capacity |-> 0, frees |-> frees]

(* An equal element is not looked for.                                     *)
AddAlways(s, e) ==
    [s EXCEPT !.elements = Append(@, e),
              !.capacity = IF Len(s.elements) >= @ THEN GrowthFactor * @ ELSE @]

(* Elements are looked up by address.                                      *)
IntersectionByAddress(s, t) ==
    [s EXCEPT !.elements = SelectSeq(@, LAMBDA e : e \in ToSet(t.elements))]

(* The caller's pointer is freed, not the equal one the set holds.         *)
RemoveArgument(h, e) ==
    /\ Exists(h)
    /\ \E i \in DOMAIN Elements(h) :
          /\ KeyOf(Elements(h)[i]) = KeyOf(e)
          /\ sets' = [sets EXCEPT ![h].elements = RemoveAt(@, i)]
    /\ freed' = IF Frees(h) THEN freed \union {e} ELSE freed
    /\ misused' = (misused \/ (Frees(h) /\ e \in freed))
    /\ UNCHANGED held

-----------------------------------------------------------------------------

(* find_element: the index of the first element equal to e, 0 if none.     *)
FindElement(s, e) == SelectInSeq(s.elements, LAMBDA x : KeyOf(x) = KeyOf(e))
HasElement(s, e) == FindElement(s, e) # 0

Empty(frees) ==
    [elements |-> <<>>, capacity |-> InitialCapacity, frees |-> frees]

(* set_add: an element that is not there yet goes to the end of the array, *)
(* which is made larger first if it is full.                               *)
AddTo(s, e) ==
    IF HasElement(s, e) THEN s
    ELSE [s EXCEPT !.elements = Append(@, e),
                   !.capacity = IF Len(s.elements) >= @ THEN GrowthFactor * @ ELSE @]

(* The loops of the derived sets: each element of es that is wanted is     *)
(* added in turn; Collecting(s, es, wanted)[i] is the set after i turns.   *)
Collecting(s, es, wanted) ==
    LET set[i \in 0 .. Len(es)] ==
            IF i = 0 THEN s
            ELSE IF es[i] \in wanted THEN AddTo(set[i - 1], es[i]) ELSE set[i - 1]
    IN  set

Collect(s, es, wanted) == Collecting(s, es, wanted)[Len(es)]

Matching(t) == {e \in Element : HasElement(t, e)}

(* The derived sets; the result has the destructor of the first operand.   *)
UnionOf(s, t) ==
    Collect(Collect(Empty(s.frees), s.elements, Element), t.elements, Element)
IntersectionOf(s, t) == Collect(Empty(s.frees), s.elements, Matching(t))
DifferenceOf(s, t) == Collect(Empty(s.frees), s.elements, Element \ Matching(t))

IsSubset(s, t) == \A i \in DOMAIN s.elements : HasElement(t, s.elements[i])
Equals(s, t) ==
    Len(s.elements) = Len(t.elements) /\ IsSubset(s, t) /\ IsSubset(t, s)

-----------------------------------------------------------------------------
(* set h gives up the elements of es: it frees them if it has a destructor *)
GiveUp(h, es) ==
    IF Frees(h)
    THEN /\ freed' = freed \union es
         /\ misused' = (misused \/ es \intersect freed # {})
    ELSE UNCHANGED <<freed, misused>>

Become(h, s) == sets' = [sets EXCEPT ![h] = s]

InSets == UNION {ToSet(Elements(h)) : h \in {x \in Handle : Exists(x)}}

Init ==
    /\ sets = [h \in Handle |-> NoSet]
    /\ held = Element /\ freed = {} /\ misused = FALSE

Create(h, frees) ==
    /\ ~ Exists(h)
    /\ Become(h, Empty(frees))
    /\ UNCHANGED <<held, freed, misused>>

Destroy(h) ==
    /\ Exists(h)
    /\ GiveUp(h, ToSet(Elements(h)))
    /\ Become(h, NoSet)
    /\ UNCHANGED held

Clear(h) ==
    /\ Exists(h)
    /\ GiveUp(h, ToSet(Elements(h)))
    /\ Become(h, [sets[h] EXCEPT !.elements = <<>>])
    /\ UNCHANGED held

(* set_add; an element that a set with a destructor takes is no longer the *)
(* caller's, and the caller still has one that is refused.                 *)
Add(h, e) ==
    /\ Exists(h) /\ e \in held
    /\ Frees(h) => e \notin InSets
    /\ Become(h, AddTo(sets[h], e))
    /\ held' = IF Frees(h) /\ ~ HasElement(sets[h], e) THEN held \ {e} ELSE held
    /\ UNCHANGED <<freed, misused>>

(* set_remove: the element that is freed is the one the set holds, which   *)
(* need not be the one the caller names.                                   *)
RemoveElement(h, e) ==
    /\ Exists(h) /\ e \notin freed
    /\ LET i == FindElement(sets[h], e)
       IN  /\ i # 0
           /\ GiveUp(h, {Elements(h)[i]})
           /\ Become(h, [sets[h] EXCEPT !.elements = RemoveAt(@, i)])
    /\ UNCHANGED held

(* set_union, set_intersection and set_difference.                         *)
Combine(h, a, b) ==
    /\ ~ Exists(h) /\ Exists(a) /\ Exists(b)
    /\ ~ Frees(a) /\ ~ Frees(b)
    /\ \E s \in {UnionOf(sets[a], sets[b]), IntersectionOf(sets[a], sets[b]),
                 DifferenceOf(sets[a], sets[b])} : Become(h, s)
    /\ UNCHANGED <<held, freed, misused>>

Next ==
    \E h \in Handle :
        \/ \E frees \in BOOLEAN : Create(h, frees)
        \/ Destroy(h) \/ Clear(h)
        \/ \E e \in Element : Add(h, e) \/ RemoveElement(h, e)
        \/ \E a, b \in Handle : Combine(h, a, b)

Spec == Init /\ [][Next]_vars

-----------------------------------------------------------------------------
(* A set that exists has an array that holds its elements.                 *)
TypeOK ==
    /\ sets \in [Handle -> SetRecord \union {NoSet}]
    /\ \A h \in Handle : Exists(h) => Len(Elements(h)) <= sets[h].capacity
    /\ held \subseteq Element /\ freed \subseteq Element
    /\ misused \in BOOLEAN

KeysOf(s) == {KeyOf(s.elements[i]) : i \in DOMAIN s.elements}

(* The arrays implement sets of keys, through any mix of operations on     *)
(* several sets, removals from the middle and derived sets included.       *)
KS == INSTANCE KeySets WITH
        content <- [h \in Handle |-> IF Exists(h) THEN KeysOf(sets[h]) ELSE NoSet]
KeySetsSpec == KS!Spec

(* set_is_subset and set_equals, which compare counts and search, agree    *)
(* with inclusion and equality of the sets of keys: no element is doubled. *)
ComparisonsAgree ==
    \A h, k \in {x \in Handle : Exists(x)} :
        /\ IsSubset(sets[h], sets[k]) <=> KeysOf(sets[h]) \subseteq KeysOf(sets[k])
        /\ Equals(sets[h], sets[k]) <=> KeysOf(sets[h]) = KeysOf(sets[k])

Owners == {h \in Handle : Exists(h) /\ Frees(h)}
Owned == UNION {ToSet(Elements(h)) : h \in Owners}

(* Every element is with the caller, in one set with a destructor (once),  *)
(* or freed once; the other sets hold nothing that could be freed under    *)
(* them.                                                                   *)
OneOwner ==
    /\ ~ misused
    /\ Element = held \union freed \union Owned
    /\ held \intersect freed = {}
    /\ Owned \intersect (held \union freed) = {}
    /\ \A h, k \in Owners : \A i \in DOMAIN Elements(h), j \in DOMAIN Elements(k) :
          Elements(h)[i] = Elements(k)[j] => h = k /\ i = j
    /\ \A h \in Handle : Exists(h) /\ ~ Frees(h) => ToSet(Elements(h)) \subseteq held
=============================================================================
