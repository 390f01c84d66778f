--------------------------- MODULE ResourceProofs ---------------------------
(***************************************************************************)
(* The invariants of ResourcePool, for every number of clients and units.  *)
(* The counters of the code count, and the clients' units are counted as   *)
(* the cardinality of a set, so that a request adds and a release removes  *)
(* an interval of the units of one client.                                 *)
(***************************************************************************)
EXTENDS ResourcePool, FiniteSetTheorems, TLAPS

-----------------------------------------------------------------------------
(* The units a .. b of one client.                                         *)
Block(c, a, b) == {c} \X (a .. b)

LEMMA BlockSize ==
    ASSUME NEW c, NEW a \in Nat, NEW n \in Nat
    PROVE  /\ IsFiniteSet(Block(c, a + 1, a + n))
           /\ Cardinality(Block(c, a + 1, a + n)) = n
<1>1. IsFiniteSet({c}) /\ Cardinality({c}) = 1
  BY FS_Singleton
<1>2. IsFiniteSet(a + 1 .. a + n) /\ Cardinality(a + 1 .. a + n) = n
  <2>1. /\ IsFiniteSet(a + 1 .. a + n)
        /\ Cardinality(a + 1 .. a + n)
             = IF a + 1 > a + n THEN 0 ELSE (a + n) - (a + 1) + 1
    BY FS_Interval
  <2>2. (IF a + 1 > a + n THEN 0 ELSE (a + n) - (a + 1) + 1) = n
    OBVIOUS
  <2> QED
    BY <2>1, <2>2
<1>3. Cardinality({c} \X (a + 1 .. a + n)) = Cardinality({c}) * Cardinality(a + 1 .. a + n)
  BY <1>1, <1>2, FS_Product
<1>4. IsFiniteSet({c} \X (a + 1 .. a + n))
  BY <1>1, <1>2, FS_Product
<1>5. 1 * n = n
  OBVIOUS
<1> QED
  BY <1>1, <1>2, <1>3, <1>4, <1>5, Zenon DEF Block

LEMMA UnitsAreFinite ==
    IsFiniteSet(Units) /\ Held \in Nat
<1>1. IsFiniteSet(1 .. MaxHeld)
  BY PoolAssumption, FS_Interval
<1>2. IsFiniteSet(Client \X (1 .. MaxHeld))
  BY <1>1, PoolAssumption, FS_Product
<1>3. Units \subseteq Client \X (1 .. MaxHeld)
  BY DEF Units
<1>4. IsFiniteSet(Units)
  BY <1>2, <1>3, FS_Subset
<1> QED
  BY <1>4, FS_CardinalityType DEF Held

(* The set of units when hold is h.                                        *)
UnitsOf(h) == {u \in Client \X (1 .. MaxHeld) : u[2] <= h[u[1]]}

(* A client that gets n units makes the set larger by n.                   *)
LEMMA Grows ==
    ASSUME NEW h \in [Client -> 0 .. MaxHeld], NEW c \in Client,
           NEW n \in Nat, h[c] + n <= MaxHeld, IsFiniteSet(UnitsOf(h))
    PROVE  /\ [h EXCEPT ![c] = h[c] + n] \in [Client -> 0 .. MaxHeld]
           /\ Cardinality(UnitsOf([h EXCEPT ![c] = h[c] + n]))
                = Cardinality(UnitsOf(h)) + n
<1> DEFINE g == [h EXCEPT ![c] = h[c] + n]
           B == Block(c, h[c] + 1, h[c] + n)
<1>0. MaxHeld \in Nat /\ h[c] \in Nat
  BY PoolAssumption
<1>1. g \in [Client -> 0 .. MaxHeld]
  BY <1>0
<1>2. UnitsOf(g) = UnitsOf(h) \union B
  <2>1. ASSUME NEW u \in UnitsOf(g)
        PROVE  u \in UnitsOf(h) \union B
    <3>1. u \in Client \X (1 .. MaxHeld) /\ u[2] <= g[u[1]]
      BY <2>1 DEF UnitsOf
    <3>2. CASE u[1] = c
      BY <1>0, <3>1, <3>2 DEF UnitsOf, Block
    <3>3. CASE u[1] # c
      BY <3>1, <3>3 DEF UnitsOf
    <3> QED
      BY <3>2, <3>3
  <2>2. ASSUME NEW u \in UnitsOf(h)
        PROVE  u \in UnitsOf(g)
    <3>1. u \in Client \X (1 .. MaxHeld) /\ u[2] <= h[u[1]]
      BY <2>2 DEF UnitsOf
    <3>2. h[u[1]] <= g[u[1]] /\ h[u[1]] \in Nat /\ g[u[1]] \in Nat
      BY <1>0, <3>1
    <3> QED
      BY <3>1, <3>2 DEF UnitsOf
  <2>3. ASSUME NEW u \in B
        PROVE  u \in UnitsOf(g)
    <3>1. u \in {c} \X (h[c] + 1 .. h[c] + n)
      BY DEF Block
    <3>2. u \in Client \X (1 .. MaxHeld) /\ u[1] = c /\ u[2] <= h[c] + n
      BY <1>0, <3>1
    <3>3. g[c] = h[c] + n
      OBVIOUS
    <3> QED
      BY <3>2, <3>3 DEF UnitsOf
  <2> HIDE DEF g, B
  <2> QED
    BY <2>1, <2>2, <2>3
<1>3. UnitsOf(h) \intersect B = {}
  <2> SUFFICES ASSUME NEW u \in UnitsOf(h), u \in B PROVE FALSE
    OBVIOUS
  <2>1. u[1] = c /\ u[2] \in h[c] + 1 .. h[c] + n
    BY DEF Block
  <2>2. u[2] <= h[c]
    BY <2>1 DEF UnitsOf
  <2> QED
    BY <1>0, <2>1, <2>2
<1>4. IsFiniteSet(B) /\ Cardinality(B) = n
  BY <1>0, BlockSize
<1>5. Cardinality(UnitsOf(h)) \in Nat
  BY FS_CardinalityType
<1> HIDE DEF B
<1>6. Cardinality(UnitsOf(h) \union B) = Cardinality(UnitsOf(h)) + n
  <2>1. Cardinality(UnitsOf(h) \union B)
          = Cardinality(UnitsOf(h)) + Cardinality(B) - Cardinality({})
    BY <1>3, <1>4, FS_Union
  <2>2. Cardinality({}) = 0
    BY FS_EmptySet
  <2> QED
    BY <1>4, <1>5, <2>1, <2>2
<1> QED
  BY <1>1, <1>2, <1>6

-----------------------------------------------------------------------------
PoolInv == TypeOK /\ Partitioned /\ BusyMeansInUse

LEMMA PoolInit == Init => PoolInv
<1> SUFFICES ASSUME Init PROVE PoolInv
  OBVIOUS
<1>1. TypeOK /\ Partitioned
  BY PoolAssumption DEF Init, TypeOK, Partitioned
<1>2. Units = {}
  BY DEF Init, Units
<1>3. Held = 0
  BY <1>2, FS_EmptySet DEF Held
<1> QED
  BY <1>1, <1>3 DEF Init, PoolInv, BusyMeansInUse

LEMMA PoolNext ==
    ASSUME PoolInv, [Next]_vars
    PROVE  PoolInv'
<1>0. /\ Total \in Nat /\ MaxHeld \in Nat
      /\ available_units \in Nat /\ busy_units \in Nat /\ lost \in Nat
      /\ available_units + busy_units = Total
      /\ hold \in [Client -> 0 .. MaxHeld]
      /\ busy_units = Held - lost
  BY PoolAssumption DEF PoolInv, TypeOK, Partitioned, BusyMeansInUse
<1>1. /\ Units = UnitsOf(hold) /\ Units' = UnitsOf(hold')
      /\ IsFiniteSet(Units) /\ Held \in Nat /\ Held' = Cardinality(UnitsOf(hold'))
  BY UnitsAreFinite DEF Units, UnitsOf, Held
<1>2. ASSUME NEW c \in Client, NEW n \in 1 .. Total, Request(c, n)
      PROVE  PoolInv'
  <2>1. /\ hold' = [hold EXCEPT ![c] = hold[c] + n]
        /\ hold[c] + n <= MaxHeld /\ n \in Nat
    BY <1>0, <1>2 DEF Request
  <2>2. hold' \in [Client -> 0 .. MaxHeld] /\ Held' = Held + n
    <3>1. /\ [hold EXCEPT ![c] = hold[c] + n] \in [Client -> 0 .. MaxHeld]
          /\ Cardinality(UnitsOf([hold EXCEPT ![c] = hold[c] + n]))
               = Cardinality(UnitsOf(hold)) + n
      BY <1>0, <1>1, <2>1, Grows
    <3> QED
      BY <1>1, <2>1, <3>1 DEF Held
  <2>3. /\ available_units' = available_units - n /\ busy_units' = busy_units + n
        /\ available_units >= n /\ lost' = lost
    BY <1>2 DEF Request
  <2> QED
    BY <1>0, <1>1, <2>2, <2>3 DEF PoolInv, TypeOK, Partitioned, BusyMeansInUse
<1>3. ASSUME NEW c \in Client, NEW n \in 1 .. Total, Release(c, n)
      PROVE  PoolInv'
  <2>1. /\ hold' = [hold EXCEPT ![c] = @ - n] /\ n <= hold[c]
    BY <1>3 DEF Release
  <2>2. hold' \in [Client -> 0 .. MaxHeld]
    BY <1>0, <2>1
  <2> DEFINE back == [hold' EXCEPT ![c] = hold'[c] + n]
  <2>3. back = hold /\ hold'[c] + n <= MaxHeld /\ n \in Nat
    <3>1. hold'[c] = hold[c] - n /\ hold[c] \in 0 .. MaxHeld
      BY <1>0, <2>1
    <3>2. n \in Nat /\ hold'[c] + n = hold[c] /\ hold'[c] + n <= MaxHeld
      BY <1>0, <2>1, <3>1
    <3>3. \A d \in Client : back[d] = hold[d]
      BY <1>0, <2>1, <2>2, <3>2
    <3>4. back \in [Client -> 0 .. MaxHeld]
      BY <1>0, <2>2, <3>1, <3>2
    <3> HIDE DEF back
    <3> QED
      BY <1>0, <3>2, <3>3, <3>4
  <2>4. IsFiniteSet(Units')
    <3>1. Units' \subseteq Client \X (1 .. MaxHeld)
      BY <1>1 DEF UnitsOf
    <3>2. IsFiniteSet(1 .. MaxHeld)
      BY PoolAssumption, FS_Interval
    <3> QED
      BY <3>1, <3>2, PoolAssumption, FS_Product, FS_Subset
  <2>5. Cardinality(UnitsOf(hold)) = Cardinality(UnitsOf(hold')) + n
    <3>1. Cardinality(UnitsOf(back)) = Cardinality(UnitsOf(hold')) + n
      BY <1>1, <2>2, <2>3, <2>4, Grows
    <3> QED
      BY <2>3, <3>1, Zenon
  <2>6. Held = Held' + n /\ Held' \in Nat
    BY <1>1, <2>4, <2>5, FS_CardinalityType DEF Held
  <2>7. /\ available_units' = available_units + n /\ busy_units' = busy_units - n
        /\ n <= busy_units /\ lost' = lost
    BY <1>3 DEF Release
  <2>8. /\ available_units' \in 0 .. Total /\ busy_units' \in 0 .. Total
        /\ available_units' + busy_units' = Total
        /\ busy_units' = Held' - lost' /\ lost' \in Nat
    BY <1>0, <1>1, <2>6, <2>7
  <2> QED
    BY <2>2, <2>8 DEF PoolInv, TypeOK, Partitioned, BusyMeansInUse
<1>4. CASE Reset
  <2>1. available_units' = Total /\ busy_units' = 0 /\ lost' = Held /\ hold' = hold
    BY <1>4 DEF Reset
  <2>2. Held' = Held
    BY <1>1, <2>1 DEF Held
  <2> QED
    BY <1>0, <1>1, <2>1, <2>2 DEF PoolInv, TypeOK, Partitioned, BusyMeansInUse
<1>5. CASE UNCHANGED vars
  <2>1. Held' = Held
    BY <1>5 DEF vars, Held, Units
  <2> QED
    BY <1>5, <2>1 DEF vars, PoolInv, TypeOK, Partitioned, BusyMeansInUse
<1> QED
  BY <1>2, <1>3, <1>4, <1>5 DEF Next

LEMMA AlwaysPoolInv == Spec => []PoolInv
  BY PoolInit, PoolNext, PTL DEF Spec

(* Both counters stay between 0 and total_units.                           *)
THEOREM CountersInRange == Spec => []TypeOK
<1>1. PoolInv => TypeOK
  BY DEF PoolInv
<1> QED
  BY <1>1, AlwaysPoolInv, PTL

(* The two counters partition total_units, whoever requests, releases and  *)
(* resets what.                                                            *)
THEOREM CountersPartition == Spec => []Partitioned
<1>1. PoolInv => Partitioned
  BY DEF PoolInv
<1> QED
  BY <1>1, AlwaysPoolInv, PTL

(* busy_units counts the units in the clients' hands, less those that a    *)
(* reset has forgotten.                                                    *)
THEOREM BusyUnitsAreInUse == Spec => []BusyMeansInUse
<1>1. PoolInv => BusyMeansInUse
  BY DEF PoolInv
<1> QED
  BY <1>1, AlwaysPoolInv, PTL
=============================================================================
