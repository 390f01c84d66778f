-------------------------- MODULE RingQueueProofs --------------------------
(***************************************************************************)
(* As long as malloc does not fail, the ring buffer implements the FIFO    *)
(* queue, for every set of elements, initial capacity and growth factor.   *)
(***************************************************************************)
EXTENDS RingQueue, SequenceTheorems, TLAPS

(* An index less than two rounds from the start, brought back into the     *)
(* ring.                                                                   *)
LEMMA OneRound ==
    ASSUME NEW c \in Nat \ {0}, NEW x \in Nat, x < 2 * c
    PROVE  x % c = IF x < c THEN x ELSE x - c
  BY SMTT(60)

(* The slot k places behind f in a ring of c slots.                        *)
Pos(f, c, k) == IF f + k < c THEN f + k ELSE f + k - c

(* The contents of a ring of which n slots from f on are used, and the     *)
(* same as the code finds them.                                            *)
Contents(el, f, c, n) == [i \in 1 .. n |-> el[Pos(f, c, i - 1)]]
Traversed(el, f, c, n) == [i \in 1 .. n |-> el[(f + (i - 1)) % c]]

(* The fields point into the ring, and every used slot holds an element.   *)
Ring(el, f, r, c, n) ==
    /\ c \in Nat \ {0}
    /\ el \in [Slots(c) -> Element \union {Junk}]
    /\ f \in Slots(c)
    /\ n \in 0 .. c
    /\ r = (IF n = c THEN f ELSE Pos(f, c, n))
    /\ \A k \in Slots(n) : el[Pos(f, c, k)] \in Element

RInv == Ring(elements, front, rear, capacity, count)

LEMMA RingContents ==
    ASSUME NEW el, NEW f, NEW r, NEW c, NEW n, Ring(el, f, r, c, n)
    PROVE  /\ Traversed(el, f, c, n) = Contents(el, f, c, n)
           /\ Contents(el, f, c, n) \in Seq(Element)
           /\ Len(Contents(el, f, c, n)) = n
           /\ r = (f + n) % c
  <1>1. c \in Nat \ {0} /\ f \in 0 .. c - 1 /\ n \in 0 .. c
    BY DEF Ring, Slots
  <1>2. ASSUME NEW k \in 0 .. c PROVE (f + k) % c = Pos(f, c, k)
    <2> DEFINE x == f + k
    <2>1. x \in Nat /\ x < 2 * c
      BY <1>1
    <2>2. x % c = IF x < c THEN x ELSE x - c
      <3> HIDE DEF x
      <3> QED
        BY <1>1, <2>1, OneRound
    <2> QED
      BY <1>1, <2>1, <2>2 DEF Pos
  <1>3. \A i \in 1 .. n : i - 1 \in 0 .. c /\ i - 1 \in Slots(n)
    BY <1>1 DEF Slots
  <1>4. Traversed(el, f, c, n) = Contents(el, f, c, n)
    BY <1>2, <1>3 DEF Traversed, Contents
  <1>5. \A i \in 1 .. n : el[Pos(f, c, i - 1)] \in Element
    BY <1>3 DEF Ring
  <1>6. Contents(el, f, c, n) \in Seq(Element) /\ Len(Contents(el, f, c, n)) = n
    BY <1>1, <1>5 DEF Contents
  <1>7. r = (f + n) % c
    <2>1. (f + n) % c = Pos(f, c, n) /\ n \in 0 .. c
      BY <1>1, <1>2
    <2>2. n = c => Pos(f, c, n) = f
      BY <1>1 DEF Pos
    <2> QED
      BY <2>1, <2>2 DEF Ring
  <1> QED
    BY <1>4, <1>6, <1>7

(* What Tail and Append make of a sequence, as functions on 1 .. n.         *)
LEMMA TailIs ==
    ASSUME NEW S, NEW s \in Seq(S), NEW n \in Nat \ {0}, Len(s) = n
    PROVE  Tail(s) = [i \in 1 .. n - 1 |-> s[i + 1]]
  <1> DEFINE t == Tail(s)
  <1>1. t \in Seq(S) /\ Len(t) = n - 1 /\ \A i \in 1 .. n - 1 : t[i] = s[i + 1]
    BY HeadTailProperties
  <1> HIDE DEF t
  <1>2. t = [i \in 1 .. n - 1 |-> t[i]]
    BY <1>1
  <1>3. t = [i \in 1 .. n - 1 |-> s[i + 1]]
    BY <1>1, <1>2, Zenon
  <1> QED
    BY <1>3 DEF t

LEMMA AppendIs ==
    ASSUME NEW S, NEW s \in Seq(S), NEW e \in S, NEW n \in Nat, Len(s) = n
    PROVE  Append(s, e) = [i \in 1 .. n + 1 |-> IF i = n + 1 THEN e ELSE s[i]]
  <1> DEFINE a == Append(s, e)
  <1>1. /\ a \in Seq(S) /\ Len(a) = n + 1
        /\ \A i \in 1 .. n : a[i] = s[i]
        /\ a[n + 1] = e
    BY AppendProperties
  <1> HIDE DEF a
  <1>2. a = [i \in 1 .. n + 1 |-> a[i]]
    BY <1>1
  <1>3. \A i \in 1 .. n + 1 : a[i] = IF i = n + 1 THEN e ELSE s[i]
    BY <1>1
  <1>4. a = [i \in 1 .. n + 1 |-> IF i = n + 1 THEN e ELSE s[i]]
    BY <1>2, <1>3, Zenon
  <1> QED
    BY <1>4 DEF a

-----------------------------------------------------------------------------
(* The three things that happen to a ring.                                 *)

(* The front moves on: the first element is gone.                          *)
LEMMA RingTake ==
    ASSUME NEW el, NEW f, NEW r, NEW c, NEW n, Ring(el, f, r, c, n), n # 0
    PROVE  /\ Ring(el, (f + 1) % c, r, c, n - 1)
           /\ Contents(el, (f + 1) % c, c, n - 1) = Tail(Contents(el, f, c, n))
           /\ el[f] = Head(Contents(el, f, c, n)) /\ el[f] \in Element
  <1> DEFINE g == (f + 1) % c
  <1>1. c \in Nat \ {0} /\ f \in 0 .. c - 1 /\ n \in 1 .. c
    BY DEF Ring, Slots
  <1>2. g = IF f + 1 < c THEN f + 1 ELSE 0
    <2> DEFINE x == f + 1
    <2>1. x \in Nat /\ x < 2 * c /\ x <= c
      BY <1>1
    <2>2. x % c = IF x < c THEN x ELSE x - c
      <3> HIDE DEF x
      <3> QED
        BY <1>1, <2>1, OneRound
    <2> QED
      BY <1>1, <2>1, <2>2
  <1> HIDE DEF g
  <1>3. ASSUME NEW k \in Slots(n - 1)
        PROVE  Pos(g, c, k) = Pos(f, c, k + 1) /\ k + 1 \in Slots(n)
    BY <1>1, <1>2 DEF Pos, Slots
  <1>4. Ring(el, g, r, c, n - 1)
    <2>1. r = Pos(g, c, n - 1)
      <3>1. r = IF n = c THEN f ELSE Pos(f, c, n)
        BY DEF Ring
      <3> QED
        BY <1>1, <1>2, <3>1 DEF Pos
    <2>2. n - 1 \in 0 .. c /\ n - 1 # c /\ g \in Slots(c)
      BY <1>1, <1>2 DEF Slots
    <2> QED
      BY <1>3, <2>1, <2>2 DEF Ring
  <1>5. Contents(el, f, c, n) \in Seq(Element) /\ Len(Contents(el, f, c, n)) = n
    BY RingContents
  <1>6. Tail(Contents(el, f, c, n))
          = [i \in 1 .. n - 1 |-> Contents(el, f, c, n)[i + 1]]
    <2> DEFINE s == Contents(el, f, c, n)
    <2>1. s \in Seq(Element) /\ Len(s) = n
      BY <1>5
    <2> HIDE DEF s
    <2>2. Tail(s) = [i \in 1 .. n - 1 |-> s[i + 1]]
      BY <1>1, <2>1, TailIs
    <2> QED
      BY <2>2 DEF s
  <1>7. \A i \in 1 .. n - 1 : Contents(el, f, c, n)[i + 1] = el[Pos(f, c, i)]
    BY <1>1 DEF Contents
  <1>8. \A i \in 1 .. n - 1 : Pos(g, c, i - 1) = Pos(f, c, i)
    BY <1>1, <1>3 DEF Slots
  <1>9. Contents(el, g, c, n - 1) = Tail(Contents(el, f, c, n))
    BY <1>6, <1>7, <1>8 DEF Contents
  <1>10. el[f] = Head(Contents(el, f, c, n)) /\ el[f] \in Element
    <2>1. Pos(f, c, 0) = f /\ 0 \in Slots(n)
      BY <1>1 DEF Pos, Slots
    <2>2. Contents(el, f, c, n)[1] = el[Pos(f, c, 0)]
      BY <1>1 DEF Contents
    <2> QED
      BY <1>1, <1>5, <2>1, <2>2 DEF Ring
  <1> QED
    BY <1>4, <1>9, <1>10 DEF g

(* An element is stored at the rear of a ring that is not full.            *)
LEMMA RingPut ==
    ASSUME NEW el, NEW f, NEW r, NEW c, NEW n, Ring(el, f, r, c, n), n # c,
           NEW e \in Element
    PROVE  /\ Ring([el EXCEPT ![r] = e], f, (r + 1) % c, c, n + 1)
           /\ Contents([el EXCEPT ![r] = e], f, c, n + 1)
                = Append(Contents(el, f, c, n), e)
  <1> DEFINE q == (r + 1) % c
             el2 == [el EXCEPT ![r] = e]
  <1>1. c \in Nat \ {0} /\ f \in 0 .. c - 1 /\ n \in 0 .. c - 1 /\ r = Pos(f, c, n)
    BY DEF Ring, Slots
  <1>2. r \in 0 .. c - 1
    BY <1>1 DEF Pos
  <1>3. q = IF r + 1 < c THEN r + 1 ELSE 0
    <2> DEFINE x == r + 1
    <2>1. x \in Nat /\ x < 2 * c /\ x <= c
      BY <1>1, <1>2
    <2>2. x % c = IF x < c THEN x ELSE x - c
      <3> HIDE DEF x
      <3> QED
        BY <1>1, <2>1, OneRound
    <2> QED
      BY <1>1, <2>1, <2>2
  <1> HIDE DEF q
  <1>4. q = IF n + 1 = c THEN f ELSE Pos(f, c, n + 1)
    BY <1>1, <1>3 DEF Pos
  <1>5. el \in [0 .. c - 1 -> Element \union {Junk}]
    BY DEF Ring, Slots
  <1>6. el2 \in [0 .. c - 1 -> Element \union {Junk}] /\ el2[r] = e
        /\ \A j \in 0 .. c - 1 : j # r => el2[j] = el[j]
    BY <1>2, <1>5
  <1> HIDE DEF el2
  <1>7. ASSUME NEW k \in 0 .. n
        PROVE  /\ Pos(f, c, k) \in 0 .. c - 1
               /\ Pos(f, c, k) = r <=> k = n
    BY <1>1 DEF Pos
  <1>8. \A k \in 0 .. n : el2[Pos(f, c, k)] = IF k = n THEN e ELSE el[Pos(f, c, k)]
    BY <1>6, <1>7
  <1>9. Ring(el2, f, q, c, n + 1)
    <2>1. \A k \in 0 .. n - 1 : el[Pos(f, c, k)] \in Element
      BY DEF Ring, Slots
    <2>2. \A k \in 0 .. n : el2[Pos(f, c, k)] \in Element
      BY <1>1, <1>8, <2>1
    <2> QED
      BY <1>1, <1>4, <1>6, <2>2 DEF Ring, Slots
  <1>10. Contents(el, f, c, n) \in Seq(Element) /\ Len(Contents(el, f, c, n)) = n
    BY RingContents
  <1>11. Append(Contents(el, f, c, n), e)
           = [i \in 1 .. n + 1 |-> IF i = n + 1 THEN e ELSE Contents(el, f, c, n)[i]]
    BY <1>1, <1>10, AppendIs
  <1>12. \A i \in 1 .. n + 1 :
            el2[Pos(f, c, i - 1)] = IF i = n + 1 THEN e ELSE Contents(el, f, c, n)[i]
    BY <1>1, <1>8 DEF Contents
  <1>13. Contents(el2, f, c, n + 1) = Append(Contents(el, f, c, n), e)
    BY <1>11, <1>12 DEF Contents
  <1> QED
    BY <1>9, <1>13 DEF q, el2

(* A full ring is unwrapped into an array that has room for more.          *)
LEMMA RingGrow ==
    ASSUME RInv, count = capacity
    PROVE  /\ Ring(Grown.elements, Grown.front, Grown.rear, Grown.capacity, count)
           /\ Contents(Grown.elements, Grown.front, Grown.capacity, count)
                = Contents(elements, front, capacity, count)
           /\ count < Grown.capacity
  <1> DEFINE d == GrowthFactor * capacity
             first == capacity - front
             el2 == Grown.elements
  <1>1. /\ capacity \in Nat \ {0} /\ front \in 0 .. capacity - 1 /\ rear = front
        /\ count = capacity
        /\ elements \in [0 .. capacity - 1 -> Element \union {Junk}]
        /\ \A k \in 0 .. capacity - 1 : elements[Pos(front, capacity, k)] \in Element
    BY DEF RInv, Ring, Slots
  <1>2. d \in Nat \ {0} /\ d > capacity
    BY <1>1, QueueAssumption, SMTT(30)
  <1> HIDE DEF d
  <1>3. /\ Grown.front = 0 /\ Grown.rear = capacity /\ Grown.capacity = d
        /\ el2 = [i \in 0 .. d - 1 |->
                     IF i < first THEN Load(front + i)
                     ELSE IF i < first + front THEN Load(i - first) ELSE Junk]
    BY <1>1 DEF Grown, Slots, d
  <1>4. ASSUME NEW k \in 0 .. capacity - 1
        PROVE  el2[k] = elements[Pos(front, capacity, k)]
    <2>1. CASE k < first
      <3>1. Pos(front, capacity, k) = front + k /\ front + k \in 0 .. capacity - 1
        BY <1>1, <2>1 DEF Pos
      <3>2. Load(front + k) = elements[front + k]
        BY <1>1, <3>1 DEF Load
      <3> QED
        BY <1>1, <1>2, <1>3, <2>1, <3>1, <3>2
    <2>2. CASE ~ (k < first)
      <3>1. Pos(front, capacity, k) = k - first /\ k - first \in 0 .. capacity - 1
        BY <1>1, <2>2 DEF Pos
      <3>2. Load(k - first) = elements[k - first]
        BY <1>1, <3>1 DEF Load
      <3>3. k < first + front
        BY <1>1
      <3> QED
        BY <1>1, <1>2, <1>3, <2>2, <3>1, <3>2, <3>3
    <2> QED
      BY <2>1, <2>2
  <1>5. ASSUME NEW k \in 0 .. capacity - 1 PROVE Pos(0, d, k) = k
    BY <1>1, <1>2 DEF Pos
  <1>6. Pos(0, d, capacity) = capacity
    BY <1>1, <1>2 DEF Pos
  <1>7. el2 \in [0 .. d - 1 -> Element \union {Junk}]
    <2>1. \A i : Load(i) \in Element \union {Junk}
      BY <1>1 DEF Load
    <2> HIDE DEF first
    <2> QED
      BY <1>3, <2>1
  <1> HIDE DEF el2, first
  <1>8. Ring(el2, 0, capacity, d, capacity)
    <2>1. \A k \in 0 .. capacity - 1 : el2[Pos(0, d, k)] \in Element
      BY <1>1, <1>4, <1>5
    <2> QED
      BY <1>1, <1>2, <1>6, <1>7, <2>1 DEF Ring, Slots
  <1>9. Contents(el2, 0, d, capacity) = Contents(elements, front, capacity, capacity)
    <2>1. \A i \in 1 .. capacity :
             el2[Pos(0, d, i - 1)] = elements[Pos(front, capacity, i - 1)]
      BY <1>1, <1>4, <1>5
    <2> QED
      BY <2>1 DEF Contents
  <1> QED
    BY <1>1, <1>2, <1>3, <1>8, <1>9 DEF el2

-----------------------------------------------------------------------------
(* The operations.                                                         *)
Now == Contents(elements, front, capacity, count)

LEMMA ItemsAre ==
    /\ RInv => /\ Items = Now /\ Items \in Seq(Element) /\ Len(Items) = count
               /\ ItemSet = {Items[i] : i \in DOMAIN Items}
    /\ RInv' => Items' = Now'
  <1>1. /\ Items = Traversed(elements, front, capacity, count)
        /\ Items' = Traversed(elements', front', capacity', count')
    BY DEF Items, At, Traversed
  <1>2. RInv => Items = Now /\ Items \in Seq(Element) /\ Len(Items) = count
    BY <1>1, RingContents DEF RInv, Now
  <1>3. RInv' => Items' = Now'
    BY <1>1, RingContents DEF RInv, Now
  <1>4. ASSUME RInv PROVE ItemSet = {Items[i] : i \in DOMAIN Items}
    <2>1. count \in Nat
      BY <1>4 DEF RInv, Ring
    <2>2. \A k \in Slots(count) : k + 1 \in 1 .. count /\ Items[k + 1] = At(k)
      BY <2>1 DEF Items, Slots
    <2>3. \A i \in 1 .. count : i - 1 \in Slots(count) /\ Items[i] = At(i - 1)
      BY <2>1 DEF Items, Slots
    <2>4. DOMAIN Items = 1 .. count
      BY DEF Items
    <2> QED
      BY <2>2, <2>3, <2>4 DEF ItemSet
  <1> QED
    BY <1>2, <1>3, <1>4

LEMMA EnqueuePuts ==
    ASSUME RInv, ~ AllocMayFail, NEW e \in Element, Enqueue(e)
    PROVE  RInv' /\ FQ!Put(e)
  <1>1. PICK r \in Resized :
          /\ elements' = [r.elements EXCEPT ![r.rear] = e]
          /\ rear' = (r.rear + 1) % r.capacity
          /\ front' = r.front
          /\ capacity' = r.capacity
    BY DEF Enqueue
  <1>2. /\ Ring(r.elements, r.front, r.rear, r.capacity, count)
        /\ Contents(r.elements, r.front, r.capacity, count) = Now
        /\ count # r.capacity
    <2>1. CASE count >= capacity
      <3>1. r = Grown /\ count = capacity
        BY <2>1 DEF Resized, RInv, Ring
      <3>2. count \in Nat /\ capacity \in Nat
        BY DEF RInv, Ring
      <3>3. count < Grown.capacity /\ Grown.capacity # count
        BY <3>1, <3>2, RingGrow, QueueAssumption DEF Grown
      <3> QED
        BY <3>1, <3>3, RingGrow DEF Now
    <2>2. CASE ~ (count >= capacity)
      <3>1. r = AsIs
        BY <2>2 DEF Resized
      <3>2. count # capacity
        BY <2>2 DEF RInv, Ring
      <3> QED
        BY <3>1, <3>2 DEF AsIs, RInv, Now
    <2> QED
      BY <2>1, <2>2
  <1>3. count' = count + 1
    BY DEF Enqueue
  <1>4. RInv' /\ Now' = Append(Now, e)
    BY <1>1, <1>2, <1>3, RingPut DEF RInv, Now
  <1> QED
    BY <1>4, ItemsAre DEF Enqueue, FQ!Put

LEMMA DequeueTakes == ASSUME RInv, Dequeue PROVE RInv' /\ FQ!Take
  <1>1. /\ count # 0 /\ count' = count - 1 /\ front' = (front + 1) % capacity
        /\ elements' = elements /\ capacity' = capacity /\ rear' = rear
    BY DEF RInv, Ring, Dequeue
  <1>2. RInv' /\ Now' = Tail(Now) /\ elements[front] = Head(Now)
        /\ elements[front] \in Element
    BY <1>1, RingTake DEF RInv, Now
  <1>3. held' = held \union {Head(Items)}
    BY <1>2, ItemsAre, QueueAssumption DEF Dequeue
  <1>4. Items # <<>>
    BY <1>1, ItemsAre
  <1> QED
    BY <1>2, <1>3, <1>4, ItemsAre DEF Dequeue, FQ!Take

LEMMA ClearDrops == ASSUME RInv, Clear PROVE RInv' /\ FQ!Drop
  <1>1. /\ count' = 0 /\ front' = 0 /\ rear' = 0
        /\ elements' = elements /\ capacity' = capacity
    BY DEF Clear
  <1>2. RInv'
    BY <1>1 DEF RInv, Ring, Pos, Slots
  <1>3. Items' = <<>>
    BY <1>1 DEF Items
  <1>4. ItemSet \ {Junk} = {Items[i] : i \in DOMAIN Items}
    <2>1. ItemSet = {Items[i] : i \in DOMAIN Items} /\ Items \in Seq(Element)
      BY ItemsAre
    <2> QED
      BY <2>1, QueueAssumption
  <1> QED
    BY <1>2, <1>3, <1>4 DEF Clear, FQ!Drop

-----------------------------------------------------------------------------
(* Ownership, as the operations of the abstract queue keep it.             *)
Owned(it, h, fr) ==
    /\ it \in Seq(Element)
    /\ \A i \in 1 .. Len(it) : it[i] \in Element \ (h \union fr)
    /\ \A i, j \in 1 .. Len(it) : i # j => it[i] # it[j]
    /\ h \subseteq Element /\ fr \subseteq Element /\ h \intersect fr = {}
    /\ \A e \in Element \ (h \union fr) : \E i \in 1 .. Len(it) : it[i] = e

LEMMA OwnedPut ==
    ASSUME NEW it, NEW h, NEW fr, Owned(it, h, fr), NEW e \in h
    PROVE  Owned(Append(it, e), h \ {e}, fr)
  <1> DEFINE a == Append(it, e)
  <1>1. it \in Seq(Element) /\ e \in Element /\ Len(it) \in Nat
    BY DEF Owned
  <1>2. /\ a \in Seq(Element) /\ Len(a) = Len(it) + 1
        /\ \A i \in 1 .. Len(it) : a[i] = it[i]
        /\ a[Len(it) + 1] = e
    BY <1>1, AppendProperties
  <1> HIDE DEF a
  <1>3. \A i \in 1 .. Len(a) : i \in 1 .. Len(it) \/ (i = Len(it) + 1 /\ a[i] = e)
    BY <1>1, <1>2
  <1>4. \A i \in 1 .. Len(it) : it[i] # e /\ i \in 1 .. Len(a)
    BY <1>1, <1>2 DEF Owned
  <1>5. \A i \in 1 .. Len(a) : a[i] \in Element \ ((h \ {e}) \union fr)
    BY <1>1, <1>2, <1>3 DEF Owned
  <1>6. \A i, j \in 1 .. Len(a) : i # j => a[i] # a[j]
    BY <1>2, <1>3, <1>4 DEF Owned
  <1>7. ASSUME NEW x \in Element \ ((h \ {e}) \union fr)
        PROVE  \E i \in 1 .. Len(a) : a[i] = x
    <2>1. CASE x = e
      BY <1>1, <1>2, <2>1
    <2>2. CASE x # e
      BY <1>2, <1>4, <2>2 DEF Owned
    <2> QED
      BY <2>1, <2>2
  <1> QED
    BY <1>2, <1>5, <1>6, <1>7 DEF Owned, a

LEMMA OwnedTake ==
    ASSUME NEW it, NEW h, NEW fr, Owned(it, h, fr), it # <<>>
    PROVE  Owned(Tail(it), h \union {Head(it)}, fr)
  <1> DEFINE t == Tail(it)
             e == Head(it)
  <1>1. it \in Seq(Element) /\ Len(it) \in Nat \ {0} /\ e = it[1] /\ 1 \in 1 .. Len(it)
    BY DEF Owned
  <1>2. /\ t \in Seq(Element) /\ Len(t) = Len(it) - 1
        /\ \A i \in 1 .. Len(t) : t[i] = it[i + 1]
    BY <1>1, HeadTailProperties
  <1> HIDE DEF t, e
  <1>3. \A i \in 1 .. Len(t) : i + 1 \in 1 .. Len(it) /\ i + 1 # 1 /\ t[i] # e
    BY <1>1, <1>2 DEF Owned
  <1>4. \A i \in 1 .. Len(it) : i = 1 \/ (i - 1 \in 1 .. Len(t) /\ t[i - 1] = it[i])
    BY <1>1, <1>2
  <1>5. e \in Element \ (h \union fr)
    BY <1>1 DEF Owned
  <1>6. \A i \in 1 .. Len(t) : t[i] \in Element \ ((h \union {e}) \union fr)
    BY <1>2, <1>3 DEF Owned
  <1>7. ASSUME NEW i \in 1 .. Len(t), NEW j \in 1 .. Len(t), i # j PROVE t[i] # t[j]
    <2>1. i + 1 \in 1 .. Len(it) /\ j + 1 \in 1 .. Len(it) /\ i + 1 # j + 1
      BY <1>3, <1>7
    <2> QED
      BY <1>2, <2>1 DEF Owned
  <1>8. ASSUME NEW x \in Element \ ((h \union {e}) \union fr)
        PROVE  \E i \in 1 .. Len(t) : t[i] = x
    <2>1. PICK i \in 1 .. Len(it) : it[i] = x
      BY DEF Owned
    <2>2. i # 1
      BY <1>1, <2>1
    <2> QED
      BY <1>4, <2>1, <2>2
  <1> QED
    BY <1>2, <1>5, <1>6, <1>7, <1>8 DEF Owned, t, e

LEMMA OwnedDrop ==
    ASSUME NEW it, NEW h, NEW fr, Owned(it, h, fr)
    PROVE  LET gone == {it[i] : i \in DOMAIN it} IN
           Owned(<<>>, h \union gone, fr) /\ Owned(<<>>, h, fr \union gone)
  <1> DEFINE gone == {it[i] : i \in DOMAIN it}
  <1>1. DOMAIN it = 1 .. Len(it)
    BY DEF Owned
  <1>2. gone \subseteq Element \ (h \union fr) /\ Element \ (h \union fr) \subseteq gone
    BY <1>1 DEF Owned
  <1> HIDE DEF gone
  <1>3. <<>> \in Seq(Element) /\ Len(<<>>) = 0 /\ 1 .. 0 = {}
    OBVIOUS
  <1>4. Owned(<<>>, h \union gone, fr) /\ Owned(<<>>, h, fr \union gone)
    BY <1>2, <1>3 DEF Owned
  <1> QED
    BY <1>4 DEF gone

-----------------------------------------------------------------------------
(* The invariant: the ring is a ring, and nothing is lost or in two places. *)
IInv == RInv /\ Owned(Items, held, freed)

LEMMA InitIInv == Init => IInv /\ FQ!Init
  <1> SUFFICES ASSUME Init PROVE IInv /\ FQ!Init
    OBVIOUS
  <1>1. capacity \in Nat \ {0}
    BY QueueAssumption DEF Init
  <1>2. RInv
    BY <1>1 DEF Init, RInv, Ring, Pos, Slots
  <1>3. Items = <<>>
    BY DEF Init, Items
  <1>4. Owned(<<>>, Element, {})
    BY DEF Owned
  <1> QED
    BY <1>2, <1>3, <1>4 DEF IInv, Init, FQ!Init

LEMMA NextIInv ==
    ASSUME IInv, ~ AllocMayFail, [Next]_vars
    PROVE  IInv' /\ [FQ!Next]_(FQ!vars)
  <1>1. Items \in Seq(Element)
    BY DEF IInv, Owned
  <1>2. ASSUME NEW e \in Element, Enqueue(e) PROVE IInv' /\ FQ!Next
    <2>1. RInv' /\ FQ!Put(e)
      BY <1>2, EnqueuePuts DEF IInv
    <2>2. Owned(Append(Items, e), held \ {e}, freed)
      BY <2>1, OwnedPut DEF IInv, FQ!Put
    <2> QED
      BY <2>1, <2>2 DEF IInv, FQ!Put, FQ!Next
  <1>3. CASE Dequeue
    <2>1. RInv' /\ FQ!Take
      BY <1>3, DequeueTakes DEF IInv
    <2>2. Owned(Tail(Items), held \union {Head(Items)}, freed)
      BY <2>1, OwnedTake DEF IInv, FQ!Take
    <2> QED
      BY <2>1, <2>2 DEF IInv, FQ!Take, FQ!Next
  <1>4. CASE Clear
    <2>1. RInv' /\ FQ!Drop
      BY <1>4, ClearDrops DEF IInv
    <2> DEFINE gone == {Items[i] : i \in DOMAIN Items}
    <2>2. Owned(<<>>, held \union gone, freed) /\ Owned(<<>>, held, freed \union gone)
      BY OwnedDrop DEF IInv
    <2>3. Owned(Items', held', freed')
      BY <2>1, <2>2 DEF FQ!Drop
    <2> QED
      BY <2>1, <2>3 DEF IInv, FQ!Next
  <1>5. CASE UNCHANGED vars
    <2>1. Items' = Items
      BY <1>5 DEF vars, Items, At
    <2> QED
      BY <1>5, <2>1 DEF vars, IInv, RInv, FQ!vars
  <1> QED
    BY <1>2, <1>3, <1>4, <1>5 DEF Next

(* The ring of every reachable state is well formed and owns its elements. *)
THEOREM AlwaysIInv == ASSUME ~ AllocMayFail PROVE Spec => []IInv
  <1>1. Init => IInv
    BY InitIInv
  <1>2. IInv /\ [Next]_vars => IInv'
    BY NextIInv
  <1> QED
    BY <1>1, <1>2, PTL DEF Spec

(* As long as malloc does not fail, every behaviour of the ring buffer is  *)
(* one of a FIFO queue: queue_enqueue, queue_dequeue and queue_clear keep  *)
(* the order across wrap-around and growth, for every capacity and factor. *)
THEOREM ImplementsFifo == ASSUME ~ AllocMayFail PROVE Spec => FifoSpec
  <1>1. Init => FQ!Init
    BY InitIInv
  <1>2. IInv /\ [Next]_vars => [FQ!Next]_(FQ!vars)
    BY NextIInv
  <1> QED
    BY <1>1, <1>2, AlwaysIInv, PTL DEF Spec, FifoSpec, FQ!Spec

(* queue.h:25: an enqueue keeps what the queue held and puts its element   *)
(* behind it, in any rotation, also when the array grows.  The assumption  *)
(* is needed: with a malloc that may fail the run RingQueue_alloc refutes  *)
(* the property.                                                           *)
THEOREM EnqueueAppends == ASSUME ~ AllocMayFail PROVE Spec => EnqueueAddsAtBack
  <1>1. ASSUME IInv
        PROVE  \A e \in Element : Enqueue(e) => Items' = Append(Items, e)
    BY <1>1, EnqueuePuts DEF IInv, FQ!Put
  <1> QED
    BY <1>1, AlwaysIInv, PTL DEF EnqueueAddsAtBack

(* The redundant fields of the queue agree: rear is where the next element *)
(* goes, also after resize_queue has unwrapped the ring.                   *)
THEOREM FieldsAgree == ASSUME ~ AllocMayFail PROVE Spec => []RingConsistent
  <1>1. IInv => RingConsistent
    <2> SUFFICES ASSUME IInv PROVE RingConsistent
      OBVIOUS
    <2>1. rear = (front + count) % capacity
      BY RingContents DEF IInv, RInv
    <2>2. count <= capacity
      BY DEF IInv, RInv, Ring
    <2> QED
      BY <2>1, <2>2 DEF RingConsistent
  <1> QED
    BY <1>1, AlwaysIInv, PTL

(* The indices stay inside the array and the counters in their ranges.     *)
THEOREM IndicesInside == ASSUME ~ AllocMayFail PROVE Spec => []TypeOK
  <1>1. IInv => TypeOK
    <2> SUFFICES ASSUME IInv PROVE TypeOK
      OBVIOUS
    <2>1. /\ capacity \in Nat \ {0} /\ count \in 0 .. capacity
          /\ front \in 0 .. capacity - 1
          /\ rear = (IF count = capacity THEN front ELSE Pos(front, capacity, count))
          /\ elements \in [Slots(capacity) -> Element \union {Junk}]
      BY DEF IInv, RInv, Ring, Slots
    <2>2. rear \in 0 .. capacity - 1
      BY <2>1 DEF Pos
    <2>3. held \subseteq Element /\ freed \subseteq Element
      BY DEF IInv, Owned
    <2> QED
      BY <2>1, <2>2, <2>3 DEF TypeOK, Slots
  <1> QED
    BY <1>1, AlwaysIInv, PTL

(* Every element is at exactly one place: with the caller, in one slot of  *)
(* the queue, or freed once; a traversal reaches only enqueued elements.   *)
THEOREM EveryElementHasOneOwner == ASSUME ~ AllocMayFail PROVE Spec => []OneOwner
  <1>1. IInv => OneOwner
    <2> SUFFICES ASSUME IInv PROVE OneOwner
      OBVIOUS
    <2>1. Len(Items) = count /\ count \in Nat
          /\ ItemSet = {Items[i] : i \in DOMAIN Items} /\ DOMAIN Items = 1 .. count
      BY ItemsAre DEF IInv, RInv, Ring, Items
    <2>2. \A k \in Slots(count) : k + 1 \in 1 .. count /\ Items[k + 1] = At(k)
      BY <2>1 DEF Items, Slots
    <2>3. \A k \in Slots(count) : At(k) \in Element \ (held \union freed)
      BY <2>1, <2>2 DEF IInv, Owned
    <2>4. ASSUME NEW i \in Slots(count), NEW j \in Slots(count), i # j
          PROVE  At(i) # At(j)
      <3>1. i + 1 # j + 1
        BY <2>1, <2>4 DEF Slots
      <3> QED
        BY <2>1, <2>2, <3>1 DEF IInv, Owned
    <2>5. Element = held \union freed \union ItemSet /\ held \intersect freed = {}
      BY <2>1 DEF IInv, Owned
    <2> QED
      BY <2>3, <2>4, <2>5 DEF OneOwner
  <1> QED
    BY <1>1, AlwaysIInv, PTL
=============================================================================
