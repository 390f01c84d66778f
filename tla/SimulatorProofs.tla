--------------------------- MODULE SimulatorProofs ---------------------------
(***************************************************************************)
(* Proofs about Simulator, for every start and end time, every set of      *)
(* event times and deltas and every bound.  The argument: the list edits   *)
(* of event_queue_schedule, _next and _cancel keep a queue ordered and its *)
(* ids distinct (the list lemmas); with that, Inv below is inductive; the  *)
(* action properties and the refinement of Agenda follow from Inv.         *)
(***************************************************************************)
EXTENDS Simulator, SeqLemmas

-----------------------------------------------------------------------------
(* The lists, as values.                                                   *)
Ordered(q) == \A i, j \in 1 .. Len(q) : i < j => Before(q[i], q[j])
IdsOf(q) == {q[i].id : i \in 1 .. Len(q)}
Distinct(q) == \A i, j \in 1 .. Len(q) : i # j => q[i].id # q[j].id
Elements(q) == {q[i] : i \in 1 .. Len(q)}

StepsOf(s) == {i \in 1 .. Len(s) : s[i].kind = "step"}
FlightOf(s) == {s[i].id : i \in StepsOf(s)}
DistinctSteps(s) == \A i, j \in StepsOf(s) : i # j => s[i].id # s[j].id
EventsOf(s) == {EventOf(s[i]) : i \in StepsOf(s)}

(* Linking an event with a fresh, larger id where event_queue_schedule     *)
(* links it keeps the list ordered and the ids distinct.                   *)
LEMMA InsertKeepsOrder ==
    ASSUME NEW q \in Seq(Event), NEW e \in Event,
           NEW k \in 1 .. Len(q) + 1, LinksAt(q, e.time, k),
           Ordered(q), Distinct(q), \A i \in 1 .. Len(q) : q[i].id < e.id
    PROVE  /\ InsertAt(q, k, e) \in Seq(Event)
           /\ Ordered(InsertAt(q, k, e))
           /\ Distinct(InsertAt(q, k, e))
           /\ IdsOf(InsertAt(q, k, e)) = IdsOf(q) \union {e.id}
           /\ Elements(InsertAt(q, k, e)) = Elements(q) \union {e}
<1> DEFINE r == InsertAt(q, k, e)
<1>1. /\ r \in Seq(Event) /\ Len(r) = Len(q) + 1
      /\ \A i \in 1 .. Len(q) + 1 :
            r[i] = IF i < k THEN q[i] ELSE IF i = k THEN e ELSE q[i - 1]
  <2>1. r \in Seq(Event) /\ Len(r) = Len(q) + 1 /\ Inserted(r, q, k, e)
    BY InsertAtElements
  <2> QED BY <2>1 DEF Inserted
<1> HIDE DEF r
<1>2. Len(q) \in Nat /\ k \in Nat /\ k >= 1 /\ k <= Len(q) + 1
  OBVIOUS
<1>3. \A i \in 1 .. Len(q) : q[i] \in Event
  OBVIOUS
<1>4. \A x \in Event : x.id \in Nat /\ x.time \in Int
  BY DEF Event
<1>5. /\ \A i \in 1 .. Len(q) + 1 : i < k => r[i] = q[i]
      /\ r[k] = e
      /\ \A i \in 1 .. Len(q) + 1 : i > k => r[i] = q[i - 1]
  BY <1>1, <1>2
<1>6. \A i \in 1 .. Len(q) : i < k => Before(q[i], e)
  <2> SUFFICES ASSUME NEW i \in 1 .. Len(q), i < k
               PROVE  Before(q[i], e)
    OBVIOUS
  <2>1. q[i].time <= e.time /\ q[i].id < e.id
    BY <1>2 DEF LinksAt
  <2>2. q[i] \in Event /\ e \in Event
    BY <1>3
  <2> QED BY <2>1, <2>2, <1>4 DEF Before
<1>7. \A j \in 1 .. Len(q) : k <= j => Before(e, q[j])
  <2> SUFFICES ASSUME NEW j \in 1 .. Len(q), k <= j
               PROVE  Before(e, q[j])
    OBVIOUS
  <2>1. k \in 1 .. Len(q)
    BY <1>2
  <2>2. e.time < q[k].time
    BY <1>2, <2>1 DEF LinksAt
  <2>3. k = j \/ Before(q[k], q[j])
    BY <2>1, <1>2 DEF Ordered
  <2>4. q[k] \in Event /\ q[j] \in Event /\ e \in Event
    BY <2>1, <1>3
  <2> QED BY <2>2, <2>3, <2>4, <1>4 DEF Before
<1>8. Ordered(r)
  <2> SUFFICES ASSUME NEW i \in 1 .. Len(q) + 1, NEW j \in 1 .. Len(q) + 1, i < j
               PROVE  Before(r[i], r[j])
    BY <1>1 DEF Ordered
  <2>1. CASE i < k /\ j < k
    <3>1. r[i] = q[i] /\ r[j] = q[j] /\ i \in 1 .. Len(q) /\ j \in 1 .. Len(q)
      BY <2>1, <1>2, <1>5
    <3> QED BY <3>1 DEF Ordered
  <2>2. CASE i < k /\ j = k
    BY <2>2, <1>2, <1>5, <1>6
  <2>3. CASE i < k /\ j > k
    <3>1. r[i] = q[i] /\ r[j] = q[j - 1]
      BY <2>3, <1>5
    <3>2. i \in 1 .. Len(q) /\ j - 1 \in 1 .. Len(q) /\ i < j - 1
      BY <2>3, <1>2
    <3> QED BY <3>1, <3>2 DEF Ordered
  <2>4. CASE i = k /\ j > k
    <3>1. r[i] = e /\ r[j] = q[j - 1]
      BY <2>4, <1>5
    <3>2. j - 1 \in 1 .. Len(q) /\ k <= j - 1
      BY <2>4, <1>2
    <3> QED BY <3>1, <3>2, <1>7
  <2>5. CASE i > k
    <3>1. r[i] = q[i - 1] /\ r[j] = q[j - 1]
      BY <2>5, <1>2, <1>5
    <3>2. i - 1 \in 1 .. Len(q) /\ j - 1 \in 1 .. Len(q) /\ i - 1 < j - 1
      BY <2>5, <1>2
    <3> QED BY <3>1, <3>2 DEF Ordered
  <2> QED BY <2>1, <2>2, <2>3, <2>4, <2>5, <1>2
<1>9. \A i \in 1 .. Len(q) + 1 :
        \/ i = k
        \/ i < k /\ i \in 1 .. Len(q) /\ r[i] = q[i]
        \/ i > k /\ i - 1 \in 1 .. Len(q) /\ r[i] = q[i - 1]
  BY <1>2, <1>5
<1>10. \A m \in 1 .. Len(q) : \E i \in 1 .. Len(q) + 1 : r[i] = q[m]
  <2> TAKE m \in 1 .. Len(q)
  <2>1. CASE m < k
    BY <2>1, <1>2, <1>5
  <2>2. CASE m >= k
    <3>1. m + 1 \in 1 .. Len(q) + 1 /\ m + 1 > k /\ (m + 1) - 1 = m
      BY <2>2, <1>2
    <3>2. r[m + 1] = q[(m + 1) - 1]
      BY <3>1, <1>5
    <3> QED BY <3>1, <3>2
  <2> QED BY <2>1, <2>2, <1>2
<1>11. Distinct(r)
  <2> SUFFICES ASSUME NEW i \in 1 .. Len(q) + 1, NEW j \in 1 .. Len(q) + 1, i < j
               PROVE  r[i].id # r[j].id
    BY <1>1, <1>2 DEF Distinct
  <2>1. \A m \in 1 .. Len(q) : q[m].id # e.id
    BY <1>3, <1>4
  <2>2. CASE i = k
    <3>1. j > k
      BY <2>2, <1>2
    <3>2. r[i] = e /\ j - 1 \in 1 .. Len(q) /\ r[j] = q[j - 1]
      BY <3>1, <2>2, <1>2, <1>5, <1>9
    <3> QED BY <3>2, <2>1
  <2>3. CASE j = k
    <3>1. r[j] = e /\ i \in 1 .. Len(q) /\ r[i] = q[i]
      BY <2>3, <1>2, <1>5, <1>9
    <3> QED BY <3>1, <2>1
  <2>4. CASE i # k /\ j # k
    <3>1. PICK x \in 1 .. Len(q) : r[i] = q[x] /\ (i < k => x = i) /\ (i > k => x = i - 1)
      BY <2>4, <1>2, <1>9
    <3>2. PICK y \in 1 .. Len(q) : r[j] = q[y] /\ (j < k => y = j) /\ (j > k => y = j - 1)
      BY <2>4, <1>2, <1>9
    <3>3. x # y
      BY <2>4, <3>1, <3>2, <1>2
    <3> QED BY <3>1, <3>2, <3>3 DEF Distinct
  <2> QED BY <2>2, <2>3, <2>4
<1>12. Elements(r) \subseteq Elements(q) \union {e}
  <2> SUFFICES ASSUME NEW i \in 1 .. Len(q) + 1
               PROVE  r[i] \in Elements(q) \union {e}
    BY <1>1 DEF Elements
  <2> QED BY <1>5, <1>9 DEF Elements
<1>13. Elements(r) = Elements(q) \union {e}
  <2>1. \A m \in 1 .. Len(q) : q[m] \in Elements(r)
    BY <1>1, <1>10 DEF Elements
  <2>2. e \in Elements(r)
    BY <1>1, <1>2, <1>5 DEF Elements
  <2>3. Elements(q) \subseteq Elements(r)
    BY <2>1 DEF Elements
  <2> QED BY <1>12, <2>2, <2>3
<1>14. IdsOf(r) = {x.id : x \in Elements(r)} /\ IdsOf(q) = {x.id : x \in Elements(q)}
  BY DEF IdsOf, Elements
<1>15. IdsOf(r) = IdsOf(q) \union {e.id}
  BY <1>13, <1>14
<1> QED BY <1>1, <1>8, <1>11, <1>13, <1>15 DEF r

(* Unlinking the k-th event (event_queue_cancel, and event_queue_next with *)
(* k = 1) keeps the others in order and removes exactly that event.        *)
Deletes(q, r, k) ==
    /\ q \in Seq(Event) /\ r \in Seq(Event) /\ k \in 1 .. Len(q)
    /\ Len(r) = Len(q) - 1
    /\ \A i \in 1 .. Len(q) - 1 : r[i] = IF i < k THEN q[i] ELSE q[i + 1]

LEMMA DeletionKeepsOrder ==
    ASSUME NEW q, NEW r, NEW k, Deletes(q, r, k), Ordered(q), Distinct(q)
    PROVE  /\ Ordered(r)
           /\ Distinct(r)
           /\ IdsOf(r) = IdsOf(q) \ {q[k].id}
           /\ Elements(r) = Elements(q) \ {q[k]}
<1>1. /\ q \in Seq(Event) /\ r \in Seq(Event) /\ k \in 1 .. Len(q)
      /\ Len(q) \in Nat /\ k \in Nat /\ k >= 1 /\ k <= Len(q)
      /\ Len(r) = Len(q) - 1
      /\ \A i \in 1 .. Len(q) - 1 : r[i] = IF i < k THEN q[i] ELSE q[i + 1]
  BY DEF Deletes
<1>2. \A i \in 1 .. Len(r) :
        \/ i < k /\ i \in 1 .. Len(q) /\ r[i] = q[i]
        \/ i >= k /\ i + 1 \in 1 .. Len(q) /\ r[i] = q[i + 1]
  BY <1>1
<1>10. \A i \in 1 .. Len(r) : \E x \in 1 .. Len(q) :
            r[i] = q[x] /\ (i < k => x = i) /\ (i >= k => x = i + 1)
  <2> TAKE i \in 1 .. Len(r)
  <2>1. CASE i < k
    BY <2>1, <1>1, <1>2
  <2>2. CASE i >= k
    BY <2>2, <1>1, <1>2
  <2> QED BY <2>1, <2>2, <1>1
<1>3. Ordered(r)
  <2> SUFFICES ASSUME NEW i \in 1 .. Len(r), NEW j \in 1 .. Len(r), i < j
               PROVE  Before(r[i], r[j])
    BY DEF Ordered
  <2>1. PICK x \in 1 .. Len(q) : r[i] = q[x] /\ (i < k => x = i) /\ (i >= k => x = i + 1)
    BY <1>10
  <2>2. PICK y \in 1 .. Len(q) : r[j] = q[y] /\ (j < k => y = j) /\ (j >= k => y = j + 1)
    BY <1>10
  <2>3. x < y
    BY <2>1, <2>2, <1>1
  <2> QED BY <2>1, <2>2, <2>3 DEF Ordered
<1>4. \A i \in 1 .. Len(r) : \E x \in 1 .. Len(q) : x # k /\ r[i] = q[x]
  <2> TAKE i \in 1 .. Len(r)
  <2>1. CASE i < k
    BY <2>1, <1>1, <1>2
  <2>2. CASE i >= k
    BY <2>2, <1>1, <1>2
  <2> QED BY <2>1, <2>2, <1>1
<1>5. \A x \in 1 .. Len(q) : x # k => \E i \in 1 .. Len(r) : r[i] = q[x]
  <2> SUFFICES ASSUME NEW x \in 1 .. Len(q), x # k
               PROVE  \E i \in 1 .. Len(r) : r[i] = q[x]
    OBVIOUS
  <2>1. CASE x < k
    BY <2>1, <1>1, <1>2
  <2>2. CASE x > k
    <3>1. x - 1 \in 1 .. Len(r) /\ x - 1 >= k /\ (x - 1) + 1 = x
      BY <2>2, <1>1
    <3>2. r[x - 1] = q[(x - 1) + 1]
      BY <3>1, <1>1
    <3> QED BY <3>1, <3>2
  <2> QED BY <2>1, <2>2, <1>1
<1>6. Distinct(r)
  <2> SUFFICES ASSUME NEW i \in 1 .. Len(r), NEW j \in 1 .. Len(r), i # j
               PROVE  r[i].id # r[j].id
    BY DEF Distinct
  <2>1. PICK x \in 1 .. Len(q) : r[i] = q[x] /\ (i < k => x = i) /\ (i >= k => x = i + 1)
    BY <1>10
  <2>2. PICK y \in 1 .. Len(q) : r[j] = q[y] /\ (j < k => y = j) /\ (j >= k => y = j + 1)
    BY <1>10
  <2>3. x # y
    BY <2>1, <2>2, <1>1
  <2> QED BY <2>1, <2>2, <2>3 DEF Distinct
<1>7. \A x \in 1 .. Len(q) : x # k => q[x].id # q[k].id /\ q[x] # q[k]
  BY <1>1 DEF Distinct
<1>8. Elements(r) = Elements(q) \ {q[k]}
  <2>1. Elements(r) \subseteq Elements(q) \ {q[k]}
    BY <1>4, <1>7 DEF Elements
  <2>2. Elements(q) \ {q[k]} \subseteq Elements(r)
    <3> SUFFICES ASSUME NEW x \in 1 .. Len(q), q[x] # q[k]
                 PROVE  q[x] \in Elements(r)
      BY DEF Elements
    <3>1. PICK i \in 1 .. Len(r) : r[i] = q[x]
      BY <1>5
    <3> QED BY <3>1 DEF Elements
  <2> QED BY <2>1, <2>2
<1>9. IdsOf(r) = IdsOf(q) \ {q[k].id}
  <2>1. IdsOf(r) \subseteq IdsOf(q) \ {q[k].id}
    <3> SUFFICES ASSUME NEW i \in 1 .. Len(r)
                 PROVE  r[i].id \in IdsOf(q) \ {q[k].id}
      BY DEF IdsOf
    <3>1. PICK x \in 1 .. Len(q) : x # k /\ r[i] = q[x]
      BY <1>4
    <3> QED BY <3>1, <1>7 DEF IdsOf
  <2>2. IdsOf(q) \ {q[k].id} \subseteq IdsOf(r)
    <3> SUFFICES ASSUME NEW x \in 1 .. Len(q), q[x].id # q[k].id
                 PROVE  q[x].id \in IdsOf(r)
      BY DEF IdsOf
    <3>1. PICK i \in 1 .. Len(r) : r[i] = q[x]
      BY <1>5
    <3> QED BY <3>1 DEF IdsOf
  <2> QED BY <2>1, <2>2
<1> QED BY <1>3, <1>6, <1>8, <1>9

(* The same for RemoveAt, which is how event_queue_cancel unlinks an       *)
(* event.                                                                  *)
LEMMA RemoveKeepsOrder ==
    ASSUME NEW q \in Seq(Event), NEW k \in 1 .. Len(q), Ordered(q), Distinct(q)
    PROVE  /\ RemoveAt(q, k) \in Seq(Event)
           /\ Ordered(RemoveAt(q, k)) /\ Distinct(RemoveAt(q, k))
           /\ IdsOf(RemoveAt(q, k)) = IdsOf(q) \ {q[k].id}
           /\ Elements(RemoveAt(q, k)) = Elements(q) \ {q[k]}
<1> DEFINE r == RemoveAt(q, k)
<1>1. /\ r \in Seq(Event)
      /\ Len(r) = Len(q) - 1
      /\ \A i \in 1 .. Len(q) - 1 : r[i] = IF i < k THEN q[i] ELSE q[i + 1]
  BY RemoveAtElements
<1> HIDE DEF r
<1>2. /\ Ordered(r) /\ Distinct(r)
      /\ IdsOf(r) = IdsOf(q) \ {q[k].id}
      /\ Elements(r) = Elements(q) \ {q[k]}
  <2>1. Deletes(q, r, k)
    BY <1>1 DEF Deletes
  <2> QED BY <2>1, DeletionKeepsOrder
<1> QED BY <1>1, <1>2 DEF r

(* The same for Tail, which is how event_queue_next unlinks the head.      *)
LEMMA TailKeepsOrder ==
    ASSUME NEW q \in Seq(Event), q # <<>>, Ordered(q), Distinct(q)
    PROVE  /\ Tail(q) \in Seq(Event) /\ Head(q) \in Event
           /\ Ordered(Tail(q)) /\ Distinct(Tail(q))
           /\ IdsOf(Tail(q)) = IdsOf(q) \ {Head(q).id}
           /\ Head(q).id \in IdsOf(q)
           /\ Elements(Tail(q)) = Elements(q) \ {Head(q)}
           /\ Head(q) \in Elements(q)
           /\ \A x \in Elements(Tail(q)) : Before(Head(q), x)
<1> DEFINE r == Tail(q)
<1>1. /\ r \in Seq(Event) /\ Head(q) \in Event
      /\ Len(q) \in Nat /\ Len(q) >= 1 /\ Head(q) = q[1]
      /\ Len(r) = Len(q) - 1
      /\ \A i \in 1 .. Len(q) - 1 : r[i] = q[i + 1]
  BY TailElements
<1> HIDE DEF r
<1>2. 1 \in 1 .. Len(q)
  BY <1>1
<1>3. \A i \in 1 .. Len(q) - 1 : r[i] = IF i < 1 THEN q[i] ELSE q[i + 1]
  BY <1>1
<1>4. /\ Ordered(r) /\ Distinct(r)
      /\ IdsOf(r) = IdsOf(q) \ {q[1].id}
      /\ Elements(r) = Elements(q) \ {q[1]}
  <2>1. Deletes(q, r, 1)
    BY <1>1, <1>2, <1>3 DEF Deletes
  <2> QED BY <2>1, DeletionKeepsOrder
<1>5. \A i \in 1 .. Len(q) - 1 : Before(q[1], q[i + 1])
  BY <1>1 DEF Ordered
<1>6. \A x \in Elements(r) : Before(Head(q), x)
  BY <1>1, <1>5 DEF Elements
<1>7. q[1].id \in IdsOf(q) /\ q[1] \in Elements(q)
  BY <1>2 DEF IdsOf, Elements
<1> QED BY <1>1, <1>4, <1>6, <1>7 DEF r

(* Pushing an activation of simulator_run puts no event in flight; pushing *)
(* one of simulator_step puts its event in flight.                         *)
LEMMA PushFlight ==
    ASSUME NEW s \in Seq(Frame), NEW f \in Frame
    PROVE  /\ <<f>> \o s \in Seq(Frame)
           /\ f.kind = "run" =>
                /\ FlightOf(<<f>> \o s) = FlightOf(s)
                /\ EventsOf(<<f>> \o s) = EventsOf(s)
                /\ DistinctSteps(<<f>> \o s) <=> DistinctSteps(s)
           /\ f.kind = "step" =>
                /\ FlightOf(<<f>> \o s) = FlightOf(s) \union {f.id}
                /\ EventsOf(<<f>> \o s) = EventsOf(s) \union {EventOf(f)}
                /\ DistinctSteps(<<f>> \o s)
                      <=> (DistinctSteps(s) /\ f.id \notin FlightOf(s))
<1> DEFINE r == <<f>> \o s
<1>1. /\ r \in Seq(Frame) /\ Len(r) = Len(s) + 1 /\ r[1] = f
      /\ \A i \in 1 .. Len(s) : r[i + 1] = s[i]
  BY PushElements
<1> HIDE DEF r
<1>2. Len(s) \in Nat
  OBVIOUS
<1>3. \A i \in 1 .. Len(s) + 1 : i = 1 \/ (i - 1 \in 1 .. Len(s) /\ r[i] = s[i - 1])
  <2> SUFFICES ASSUME NEW i \in 1 .. Len(s) + 1, i # 1
               PROVE  i - 1 \in 1 .. Len(s) /\ r[i] = s[i - 1]
    OBVIOUS
  <2>1. i - 1 \in 1 .. Len(s) /\ (i - 1) + 1 = i
    BY <1>2
  <2> QED BY <2>1, <1>1
<1>4. \A i \in 1 .. Len(s) : i + 1 \in 1 .. Len(s) + 1 /\ i + 1 # 1 /\ r[i + 1] = s[i]
  BY <1>1, <1>2
<1>5. \A i \in StepsOf(s) : i + 1 \in StepsOf(r) /\ i + 1 # 1 /\ r[i + 1] = s[i]
  BY <1>1, <1>4 DEF StepsOf
<1>6. \A i \in StepsOf(r) : i = 1 \/ (i - 1 \in StepsOf(s) /\ r[i] = s[i - 1])
  BY <1>1, <1>3 DEF StepsOf
<1>7. 1 \in StepsOf(r) <=> f.kind = "step"
  BY <1>1, <1>2 DEF StepsOf
<1>8. StepsOf(s) \subseteq Int /\ StepsOf(r) \subseteq Int
  BY <1>2, <1>1 DEF StepsOf
<1>9. CASE f.kind = "run"
  <2>1. \A i \in StepsOf(r) : i - 1 \in StepsOf(s) /\ r[i] = s[i - 1]
    BY <1>6, <1>7, <1>9
  <2>2. FlightOf(r) = FlightOf(s)
    BY <2>1, <1>5 DEF FlightOf
  <2>3. EventsOf(r) = EventsOf(s)
    BY <2>1, <1>5 DEF EventsOf
  <2>4. ASSUME DistinctSteps(s) PROVE DistinctSteps(r)
    <3> SUFFICES ASSUME NEW i \in StepsOf(r), NEW j \in StepsOf(r), i # j
                 PROVE  r[i].id # r[j].id
      BY DEF DistinctSteps
    <3>1. i - 1 # j - 1
      BY <1>8
    <3> QED BY <3>1, <2>1, <2>4 DEF DistinctSteps
  <2>5. ASSUME DistinctSteps(r) PROVE DistinctSteps(s)
    <3> SUFFICES ASSUME NEW i \in StepsOf(s), NEW j \in StepsOf(s), i # j
                 PROVE  s[i].id # s[j].id
      BY DEF DistinctSteps
    <3>1. i + 1 # j + 1
      BY <1>8
    <3> QED BY <3>1, <1>5, <2>5 DEF DistinctSteps
  <2> QED BY <1>1, <1>9, <2>2, <2>3, <2>4, <2>5 DEF r
<1>10. CASE f.kind = "step"
  <2>1. 1 \in StepsOf(r) /\ r[1] = f
    BY <1>1, <1>7, <1>10
  <2>2. FlightOf(r) = FlightOf(s) \union {f.id}
    BY <2>1, <1>5, <1>6 DEF FlightOf
  <2>3. EventsOf(r) = EventsOf(s) \union {EventOf(f)}
    BY <2>1, <1>5, <1>6 DEF EventsOf
  <2>4. ASSUME DistinctSteps(s), f.id \notin FlightOf(s) PROVE DistinctSteps(r)
    <3> SUFFICES ASSUME NEW i \in StepsOf(r), NEW j \in StepsOf(r), i < j
                 PROVE  r[i].id # r[j].id
      BY <1>8 DEF DistinctSteps
    <3>1. j # 1
      BY <1>8, <1>1, <1>2 DEF StepsOf
    <3>2. j - 1 \in StepsOf(s) /\ r[j] = s[j - 1]
      BY <3>1, <1>6
    <3>3. CASE i = 1
      BY <3>2, <3>3, <2>1, <2>4 DEF FlightOf
    <3>4. CASE i # 1
      <4>1. i - 1 \in StepsOf(s) /\ r[i] = s[i - 1] /\ i - 1 # j - 1
        BY <3>4, <1>6, <1>8
      <4> QED BY <4>1, <3>2, <2>4 DEF DistinctSteps
    <3> QED BY <3>3, <3>4
  <2>5. ASSUME DistinctSteps(r) PROVE DistinctSteps(s) /\ f.id \notin FlightOf(s)
    <3>1. DistinctSteps(s)
      <4> SUFFICES ASSUME NEW i \in StepsOf(s), NEW j \in StepsOf(s), i # j
                   PROVE  s[i].id # s[j].id
        BY DEF DistinctSteps
      <4>1. i + 1 # j + 1
        BY <1>8
      <4> QED BY <4>1, <1>5, <2>5 DEF DistinctSteps
    <3>2. \A i \in StepsOf(s) : s[i].id # f.id
      BY <1>5, <2>1, <2>5 DEF DistinctSteps
    <3> QED BY <3>1, <3>2 DEF FlightOf
  <2> QED BY <1>1, <1>10, <2>2, <2>3, <2>4, <2>5 DEF r
<1>11. f.kind = "run" \/ f.kind = "step"
  BY DEF Frame
<1>12. f.kind = "run" => f.kind # "step"
  OBVIOUS
<1> QED BY <1>1, <1>9, <1>10, <1>11, <1>12 DEF r

(* Popping undoes a push.                                                  *)
LEMMA PopFlight ==
    ASSUME NEW s \in Seq(Frame), s # <<>>
    PROVE  /\ Tail(s) \in Seq(Frame) /\ Head(s) \in Frame
           /\ Head(s).kind = "run" =>
                /\ FlightOf(s) = FlightOf(Tail(s))
                /\ EventsOf(s) = EventsOf(Tail(s))
                /\ DistinctSteps(s) <=> DistinctSteps(Tail(s))
           /\ Head(s).kind = "step" =>
                /\ FlightOf(s) = FlightOf(Tail(s)) \union {Head(s).id}
                /\ EventsOf(s) = EventsOf(Tail(s)) \union {EventOf(Head(s))}
                /\ DistinctSteps(s)
                      <=> (DistinctSteps(Tail(s)) /\ Head(s).id \notin FlightOf(Tail(s)))
<1> DEFINE h == Head(s)
           t == Tail(s)
<1>1. t \in Seq(Frame) /\ h \in Frame /\ s = <<h>> \o t
  BY TailElements
<1> HIDE DEF h, t
<1> DEFINE r == <<h>> \o t
<1>2. /\ h.kind = "run" =>
            /\ FlightOf(r) = FlightOf(t)
            /\ EventsOf(r) = EventsOf(t)
            /\ DistinctSteps(r) <=> DistinctSteps(t)
      /\ h.kind = "step" =>
            /\ FlightOf(r) = FlightOf(t) \union {h.id}
            /\ EventsOf(r) = EventsOf(t) \union {EventOf(h)}
            /\ DistinctSteps(r) <=> (DistinctSteps(t) /\ h.id \notin FlightOf(t))
  BY <1>1, PushFlight
<1>3. s = r
  BY <1>1
<1> HIDE DEF r
<1> QED BY <1>1, <1>2, <1>3 DEF h, t

-----------------------------------------------------------------------------
(* Type correctness.                                                       *)

(* The part of simulator_step before the handler keeps the types.          *)
LEMMA BeginStepType ==
    ASSUME TypeOK, BeginStep
    PROVE  TypeOK'
<1>1. /\ Head(queue) \in Event /\ Tail(queue) \in Seq(Event)
  BY TailElements DEF TypeOK, BeginStep
<1>2. Head(queue).id \in Nat /\ Head(queue).time \in Int
  BY <1>1 DEF Event
<1>3. StepFrame(Head(queue)) \in Frame
  BY <1>2 DEF StepFrame, Frame
<1>4. stack' \in Seq(Frame)
  BY <1>3, PushElements DEF TypeOK, BeginStep
<1>5. current_time' \in Int /\ global_sim_time' \in Int /\ idle_time' \in Nat
  <2>0. current_time \in Int /\ global_sim_time \in Int /\ idle_time \in Nat
    BY DEF TypeOK
  <2> DEFINE t == Head(queue).time
  <2>1. CASE t > current_time
    <3>1. /\ current_time' = t /\ global_sim_time' = t
          /\ idle_time' = idle_time + (t - current_time)
      BY <2>1 DEF BeginStep
    <3>2. t \in Int /\ t - current_time \in Nat
      BY <1>2, <2>0, <2>1
    <3> HIDE DEF t
    <3> QED
      BY <2>0, <3>1, <3>2
  <2>2. CASE ~ (t > current_time)
    <3>1. UNCHANGED <<current_time, global_sim_time, idle_time>>
      BY <2>2 DEF BeginStep
    <3> QED
      BY <2>0, <3>1
  <2> QED
    BY <2>1, <2>2
<1>6. queue' \in Seq(Event)
  BY <1>1 DEF BeginStep
<1>7. UNCHANGED <<alive, running, paused, total_events, processed_events,
                  total_time, next_event_id, finished, cancelled, base, advanced>>
  BY DEF BeginStep, history
<1> QED BY <1>4, <1>5, <1>6, <1>7 DEF TypeOK

(* Every variable keeps its type in every reachable state.                 *)
THEOREM TypeCorrect == Spec => []TypeOK
<1> USE SimAssumption
<1>1. Init => TypeOK
  <2> SUFFICES ASSUME Init PROVE TypeOK
    OBVIOUS
  <2>1. alive \in BOOLEAN /\ running \in BOOLEAN /\ paused \in BOOLEAN
    BY Zenon DEF Init
  <2>2. queue \in Seq(Event) /\ stack \in Seq(Frame)
    BY EmptySeq DEF Init
  <2>3. finished \subseteq Nat /\ cancelled \subseteq Nat
    BY DEF Init
  <2> QED BY <2>1, <2>2, <2>3 DEF Init, TypeOK
<1>2. TypeOK /\ [Next]_vars => TypeOK'
  <2> SUFFICES ASSUME TypeOK, [Next]_vars
               PROVE  TypeOK'
    OBVIOUS
  <2>1. CASE Create
    <3>1. alive' \in BOOLEAN /\ running' \in BOOLEAN /\ paused' \in BOOLEAN
      BY <2>1, Zenon DEF Create
    <3>2. queue' \in Seq(Event)
      BY <2>1, EmptySeq DEF Create
    <3> QED BY <2>1, <3>1, <3>2 DEF TypeOK, Create
  <2>2. CASE CreateFails
    BY <2>2 DEF TypeOK, CreateFails, stats, history
  <2>3. CASE Destroy
    BY <2>3, EmptySeq DEF TypeOK, Destroy, stats
  <2>4. ASSUME NEW t \in Times, Schedule(t)
        PROVE  TypeOK'
    <3>1. [id |-> next_event_id, time |-> t] \in Event
      BY <2>4 DEF TypeOK, Event
    <3>2. queue' \in Seq(Event)
      BY <2>4, <3>1, InsertAtElements DEF TypeOK, Schedule
    <3> QED BY <2>4, <3>2 DEF TypeOK, Schedule, history
  <2>5. ASSUME NEW id \in 1 .. MaxEvents, Cancel(id)
        PROVE  TypeOK'
    <3>1. queue' \in Seq(Event)
      BY <2>5, RemoveAtElements DEF TypeOK, Cancel
    <3> QED BY <2>5, <3>1 DEF TypeOK, Cancel, stats
  <2>6. ASSUME NEW delta \in Deltas, Advance(delta)
        PROVE  TypeOK'
    BY <2>6 DEF TypeOK, Advance, stats
  <2>7. ASSUME NEW delta \in Deltas, Delay(delta)
        PROVE  TypeOK'
    BY <2>7 DEF TypeOK, Delay, stats, history
  <2>8. CASE Pause
    BY <2>8 DEF TypeOK, Pause, stats, history
  <2>9. CASE Resume
    BY <2>9 DEF TypeOK, Resume, stats, history
  <2>10. CASE Run
    <3>1. RunFrame \in Frame
      BY DEF RunFrame, Frame
    <3>2. stack' \in Seq(Frame)
      BY <2>10, <3>1, PushElements DEF TypeOK, Run
    <3> QED BY <2>10, <3>2 DEF TypeOK, Run, stats, history
  <2>11. CASE BeginStep
    BY <2>11, BeginStepType
  <2>12. CASE RunReturn
    <3>1. stack' \in Seq(Frame)
      BY <2>12, TailElements DEF TypeOK, RunReturn, Top
    <3> QED BY <2>12, <3>1 DEF TypeOK, RunReturn, stats, history
  <2>13. CASE FinishStep
    <3>1. stack' \in Seq(Frame) /\ Head(stack) \in Frame
      BY <2>13, TailElements DEF TypeOK, FinishStep, Top
    <3>2. Head(stack).id \in Nat
      BY <3>1 DEF Frame
    <3> QED BY <2>13, <3>1, <3>2 DEF TypeOK, FinishStep
  <2>14. CASE UNCHANGED vars
    BY <2>14 DEF TypeOK, vars, stats, history
  <2> QED
    BY <2>1, <2>2, <2>3, <2>4, <2>5, <2>6, <2>7, <2>8, <2>9, <2>10, <2>11,
       <2>12, <2>13, <2>14
       DEF Next, RunIterate, RunIdle, CallStep
<1> QED BY <1>1, <1>2, PTL DEF Spec

-----------------------------------------------------------------------------
(* The inductive invariant on the list and the ids.  QueueOrdered alone is *)
(* not inductive: an insertion keeps the order among equal times only      *)
(* because every queued id is below next_event_id, which is part of the    *)
(* account of all ids.                                                     *)
ListInv ==
    /\ Ordered(queue) /\ Distinct(queue) /\ DistinctSteps(stack)
    /\ IdsOf(queue) \union FlightOf(stack) \union finished \union cancelled
          = base .. next_event_id - 1
    /\ IdsOf(queue) \intersect (FlightOf(stack) \union finished \union cancelled) = {}
    /\ FlightOf(stack) \intersect (finished \union cancelled) = {}
    /\ finished \intersect cancelled = {}
    /\ base <= next_event_id
    /\ alive => total_events = next_event_id - base
    /\ ~ alive => /\ queue = <<>> /\ stack = <<>>
                  /\ finished = {} /\ cancelled = {} /\ base = next_event_id

(* A simulator without queue and activations satisfies the list invariant. *)
LEMMA EmptyLists ==
    /\ Ordered(<<>>) /\ Distinct(<<>>) /\ DistinctSteps(<<>>)
    /\ IdsOf(<<>>) = {} /\ FlightOf(<<>>) = {} /\ EventsOf(<<>>) = {}
    /\ Elements(<<>>) = {}
<1>1. 1 .. Len(<<>>) = {}
  OBVIOUS
<1> QED BY <1>1 DEF Ordered, Distinct, DistinctSteps, IdsOf, FlightOf,
                    EventsOf, Elements, StepsOf

(* The part of simulator_step before the handler keeps the list invariant: *)
(* the head moves from the queue into flight.                              *)
LEMMA BeginStepList ==
    ASSUME TypeOK, ListInv, BeginStep, alive
    PROVE  ListInv'
<1> DEFINE e == Head(queue)
<1>1. /\ queue' \in Seq(Event) /\ e \in Event
      /\ Ordered(queue') /\ Distinct(queue')
      /\ IdsOf(queue') = IdsOf(queue) \ {e.id}
      /\ e.id \in IdsOf(queue)
  BY TailKeepsOrder DEF TypeOK, ListInv, BeginStep
<1>2. StepFrame(e) \in Frame /\ StepFrame(e).kind = "step" /\ StepFrame(e).id = e.id
  BY <1>1 DEF StepFrame, Frame, Event
<1>3. e.id \notin FlightOf(stack)
  BY <1>1 DEF ListInv
<1>4. /\ FlightOf(stack') = FlightOf(stack) \union {e.id}
      /\ DistinctSteps(stack')
  BY <1>2, <1>3, PushFlight DEF TypeOK, ListInv, BeginStep
<1>5. UNCHANGED <<finished, cancelled, base, next_event_id, alive, total_events>>
  BY DEF BeginStep, history
<1> HIDE DEF e
<1> QED BY <1>1, <1>3, <1>4, <1>5 DEF ListInv

(* Every step keeps the list invariant.                                    *)
LEMMA ListInvInductive ==
    ASSUME TypeOK, ListInv, [Next]_vars
    PROVE  ListInv'
<1> USE SimAssumption
<1>1. CASE Create
  <2>1. base .. next_event_id - 1 = {} /\ next_event_id - base = 0
    BY <1>1 DEF Create, ListInv, TypeOK
  <2>2. queue' = <<>> /\ total_events' = 0
        /\ UNCHANGED <<next_event_id, stack, finished, cancelled, base>>
    BY <1>1 DEF Create
  <2>3. alive'
    BY <1>1 DEF Create
  <2>4. ~ alive
    BY <1>1 DEF Create
  <2> QED BY <2>1, <2>2, <2>3, <2>4, EmptyLists DEF ListInv
<1>2. CASE CreateFails
  BY <1>2 DEF ListInv, CreateFails, stats, history
<1>3. CASE Destroy
  <2>1. base' .. next_event_id' - 1 = {} /\ base' <= next_event_id'
    BY <1>3 DEF Destroy, TypeOK
  <2> QED BY <1>3, <2>1, EmptyLists DEF ListInv, Destroy
<1>4. ASSUME NEW t \in Times, Schedule(t)
      PROVE  ListInv'
  <2> DEFINE e == [id |-> next_event_id, time |-> t]
  <2>1. e \in Event /\ e.id = next_event_id /\ e.time = t
    BY <1>4 DEF TypeOK, Event
  <2> HIDE DEF e
  <2>2. PICK k \in 1 .. Len(queue) + 1 :
            LinksAt(queue, e.time, k) /\ queue' = InsertAt(queue, k, e)
    BY <1>4, <2>1 DEF Schedule, e
  <2>3. \A i \in 1 .. Len(queue) : queue[i].id < e.id
    <3> SUFFICES ASSUME NEW i \in 1 .. Len(queue)
                 PROVE  queue[i].id < e.id
      OBVIOUS
    <3>1. queue[i].id \in base .. next_event_id - 1
      BY DEF ListInv, IdsOf
    <3> QED BY <3>1, <2>1 DEF TypeOK
  <2>4. /\ Ordered(queue') /\ Distinct(queue')
        /\ IdsOf(queue') = IdsOf(queue) \union {next_event_id}
    BY <2>1, <2>2, <2>3, InsertKeepsOrder DEF TypeOK, ListInv
  <2>5. /\ base .. next_event_id' - 1 = (base .. next_event_id - 1) \union {next_event_id}
        /\ next_event_id \notin base .. next_event_id - 1
        /\ base <= next_event_id'
        /\ next_event_id' - base = (next_event_id - base) + 1
    BY <1>4 DEF Schedule, TypeOK, ListInv
  <2>6. UNCHANGED <<stack, finished, cancelled, base, alive>> /\ alive
        /\ total_events' = total_events + 1
    BY <1>4 DEF Schedule, history, CallerRuns
  <2> QED BY <2>4, <2>5, <2>6 DEF ListInv
<1>5. ASSUME NEW id \in 1 .. MaxEvents, Cancel(id)
      PROVE  ListInv'
  <2>1. PICK k \in 1 .. Len(queue) : queue[k].id = id /\ queue' = RemoveAt(queue, k)
    BY <1>5 DEF Cancel, TypeOK
  <2>2. /\ Ordered(queue') /\ Distinct(queue')
        /\ IdsOf(queue') = IdsOf(queue) \ {id}
    BY <2>1, RemoveKeepsOrder DEF TypeOK, ListInv
  <2>3. id \in IdsOf(queue)
    BY <2>1 DEF IdsOf
  <2>4. UNCHANGED <<stack, finished, base, next_event_id, alive, total_events>>
        /\ cancelled' = cancelled \union {id} /\ alive
    BY <1>5 DEF Cancel, stats, CallerRuns
  <2> QED BY <2>2, <2>3, <2>4 DEF ListInv
<1>6. ASSUME NEW delta \in Deltas, Advance(delta)
      PROVE  ListInv'
  BY <1>6 DEF ListInv, Advance, stats
<1>7. ASSUME NEW delta \in Deltas, Delay(delta)
      PROVE  ListInv'
  BY <1>7 DEF ListInv, Delay, stats, history
<1>8. CASE Pause
  BY <1>8 DEF ListInv, Pause, stats, history
<1>9. CASE Resume
  BY <1>9 DEF ListInv, Resume, stats, history
<1>10. CASE Run
  <2>1. RunFrame \in Frame /\ RunFrame.kind = "run"
    BY DEF RunFrame, Frame
  <2>2. /\ FlightOf(stack') = FlightOf(stack)
        /\ DistinctSteps(stack')
    BY <1>10, <2>1, PushFlight DEF TypeOK, ListInv, Run
  <2> QED BY <1>10, <2>2 DEF ListInv, Run, stats, history, CallerRuns
<1>11. CASE RunIterate \/ CallStep
  <2>1. alive
    BY <1>11 DEF RunIterate, CallStep, CallerRuns, Top, ListInv
  <2> QED BY <1>11, <2>1, BeginStepList DEF RunIterate, CallStep
<1>12. CASE RunReturn
  <2>1. /\ Tail(stack) \in Seq(Frame) /\ Head(stack) \in Frame
        /\ Head(stack).kind = "run"
        /\ stack' = Tail(stack)
    BY <1>12, PopFlight DEF TypeOK, RunReturn, Top
  <2>2. FlightOf(stack') = FlightOf(stack) /\ DistinctSteps(stack')
    BY <2>1, <1>12, PopFlight DEF ListInv, TypeOK, Top, RunReturn
  <2>3. alive
    BY <1>12 DEF RunReturn, Top, ListInv
  <2> QED BY <1>12, <2>2, <2>3 DEF ListInv, RunReturn, stats, history
<1>13. CASE FinishStep
  <2>1. /\ Tail(stack) \in Seq(Frame) /\ Head(stack) \in Frame
        /\ Head(stack).kind = "step"
        /\ stack' = Tail(stack)
    BY <1>13, PopFlight DEF TypeOK, FinishStep, Top
  <2>2. /\ FlightOf(stack) = FlightOf(stack') \union {Head(stack).id}
        /\ DistinctSteps(stack') /\ Head(stack).id \notin FlightOf(stack')
    BY <2>1, <1>13, PopFlight DEF ListInv, TypeOK, Top, FinishStep
  <2>3. alive
    BY <1>13 DEF FinishStep, Top, ListInv
  <2>4. UNCHANGED <<queue, cancelled, base, next_event_id, alive, total_events>>
        /\ finished' = finished \union {Head(stack).id}
    BY <1>13 DEF FinishStep
  <2> QED BY <2>2, <2>3, <2>4 DEF ListInv
<1>14. CASE UNCHANGED vars
  BY <1>14 DEF ListInv, vars, stats, history
<1> QED
  BY <1>1, <1>2, <1>3, <1>4, <1>5, <1>6, <1>7, <1>8, <1>9, <1>10, <1>11,
     <1>12, <1>13, <1>14
     DEF Next, RunIdle

-----------------------------------------------------------------------------
(* The inductive invariant on the clock.                                   *)
ClockInv ==
    /\ alive => idle_time + advanced = current_time - StartTime
    /\ \A x \in EventsOf(stack) : x.time <= current_time
    /\ alive => current_time <= global_sim_time

(* Every event in flight has an integer time and an id in flight.          *)
LEMMA EventsHaveTimes ==
    ASSUME NEW s \in Seq(Frame)
    PROVE  \A x \in EventsOf(s) : x.time \in Int /\ x.id \in FlightOf(s)
<1> SUFFICES ASSUME NEW i \in StepsOf(s)
             PROVE  EventOf(s[i]).time \in Int /\ EventOf(s[i]).id \in FlightOf(s)
  BY DEF EventsOf
<1>1. s[i] \in Frame
  BY DEF StepsOf
<1>2. s[i].time \in Int
  BY <1>1 DEF Frame
<1> QED BY <1>2 DEF EventOf, FlightOf

(* The part of simulator_step before the handler keeps the clock           *)
(* invariant: the clock goes to the later of its time and the event's.     *)
LEMMA BeginStepClock ==
    ASSUME TypeOK, ClockInv, BeginStep, alive
    PROVE  ClockInv' /\ current_time' >= current_time
<1> DEFINE e == Head(queue)
<1>1. e \in Event
  BY TailElements DEF TypeOK, BeginStep
<1>2. e.id \in Nat /\ e.time \in Int
  BY <1>1 DEF Event
<1>3. /\ StepFrame(e) \in Frame /\ StepFrame(e).kind = "step"
      /\ EventOf(StepFrame(e)).time = e.time
  BY <1>2 DEF StepFrame, Frame, EventOf
<1>4. EventsOf(stack') = EventsOf(stack) \union {EventOf(StepFrame(e))}
  BY <1>3, PushFlight DEF TypeOK, BeginStep
<1>5. UNCHANGED <<alive, advanced>> /\ current_time \in Int
      /\ idle_time \in Nat /\ advanced \in Nat /\ global_sim_time \in Int
  BY DEF BeginStep, history, TypeOK
<1>6. \A x \in EventsOf(stack) : x.time \in Int
  BY EventsHaveTimes DEF TypeOK
<1>7. CASE e.time > current_time
  <2>1. /\ current_time' = e.time /\ global_sim_time' = e.time
        /\ idle_time' = idle_time + (e.time - current_time)
    BY <1>7 DEF BeginStep
  <2> HIDE DEF e
  <2>2. \A x \in EventsOf(stack') : x.time <= current_time'
    BY <2>1, <1>2, <1>3, <1>4, <1>5, <1>6, <1>7 DEF ClockInv
  <2>3. idle_time + advanced = current_time - StartTime
    BY DEF ClockInv
  <2>4. idle_time' + advanced' = current_time' - StartTime
    BY <2>1, <2>3, <1>2, <1>5, SimAssumption DEF SimAssumption
  <2> QED BY <2>1, <2>2, <2>4, <1>2, <1>5, <1>7 DEF ClockInv
<1>8. CASE ~ (e.time > current_time)
  <2>1. UNCHANGED <<current_time, global_sim_time, idle_time>>
    BY <1>8 DEF BeginStep
  <2> HIDE DEF e
  <2>2. \A x \in EventsOf(stack') : x.time <= current_time'
    BY <2>1, <1>2, <1>3, <1>4, <1>5, <1>6, <1>8 DEF ClockInv
  <2> QED BY <2>1, <2>2, <1>5 DEF ClockInv
<1> QED BY <1>7, <1>8

(* Every step keeps the clock invariant, and the clock of a simulator that *)
(* lives on does not go back.                                              *)
LEMMA ClockInvInductive ==
    ASSUME TypeOK, ListInv, ClockInv, [Next]_vars
    PROVE  ClockInv' /\ (alive /\ alive' => current_time' >= current_time)
<1>0. StartTime \in Int /\ Deltas \subseteq Int
  BY SimAssumption DEF SimAssumption
<1>a. current_time \in Int /\ global_sim_time \in Int /\ idle_time \in Nat
      /\ advanced \in Nat
  BY DEF TypeOK
<1>b. \A x \in EventsOf(stack) : x.time \in Int
  BY EventsHaveTimes DEF TypeOK
<1>1. CASE Create
  <2>1. ~ alive /\ stack = <<>> /\ stack' = <<>>
    BY <1>1 DEF Create, ListInv
  <2>2. /\ current_time' = StartTime /\ global_sim_time' = StartTime
        /\ idle_time' = 0 /\ advanced' = 0
    BY <1>1 DEF Create
  <2> QED BY <2>1, <2>2, <1>0, EmptyLists DEF ClockInv
<1>2. CASE CreateFails
  BY <1>2 DEF ClockInv, CreateFails, stats, history
<1>3. CASE Destroy
  BY <1>3 DEF ClockInv, Destroy, stats
<1>4. ASSUME NEW t \in Times, Schedule(t)
      PROVE  ClockInv' /\ current_time' >= current_time
  BY <1>4, <1>a DEF ClockInv, Schedule, history
<1>5. ASSUME NEW id \in 1 .. MaxEvents, Cancel(id)
      PROVE  ClockInv' /\ current_time' >= current_time
  BY <1>5, <1>a DEF ClockInv, Cancel, stats
<1>6. ASSUME NEW delta \in Deltas, Advance(delta)
      PROVE  ClockInv' /\ current_time' >= current_time
  <2>1. /\ delta \in Int /\ delta >= 0 /\ current_time' = current_time + delta
        /\ global_sim_time' = current_time' /\ advanced' = advanced + delta
        /\ UNCHANGED <<alive, stack, idle_time>>
    BY <1>6, <1>0 DEF Advance, stats
  <2>2. \A x \in EventsOf(stack) : x.time <= current_time'
    BY <2>1, <1>a, <1>b DEF ClockInv
  <2> QED BY <2>1, <2>2, <1>0, <1>a DEF ClockInv
<1>7. ASSUME NEW delta \in Deltas, Delay(delta)
      PROVE  ClockInv' /\ current_time' >= current_time
  BY <1>7, <1>0, <1>a DEF ClockInv, Delay, stats, history
<1>8. CASE Pause \/ Resume
  BY <1>8, <1>a DEF ClockInv, Pause, Resume, stats, history
<1>9. CASE Run
  <2>1. RunFrame \in Frame /\ RunFrame.kind = "run"
    BY DEF RunFrame, Frame
  <2>2. EventsOf(stack') = EventsOf(stack)
    BY <1>9, <2>1, PushFlight DEF TypeOK, Run
  <2> QED BY <1>9, <2>2, <1>a DEF ClockInv, Run, stats, history
<1>10. CASE RunIterate \/ CallStep
  <2>1. alive
    BY <1>10 DEF RunIterate, CallStep, CallerRuns, Top, ListInv
  <2> QED BY <1>10, <2>1, BeginStepClock DEF RunIterate, CallStep
<1>11. CASE RunReturn
  <2>1. EventsOf(stack') \subseteq EventsOf(stack)
    BY <1>11, PopFlight DEF TypeOK, RunReturn, Top
  <2> QED BY <1>11, <2>1, <1>a DEF ClockInv, RunReturn, stats, history
<1>12. CASE FinishStep
  <2>1. EventsOf(stack') \subseteq EventsOf(stack)
    BY <1>12, PopFlight DEF TypeOK, FinishStep, Top
  <2> QED BY <1>12, <2>1, <1>a DEF ClockInv, FinishStep
<1>13. CASE UNCHANGED vars
  BY <1>13, <1>a DEF ClockInv, vars, stats, history
<1>14. CASE \E t \in Times : Schedule(t)
  BY <1>4, <1>14
<1>15. CASE \E id \in 1 .. MaxEvents : Cancel(id)
  BY <1>5, <1>15
<1>16. CASE \E delta \in Deltas : Advance(delta) \/ Delay(delta)
  BY <1>6, <1>7, <1>16
<1>17. CASE Create \/ CreateFails \/ Destroy
  <2>1. ~ (alive /\ alive')
    BY <1>17, Zenon DEF Create, CreateFails, Destroy
  <2> QED BY <2>1, <1>1, <1>2, <1>3, <1>17
<1> QED
  BY <1>8, <1>9, <1>10, <1>11, <1>12, <1>13, <1>14, <1>15, <1>16, <1>17
     DEF Next, RunIdle

-----------------------------------------------------------------------------
(* The theorems.                                                           *)

Inv == TypeOK /\ ListInv /\ ClockInv

(* The inductive invariant holds in every reachable state.                 *)
LEMMA InvHolds == Spec => []Inv
<1>1. Init => ListInv /\ ClockInv
  <2> SUFFICES ASSUME Init PROVE ListInv /\ ClockInv
    OBVIOUS
  <2>1. 1 .. 1 - 1 = {} /\ base .. next_event_id - 1 = {}
    BY DEF Init
  <2>2. ~ alive
    BY DEF Init
  <2> QED BY <2>1, <2>2, EmptyLists DEF Init, ListInv, ClockInv
<1>2. TypeOK /\ ListInv /\ ClockInv /\ [Next]_vars => ListInv' /\ ClockInv'
  BY ListInvInductive, ClockInvInductive
<1> QED BY <1>1, <1>2, TypeCorrect, PTL DEF Spec, Inv

(* The index sets that Simulator uses are those of this module.            *)
LEMMA Positions ==
    TypeOK => /\ DOMAIN queue = 1 .. Len(queue)
              /\ FramesOf("step") = StepsOf(stack)
  BY DEF TypeOK, FramesOf, StepsOf

(* The list is in firing order in every reachable state, for any number of *)
(* events, whatever handlers do.                                           *)
THEOREM QueueStaysOrdered == Spec => []QueueOrdered
<1>1. Inv => QueueOrdered
  BY Positions DEF Inv, ListInv, QueueOrdered, Ordered
<1> QED BY <1>1, InvHolds, PTL

(* No event is lost, run twice or run after its cancellation.              *)
THEOREM NoEventLost == Spec => []EveryEventAccountedFor
<1>1. Inv => EveryEventAccountedFor
  <2> SUFFICES ASSUME Inv PROVE EveryEventAccountedFor
    OBVIOUS
  <2>1. QueueIds = IdsOf(queue) /\ FlightIds = FlightOf(stack)
    BY Positions DEF Inv, QueueIds, FlightIds, IdsOf, FlightOf
  <2>2. /\ \A i, j \in DOMAIN queue : i # j => queue[i].id # queue[j].id
        /\ \A i, j \in FramesOf("step") : i # j => stack[i].id # stack[j].id
    BY Positions DEF Inv, ListInv, Distinct, DistinctSteps
  <2> QED BY <2>1, <2>2 DEF Inv, ListInv, EveryEventAccountedFor
<1> QED BY <1>1, InvHolds, PTL

(* The clock's displacement is accounted for, no handler runs early and    *)
(* the global time is not behind.                                          *)
THEOREM ClockIsSound ==
    Spec => [](ElapsedTimeAccountedFor /\ InFlightEventsAreDue /\ GlobalTimeNotBehind)
<1>1. Inv => ElapsedTimeAccountedFor /\ InFlightEventsAreDue /\ GlobalTimeNotBehind
  <2> SUFFICES ASSUME Inv
               PROVE  InFlightEventsAreDue
    BY DEF Inv, ClockInv, ElapsedTimeAccountedFor, GlobalTimeNotBehind
  <2> SUFFICES ASSUME NEW i \in StepsOf(stack)
               PROVE  stack[i].time <= current_time
    BY Positions DEF Inv, InFlightEventsAreDue
  <2>1. EventOf(stack[i]) \in EventsOf(stack)
    BY DEF EventsOf
  <2>2. EventOf(stack[i]).time = stack[i].time
    BY DEF EventOf
  <2> QED BY <2>1, <2>2 DEF Inv, ClockInv
<1> QED BY <1>1, InvHolds, PTL

(* What the clock has moved is recorded as idle time or was asked for.     *)
THEOREM TimeIsAccountedFor == Spec => []ElapsedTimeAccountedFor
  BY ClockIsSound, PTL

(* sim_time_now is never behind the clock of the simulator that lives.     *)
THEOREM GlobalTimeLeads == Spec => []GlobalTimeNotBehind
  BY ClockIsSound, PTL

(* No handler runs before the time of its event.                           *)
THEOREM HandlersAreDue == Spec => []InFlightEventsAreDue
  BY ClockIsSound, PTL

(* Idle time is recorded when a step begins, total time when it ends: the  *)
(* first is a share of the second only while no step is between the two.   *)
IdleInv ==
    (alive /\ StepsOf(stack) = {} /\ StartTime >= 0)
        => (total_time > 0 => idle_time <= total_time)

LEMMA IdleInvInductive == ASSUME Inv, IdleInv, [Next]_vars PROVE IdleInv'
<1>0. /\ StartTime \in Int /\ current_time \in Int /\ idle_time \in Nat
      /\ advanced \in Nat /\ stack \in Seq(Frame)
  BY SimAssumption DEF SimAssumption, Inv, TypeOK
<1>1. CASE UNCHANGED <<alive, stack, total_time, idle_time>>
  BY <1>1 DEF IdleInv
<1>2. CASE Create \/ Destroy
  BY <1>2 DEF IdleInv, Create, Destroy
<1>3. CASE Run
  <2>1. RunFrame \in Frame
    BY DEF RunFrame, Frame
  <2>2. /\ stack' \in Seq(Frame) /\ Len(stack') = Len(stack) + 1
        /\ \A i \in 1 .. Len(stack) : stack'[i + 1] = stack[i]
    BY <1>0, <1>3, <2>1, PushElements DEF Run
  <2>3. \A i \in StepsOf(stack) : i + 1 \in StepsOf(stack')
    BY <1>0, <2>2 DEF StepsOf
  <2> QED BY <1>3, <2>3 DEF IdleInv, Run, stats
<1>4. CASE BeginStep
  <2> DEFINE e == Head(queue)
  <2>1. e.id \in Nat /\ e.time \in Int
    <3>1. e \in Event
      BY <1>4, TailElements DEF Inv, TypeOK, BeginStep
    <3> QED BY <3>1 DEF Event
  <2>2. StepFrame(e) \in Frame /\ StepFrame(e).kind = "step"
    BY <2>1 DEF StepFrame, Frame
  <2>3. Len(stack') = Len(stack) + 1 /\ stack'[1] = StepFrame(e)
    BY <1>0, <1>4, <2>2, PushElements DEF BeginStep
  <2>4. 1 \in StepsOf(stack')
    BY <1>0, <2>2, <2>3 DEF StepsOf
  <2> QED BY <2>4 DEF IdleInv
<1>5. CASE RunReturn
  <2>1. stack # <<>> /\ Head(stack).kind = "run" /\ stack' = Tail(stack)
    BY <1>5 DEF RunReturn, Top
  <2>2. /\ Len(stack') = Len(stack) - 1 /\ Head(stack) = stack[1]
        /\ \A i \in 1 .. Len(stack) - 1 : stack'[i] = stack[i + 1]
    BY <1>0, <2>1, TailElements
  <2>3. ASSUME NEW i \in StepsOf(stack) PROVE i - 1 \in StepsOf(stack')
    <3> DEFINE j == i - 1
    <3>1. i \in 1 .. Len(stack) /\ stack[i].kind = "step" /\ i # 1
      BY <2>1, <2>2 DEF StepsOf
    <3>2. j \in 1 .. Len(stack) - 1 /\ i = j + 1
      BY <1>0, <3>1
    <3> HIDE DEF j
    <3>3. j \in StepsOf(stack')
      BY <2>2, <3>1, <3>2 DEF StepsOf
    <3> QED BY <3>3 DEF j
  <2> QED BY <1>5, <2>3 DEF IdleInv, RunReturn, stats
<1>6. CASE FinishStep
  <2>1. total_time' = current_time /\ idle_time' = idle_time /\ alive' = alive
    BY <1>6 DEF FinishStep
  <2>2. alive => idle_time + advanced = current_time - StartTime
    BY DEF Inv, ClockInv
  <2> QED BY <1>0, <2>1, <2>2 DEF IdleInv
<1>7. CASE \/ CreateFails \/ Pause \/ Resume
           \/ \E t \in Times : Schedule(t)
           \/ \E id \in 1 .. MaxEvents : Cancel(id)
           \/ \E delta \in Deltas : Advance(delta) \/ Delay(delta)
  BY <1>1, <1>7 DEF CreateFails, Pause, Resume, Schedule, Cancel, Advance, Delay, stats
<1>8. CASE UNCHANGED vars
  BY <1>1, <1>8 DEF vars, stats
<1> QED
  BY <1>2, <1>3, <1>4, <1>5, <1>6, <1>7, <1>8
     DEF Next, RunIterate, RunIdle, CallStep

(* The idle share that sim_stats_print divides is at most 1 whenever no    *)
(* step is in flight and the simulation started at 0 or later.             *)
THEOREM IdleShare == Spec => []IdleIsAShareOfTotal
<1>1. Init => IdleInv
  BY DEF Init, IdleInv
<1>2. Inv /\ IdleInv /\ [Next]_vars => IdleInv'
  BY IdleInvInductive
<1>3. Inv /\ IdleInv => IdleIsAShareOfTotal
  BY Positions DEF Inv, IdleInv, IdleIsAShareOfTotal
<1> QED BY <1>1, <1>2, <1>3, InvHolds, PTL DEF Spec

(* The clock of a living simulator never goes back.                        *)
THEOREM ClockMonotone == Spec => ClockNeverBack
<1>1. Inv /\ [Next]_vars => [alive /\ alive' => current_time' >= current_time]_vars
  BY ClockInvInductive DEF Inv
<1> QED BY <1>1, InvHolds, PTL DEF Spec, ClockNeverBack

(* simulator_step never leaves behind an event that the clock just passed. *)
THEOREM StepOvertakesNothing == Spec => NoEventOvertaken
<1>1. Inv /\ BeginStep => \A i \in DOMAIN queue' :
            queue'[i].time < current_time' => queue'[i].time < current_time
  <2> SUFFICES ASSUME Inv, BeginStep, NEW i \in DOMAIN queue',
                      queue'[i].time < current_time'
               PROVE  queue'[i].time < current_time
    OBVIOUS
  <2>1. queue' = Tail(queue) /\ queue # <<>> /\ queue \in Seq(Event)
    BY DEF BeginStep, Inv, TypeOK
  <2>2. queue' \in Seq(Event) /\ Head(queue) \in Event
        /\ \A x \in Elements(queue') : Before(Head(queue), x)
    BY <2>1, TailKeepsOrder DEF Inv, ListInv
  <2>3. queue'[i] \in Elements(queue') /\ queue'[i] \in Event
    BY <2>2 DEF Elements
  <2>4. queue'[i].time \in Int /\ Head(queue).time \in Int
    BY <2>2, <2>3 DEF Event
  <2>5. Head(queue).time <= queue'[i].time
    BY <2>2, <2>3, <2>4 DEF Before
  <2>6. current_time' = Head(queue).time \/ current_time' = current_time
    BY DEF BeginStep
  <2> QED BY <2>4, <2>5, <2>6
<1> QED BY <1>1, InvHolds, PTL DEF Spec, NoEventOvertaken

-----------------------------------------------------------------------------
(* The refinement.                                                         *)

(* The sets of events the refinement maps to are those of this module,     *)
(* before and after a step.                                                *)
LEMMA Mapping ==
    /\ TypeOK => /\ {queue[i] : i \in DOMAIN queue} = Elements(queue)
                 /\ {EventOf(stack[i]) : i \in FramesOf("step")} = EventsOf(stack)
    /\ TypeOK' => /\ {queue'[i] : i \in DOMAIN queue'} = Elements(queue')
                  /\ {EventOf(stack'[i]) : i \in FramesOf("step")'} = EventsOf(stack')
<1>1. ASSUME NEW q \in Seq(Event)
      PROVE  {q[i] : i \in DOMAIN q} = Elements(q)
  BY DEF Elements
<1>2. ASSUME NEW s \in Seq(Frame)
      PROVE  {EventOf(s[i]) : i \in {j \in DOMAIN s : s[j].kind = "step"}} = EventsOf(s)
  BY DEF EventsOf, StepsOf
<1> QED BY <1>1, <1>2 DEF TypeOK, FramesOf

(* The part of simulator_step before the handler is the agenda's Fire.     *)
LEMMA BeginStepFires ==
    ASSUME Inv, Inv', BeginStep
    PROVE  AG!Fire
<1> DEFINE e == Head(queue)
<1>1. /\ queue' = Tail(queue) /\ e \in Event
      /\ e \in Elements(queue)
      /\ Elements(queue') = Elements(queue) \ {e}
      /\ \A x \in Elements(queue') : Before(e, x)
  BY TailKeepsOrder DEF Inv, TypeOK, ListInv, BeginStep
<1>2. e.id \in Nat /\ e.time \in Int
  BY <1>1 DEF Event
<1>3. StepFrame(e) \in Frame /\ StepFrame(e).kind = "step"
  BY <1>2 DEF StepFrame, Frame
<1>4. EventOf(StepFrame(e)) = e
  BY <1>1 DEF EventOf, StepFrame, Event
<1>5. EventsOf(stack') = EventsOf(stack) \union {e}
  BY <1>3, <1>4, PushFlight DEF Inv, TypeOK, BeginStep
<1>6. current_time' = IF e.time > current_time THEN e.time ELSE current_time
  BY DEF BeginStep
<1>7. UNCHANGED <<finished, cancelled, next_event_id>>
  BY DEF BeginStep, history
<1> HIDE DEF e
<1>8. \A f \in Elements(queue) \ {e} : AG!Earlier(e, f)
  BY <1>1 DEF Before, AG!Earlier
<1> QED BY <1>1, <1>5, <1>6, <1>7, <1>8, Mapping DEF AG!Fire, Inv

(* The part of simulator_step after the handler completes the event on the *)
(* abstract agenda.                                                        *)
LEMMA FinishStepCompletes ==
    ASSUME Inv, Inv', FinishStep
    PROVE  AG!Complete
<1> DEFINE h == Head(stack)
<1>1. /\ h \in Frame /\ stack' = Tail(stack) /\ stack' \in Seq(Frame)
      /\ EventsOf(stack) = EventsOf(stack') \union {EventOf(h)}
      /\ h.id \notin FlightOf(stack')
  BY PopFlight DEF Inv, TypeOK, ListInv, FinishStep, Top
<1>2. EventOf(h).id = h.id
  BY DEF EventOf
<1>3. EventOf(h) \notin EventsOf(stack')
  BY <1>1, <1>2, EventsHaveTimes
<1>4. EventsOf(stack') = EventsOf(stack) \ {EventOf(h)} /\ EventOf(h) \in EventsOf(stack)
  BY <1>1, <1>3
<1>5. finished' = finished \union {EventOf(h).id}
      /\ UNCHANGED <<queue, cancelled, next_event_id, current_time>>
  BY <1>2 DEF FinishStep
<1> QED BY <1>4, <1>5, Mapping DEF AG!Complete, Inv

(* Every step of the simulator is a step of the agenda or a stutter.       *)
LEMMA NextImplementsAgenda ==
    ASSUME Inv, Inv', [Next]_vars
    PROVE  [AG!Next]_AG!vars
<1>0. StartTime \in Int /\ Deltas \subseteq Int /\ Times \subseteq Int
  BY SimAssumption DEF SimAssumption
<1> DEFINE stutter == UNCHANGED <<queue, finished, cancelled, next_event_id,
                                   current_time>> /\ EventsOf(stack') = EventsOf(stack)
<1>a. ASSUME stutter PROVE UNCHANGED AG!vars
  BY <1>a, Mapping DEF AG!vars, Inv
<1>1. CASE Create
  <2>1. queue = <<>> /\ stack = <<>> /\ finished = {} /\ cancelled = {}
    BY <1>1 DEF Inv, ListInv, Create
  <2>2. /\ queue' = <<>> /\ current_time' = StartTime
        /\ UNCHANGED <<next_event_id, stack, finished, cancelled>>
    BY <1>1 DEF Create
  <2>3. AG!Restart
    BY <2>1, <2>2, <1>0, EmptyLists, Mapping DEF AG!Restart, Inv
  <2> QED BY <2>3 DEF AG!Next
<1>2. CASE CreateFails
  BY <1>2, <1>a DEF CreateFails, history
<1>3. CASE Destroy
  <2>1. /\ stack = <<>> /\ queue' = <<>> /\ finished' = {} /\ cancelled' = {}
        /\ UNCHANGED <<stack, next_event_id, current_time>>
        /\ current_time \in Int
    BY <1>3 DEF Destroy, Inv, TypeOK
  <2>2. AG!Restart
    BY <2>1, EmptyLists, Mapping DEF AG!Restart, Inv
  <2> QED BY <2>2 DEF AG!Next
<1>4. ASSUME NEW t \in Times, Schedule(t)
      PROVE  AG!Next
  <2> DEFINE e == [id |-> next_event_id, time |-> t]
  <2>1. e \in Event /\ e.id = next_event_id /\ e.time = t
    BY <1>4, <1>0 DEF Inv, TypeOK, Event
  <2>2. next_event_id' = next_event_id + 1 /\ next_event_id \in Nat /\ base \in Nat
        /\ UNCHANGED <<stack, finished, cancelled, current_time>>
    BY <1>4 DEF Schedule, history, Inv, TypeOK
  <2> HIDE DEF e
  <2>3. PICK k \in 1 .. Len(queue) + 1 :
            LinksAt(queue, e.time, k) /\ queue' = InsertAt(queue, k, e)
    BY <1>4, <2>1 DEF Schedule, e
  <2>4. \A i \in 1 .. Len(queue) : queue[i].id < e.id
    <3> SUFFICES ASSUME NEW i \in 1 .. Len(queue)
                 PROVE  queue[i].id < e.id
      OBVIOUS
    <3>1. queue[i].id \in base .. next_event_id - 1
      BY DEF Inv, ListInv, IdsOf
    <3> QED BY <3>1, <2>1, <2>2
  <2>5. Elements(queue') = Elements(queue) \union {e}
    <3>1. queue \in Seq(Event) /\ Ordered(queue) /\ Distinct(queue)
      BY DEF Inv, TypeOK, ListInv
    <3>2. Elements(InsertAt(queue, k, e)) = Elements(queue) \union {e}
      BY <2>1, <2>3, <2>4, <3>1, InsertKeepsOrder
    <3> QED BY <2>3, <3>2
  <2>6. e \in AG!Entry
    BY <2>1 DEF Event, AG!Entry
  <2>7. e.id = (next_event_id - 1) + 1 /\ next_event_id' - 1 = e.id
    BY <2>1, <2>2
  <2>8. AG!Post
    BY <2>2, <2>5, <2>6, <2>7, Mapping DEF AG!Post, Inv
  <2> QED BY <2>8 DEF AG!Next
<1>5. ASSUME NEW id \in 1 .. MaxEvents, Cancel(id)
      PROVE  AG!Next
  <2>1. PICK k \in 1 .. Len(queue) : queue[k].id = id /\ queue' = RemoveAt(queue, k)
    BY <1>5 DEF Cancel, Inv, TypeOK
  <2>2. Elements(queue') = Elements(queue) \ {queue[k]}
    BY <2>1, RemoveKeepsOrder DEF Inv, TypeOK, ListInv
  <2>3. queue[k] \in Elements(queue) /\ queue[k].id = id
    BY <2>1 DEF Elements
  <2>4. cancelled' = cancelled \union {id}
        /\ UNCHANGED <<stack, finished, next_event_id, current_time>>
    BY <1>5 DEF Cancel
  <2>5. AG!Withdraw
    BY <2>2, <2>3, <2>4, Mapping DEF AG!Withdraw, Inv
  <2> QED BY <2>5 DEF AG!Next
<1>6. ASSUME NEW delta \in Deltas, Advance(delta)
      PROVE  AG!Next
  <2>1. current_time' \in Int /\ current_time' >= current_time
        /\ UNCHANGED <<queue, stack, finished, cancelled, next_event_id>>
    BY <1>6, <1>0 DEF Advance, Inv, TypeOK
  <2>2. AG!Elapse
    BY <2>1, Mapping DEF AG!Elapse, Inv
  <2> QED BY <2>2 DEF AG!Next
<1>7. ASSUME NEW delta \in Deltas, Delay(delta)
      PROVE  UNCHANGED AG!vars
  BY <1>7, <1>a DEF Delay, history
<1>8. CASE Pause \/ Resume
  BY <1>8, <1>a DEF Pause, Resume, history
<1>9. CASE Run
  <2>1. RunFrame \in Frame /\ RunFrame.kind = "run"
    BY DEF RunFrame, Frame
  <2>2. EventsOf(stack') = EventsOf(stack)
    BY <1>9, <2>1, PushFlight DEF Inv, TypeOK, Run
  <2> QED BY <1>9, <2>2, <1>a DEF Run, history
<1>10. CASE RunIterate \/ CallStep
  BY <1>10, BeginStepFires DEF RunIterate, CallStep, AG!Next
<1>11. CASE RunReturn
  <2>1. EventsOf(stack') = EventsOf(stack)
    BY <1>11, PopFlight DEF Inv, TypeOK, RunReturn, Top
  <2> QED BY <1>11, <2>1, <1>a DEF RunReturn, history
<1>12. CASE FinishStep
  BY <1>12, FinishStepCompletes DEF AG!Next
<1>13. CASE UNCHANGED vars
  BY <1>13, <1>a DEF vars, history
<1> QED
  BY <1>1, <1>2, <1>3, <1>4, <1>5, <1>6, <1>7, <1>8, <1>9, <1>10, <1>11,
     <1>12, <1>13
     DEF Next, RunIdle

(* The simulator implements the agenda: whatever handlers do, the earliest *)
(* waiting event fires next, first come first served among equal times.    *)
THEOREM ImplementsAgenda == Spec => AgendaSpec
<1>1. Init => AG!Init
  <2> SUFFICES ASSUME Init PROVE AG!Init
    OBVIOUS
  <2>1. DOMAIN queue = {} /\ FramesOf("step") = {}
    BY DEF Init, FramesOf
  <2>2. current_time \in Int
    BY SimAssumption DEF SimAssumption, Init
  <2> QED BY <2>1, <2>2 DEF Init, AG!Init
<1>2. Inv /\ Inv' /\ [Next]_vars => [AG!Next]_AG!vars
  BY NextImplementsAgenda
<1> QED BY <1>1, <1>2, InvHolds, PTL DEF Spec, AgendaSpec, AG!Spec
=============================================================================
