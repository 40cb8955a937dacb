---------------------------- MODULE QueueProofs ----------------------------
(***************************************************************************)
(* What the operators of ClientQueue preserve, for every set of clients,   *)
(* every alpha and delta, and queues of any length. ClientLruProofs cites  *)
(* these lemmas.                                                           *)
(***************************************************************************)
EXTENDS ClientQueue, FiniteSetTheorems, WellFoundedInduction, TLAPS

(* A non-empty set of positions of a list has a last one: the walk of      *)
(* prune from the tail meets the last fresh entry.                         *)
LEMMA MaxOfPositions ==
    ASSUME NEW n \in Nat, NEW S \in SUBSET (0..n), S # {}
    PROVE  Max(S) \in S /\ \A x \in S : x <= Max(S)
<1> DEFINE T == {n - x : x \in S}
<1>1. T \subseteq Nat /\ T # {}
  <2>1. \A x \in S : n - x \in Nat
    OBVIOUS
  <2>2. PICK x \in S : TRUE
    OBVIOUS
  <2>3. n - x \in T
    BY <2>2
  <2> QED BY <2>1, <2>3
<1>2. PICK m \in T : \A y \in T : ~ (<<y, m>> \in OpToRel(<, Nat))
  BY <1>1, NatLessThanWellFounded, WFMin, Zenon
<1>3. \A y \in T : m <= y
  <2> TAKE y \in T
  <2>1. y \in Nat /\ m \in Nat
    BY <1>1
  <2>2. SUFFICES ASSUME y < m PROVE FALSE
    BY <2>1
  <2>3. <<y, m>> \in Nat \X Nat /\ <<y, m>>[1] < <<y, m>>[2]
    BY <2>1, <2>2
  <2>4. <<y, m>> \in {ss \in Nat \X Nat : ss[1] < ss[2]}
    BY <2>3
  <2> QED BY <1>2, <2>4 DEF OpToRel
<1>4. PICK x \in S : m = n - x
  BY <1>2
<1>5. \A y \in S : x >= y
  <2> TAKE y \in S
  <2>1. m <= n - y
    BY <1>3
  <2> QED BY <2>1, <1>4
<1> QED BY <1>4, <1>5 DEF Max

(* The prefix prune keeps is within the list; everything behind it is      *)
(* stale and its last entry, if any, is not.                               *)
LEMMA KeptFacts ==
    ASSUME NEW q \in Queue, NEW t \in Nat, NEW k \in Setting
    PROVE  /\ Kept(q, t, k) \in 0..Len(q.lru)
           /\ \A i \in (Kept(q, t, k) + 1)..Len(q.lru) : Stale(q, i, t, k)
           /\ Kept(q, t, k) # 0 => ~ Stale(q, Kept(q, t, k), t, k)
<1> DEFINE F == {i \in 1..Len(q.lru) : ~ Stale(q, i, t, k)}
<1>1. q.lru \in Seq(Entry) /\ Len(q.lru) \in Nat
  BY DEF Queue
<1>2. {0} \cup F \in SUBSET (0..Len(q.lru)) /\ {0} \cup F # {}
  BY <1>1
<1>3. Max({0} \cup F) \in {0} \cup F /\ \A x \in {0} \cup F : x <= Max({0} \cup F)
  BY ONLY <1>1, <1>2, MaxOfPositions
<1>4. Kept(q, t, k) = Max({0} \cup F)
  BY DEF Kept
<1>5. Kept(q, t, k) \in {0} \cup F
  BY <1>3, <1>4
<1>6. \A i \in (Kept(q, t, k) + 1)..Len(q.lru) : Stale(q, i, t, k)
  <2> SUFFICES ASSUME NEW i \in (Kept(q, t, k) + 1)..Len(q.lru), ~ Stale(q, i, t, k)
               PROVE  FALSE
    OBVIOUS
  <2>1. i \in 1..Len(q.lru)
    BY <1>1, <1>2, <1>5
  <2>2. i <= Kept(q, t, k)
    BY <1>3, <1>4, <2>1
  <2> QED BY <1>1, <1>2, <1>5, <2>1, <2>2
<1> QED BY <1>1, <1>2, <1>5, <1>6

(* Enqueue puts one new entry before the list.                             *)
LEMMA EnqueueList ==
    ASSUME NEW q, QueueOK(q), NEW s \in Slot, NEW t \in Nat
    PROVE  /\ Enqueue(q, s, t).lru \in Seq(Entry)
           /\ Len(Enqueue(q, s, t).lru) = Len(q.lru) + 1
           /\ Enqueue(q, s, t).lru[1] = [slot |-> s, stamp |-> t]
           /\ \A i \in 1..Len(q.lru) : Enqueue(q, s, t).lru[i + 1] = q.lru[i]
<1> DEFINE node == [slot |-> s, stamp |-> t]
<1>1. q.lru \in Seq(Entry) /\ Len(q.lru) \in Nat /\ q.n_entry = Len(q.lru)
  BY DEF QueueOK, Queue
<1>2. node \in Entry
  BY DEF Entry
<1>3. Enqueue(q, s, t).lru = IF q.n_entry = 0 THEN <<node>> ELSE <<node>> \o q.lru
  BY DEF Enqueue
<1> HIDE DEF node
<1>4. <<node>> \in Seq(Entry) /\ Len(<<node>>) = 1 /\ <<node>>[1] = node
  BY <1>2
<1>5. CASE q.n_entry = 0
  BY <1>1, <1>3, <1>4, <1>5 DEF node
<1>6. CASE q.n_entry # 0
  <2>1. Enqueue(q, s, t).lru = <<node>> \o q.lru
    BY <1>3, <1>6
  <2>2. <<node>> \o q.lru \in Seq(Entry) /\ Len(<<node>> \o q.lru) = 1 + Len(q.lru)
    BY <1>1, <1>4
  <2>3. (<<node>> \o q.lru)[1] = node
    BY <1>1, <1>4
  <2>4. \A i \in 1..Len(q.lru) : (<<node>> \o q.lru)[i + 1] = q.lru[i]
    BY <1>1, <1>4
  <2> QED BY <1>1, <2>1, <2>2, <2>3, <2>4 DEF node
<1> QED BY <1>5, <1>6

(* The position of an active client's node: QueueOK makes it unique.       *)
LEMMA PositionFacts ==
    ASSUME NEW q, QueueOK(q), NEW s \in Slots(q)
    PROVE  /\ Position(q, s) \in 1..Len(q.lru)
           /\ q.lru[Position(q, s)].slot = s
<1>1. q.lru \in Seq(Entry) /\ DOMAIN q.lru = 1..Len(q.lru)
  BY DEF QueueOK, Queue
<1>2. \E i \in DOMAIN q.lru : q.lru[i].slot = s
  BY DEF Slots
<1> QED BY <1>1, <1>2 DEF Position

(* MoveToFront permutes the list: the client's entry comes first with the  *)
(* new stamp, those before it move back by one, those behind it stay.      *)
LEMMA MoveToFrontList ==
    ASSUME NEW q, QueueOK(q), NEW s \in Slot, NEW t \in Nat, s \in Slots(q)
    PROVE  /\ MoveToFront(q, s, t).lru \in Seq(Entry)
           /\ Len(MoveToFront(q, s, t).lru) = Len(q.lru)
           /\ MoveToFront(q, s, t).lru[1] = [slot |-> s, stamp |-> t]
           /\ \A i \in 2..Position(q, s) : MoveToFront(q, s, t).lru[i] = q.lru[i - 1]
           /\ \A i \in (Position(q, s) + 1)..Len(q.lru) : MoveToFront(q, s, t).lru[i] = q.lru[i]
<1> DEFINE p == Position(q, s)
           n == Len(q.lru)
           node == [slot |-> s, stamp |-> t]
           e(i) == IF i = 1 THEN node ELSE IF i <= p THEN q.lru[i - 1] ELSE q.lru[i]
           f == [i \in 1..n |-> e(i)]
<1>1. q.lru \in Seq(Entry) /\ n \in Nat /\ q \in Queue
  BY DEF QueueOK, Queue
<1>2. p \in 1..n
  BY PositionFacts
<1>3. MoveToFront(q, s, t).lru = f
  BY <1>1 DEF MoveToFront
<1>4. node \in Entry
  BY DEF Entry
<1>5. \A i \in 1..n : q.lru[i] \in Entry
  BY <1>1
<1> HIDE DEF p, n, node
<1>6. \A i \in 1..n : e(i) \in Entry
  BY <1>1, <1>2, <1>4, <1>5
<1>7. f \in Seq(Entry) /\ Len(f) = n
  BY <1>1, <1>6
<1>8. f[1] = node
  BY <1>1, <1>2
<1>9. (\A i \in 2..p : f[i] = q.lru[i - 1]) /\ (\A i \in (p + 1)..n : f[i] = q.lru[i])
  BY <1>1, <1>2
<1> QED BY <1>3, <1>7, <1>8, <1>9 DEF p, n, node

-----------------------------------------------------------------------------
(* The three views of a queue stay consistent.                             *)

(* QueueOK as facts about the components of the record, and back.          *)
LEMMA QueueFacts ==
    ASSUME NEW q, QueueOK(q)
    PROVE  /\ q \in Queue /\ q = [lru |-> q.lru, active |-> q.active, n_entry |-> q.n_entry]
           /\ q.lru \in Seq(Entry) /\ Len(q.lru) \in Nat /\ DOMAIN q.lru = 1..Len(q.lru)
           /\ \A i \in 1..Len(q.lru) :
                q.lru[i] \in Entry /\ q.lru[i].slot \in Slot /\ q.lru[i].stamp \in Nat
           /\ q.active \in [Slot -> BOOLEAN] /\ q.n_entry = Len(q.lru)
           /\ \A i, j \in 1..Len(q.lru) : q.lru[i].slot = q.lru[j].slot => i = j
           /\ \A s \in Slot : q.active[s] <=> s \in Slots(q)
           /\ Slots(q) = {q.lru[i].slot : i \in 1..Len(q.lru)}
<1>1. q \in Queue /\ q.n_entry = Len(q.lru)
  BY DEF QueueOK
<1>2. /\ q.lru \in Seq(Entry) /\ q.active \in [Slot -> BOOLEAN]
      /\ q = [lru |-> q.lru, active |-> q.active, n_entry |-> q.n_entry]
  BY <1>1 DEF Queue
<1>3. Len(q.lru) \in Nat /\ DOMAIN q.lru = 1..Len(q.lru)
  BY <1>2
<1>4. \A i \in 1..Len(q.lru) : q.lru[i] \in Entry
  BY <1>2
<1>5. \A x \in Entry : x.slot \in Slot /\ x.stamp \in Nat
  BY DEF Entry
<1>6. \A i, j \in 1..Len(q.lru) : q.lru[i].slot = q.lru[j].slot => i = j
  BY <1>3 DEF QueueOK
<1>7. \A s \in Slot : q.active[s] <=> s \in Slots(q)
  BY DEF QueueOK
<1>8. Slots(q) = {q.lru[i].slot : i \in 1..Len(q.lru)}
  BY <1>3 DEF Slots
<1> QED BY <1>1, <1>2, <1>3, <1>4, <1>5, <1>6, <1>7, <1>8

(* What makes a record a consistent queue, in terms of its list.           *)
LEMMA QueueIntro ==
    ASSUME NEW l \in Seq(Entry), NEW a \in [Slot -> BOOLEAN],
           \A i, j \in 1..Len(l) : l[i].slot = l[j].slot => i = j,
           \A s \in Slot : a[s] <=> s \in {l[i].slot : i \in 1..Len(l)}
    PROVE  QueueOK([lru |-> l, active |-> a, n_entry |-> Len(l)])
<1> DEFINE q == [lru |-> l, active |-> a, n_entry |-> Len(l)]
<1>1. DOMAIN l = 1..Len(l) /\ Len(l) \in Int
  OBVIOUS
<1>2. q \in Queue
  BY <1>1 DEF Queue
<1>3. q.lru = l /\ q.active = a /\ q.n_entry = Len(l)
  OBVIOUS
<1> HIDE DEF q
<1>4. \A i, j \in DOMAIN q.lru : q.lru[i].slot = q.lru[j].slot => i = j
  BY <1>1, <1>3
<1>5. Slots(q) = {l[i].slot : i \in 1..Len(l)}
  BY <1>1, <1>3 DEF Slots
<1>6. \A s \in Slot : q.active[s] <=> s \in Slots(q)
  BY <1>3, <1>5
<1>7. QueueOK(q)
  BY <1>2, <1>3, <1>4, <1>6 DEF QueueOK
<1> QED BY <1>7 DEF q

(* A new node for a client that has none (lru.c, Enqueue).                 *)
LEMMA EnqueueOK ==
    ASSUME NEW q, QueueOK(q), NEW s \in Slot, NEW t \in Nat, s \notin Slots(q)
    PROVE  QueueOK(Enqueue(q, s, t))
<1> DEFINE l == Enqueue(q, s, t).lru
           a == [q.active EXCEPT ![s] = TRUE]
           n == Len(q.lru)
<1>1. /\ n \in Nat /\ q.active \in [Slot -> BOOLEAN] /\ q.n_entry = n
      /\ \A i \in 1..n : q.lru[i].slot \in Slot
      /\ \A i, j \in 1..n : q.lru[i].slot = q.lru[j].slot => i = j
      /\ \A r \in Slot : q.active[r] <=> r \in Slots(q)
      /\ Slots(q) = {q.lru[i].slot : i \in 1..n}
  BY QueueFacts
<1>2. /\ l \in Seq(Entry) /\ Len(l) = n + 1
      /\ l[1] = [slot |-> s, stamp |-> t]
      /\ \A i \in 1..n : l[i + 1] = q.lru[i]
  BY EnqueueList
<1>3. Enqueue(q, s, t) = [lru |-> l, active |-> a, n_entry |-> Len(l)]
  BY <1>1, <1>2 DEF Enqueue
<1> HIDE DEF l, n
<1>4. l[1].slot = s
  BY <1>2
<1>5. \A i \in 2..(n + 1) : l[i] = q.lru[i - 1] /\ i - 1 \in 1..n
  <2> TAKE i \in 2..(n + 1)
  <2>1. i - 1 \in 1..n /\ (i - 1) + 1 = i
    BY <1>1
  <2> QED BY <1>2, <2>1
<1>6. \A i \in 1..n : q.lru[i].slot # s
  BY <1>1
<1>7. \A i, j \in 1..(n + 1) : l[i].slot = l[j].slot => i = j
  <2> SUFFICES ASSUME NEW i \in 1..(n + 1), NEW j \in 1..(n + 1), l[i].slot = l[j].slot
               PROVE  i = j
    OBVIOUS
  <2>1. CASE i = 1 /\ j = 1
    BY <2>1
  <2>2. CASE i # 1 /\ j # 1
    <3>1. i \in 2..(n + 1) /\ j \in 2..(n + 1)
      BY <1>1, <2>2
    <3>2. q.lru[i - 1].slot = q.lru[j - 1].slot /\ i - 1 \in 1..n /\ j - 1 \in 1..n
      BY <1>5, <3>1
    <3>3. i - 1 = j - 1
      BY ONLY <1>1, <3>2
    <3> QED BY <1>1, <3>3
  <2>3. CASE i = 1 /\ j # 1
    <3>1. j \in 2..(n + 1)
      BY <1>1, <2>3
    <3> QED BY <1>4, <1>5, <1>6, <2>3, <3>1
  <2>4. CASE i # 1 /\ j = 1
    <3>1. i \in 2..(n + 1)
      BY <1>1, <2>4
    <3> QED BY <1>4, <1>5, <1>6, <2>4, <3>1
  <2> QED BY <2>1, <2>2, <2>3, <2>4
<1>8. {l[i].slot : i \in 1..(n + 1)} = Slots(q) \cup {s}
  <2>1. ASSUME NEW i \in 1..(n + 1) PROVE l[i].slot \in Slots(q) \cup {s}
    <3>1. CASE i = 1
      BY <1>4, <3>1
    <3>2. CASE i # 1
      <4>1. i \in 2..(n + 1)
        BY <1>1, <3>2
      <4> QED BY <1>1, <1>5, <4>1
    <3> QED BY <3>1, <3>2
  <2>2. ASSUME NEW i \in 1..n PROVE i + 1 \in 1..(n + 1) /\ l[i + 1].slot = q.lru[i].slot
    BY <1>1, <1>2
  <2>3. 1 \in 1..(n + 1)
    BY <1>1
  <2> QED BY <1>1, <1>4, <2>1, <2>2, <2>3, SMTT(60)
<1>9. a \in [Slot -> BOOLEAN]
  BY <1>1
<1>10. \A r \in Slot : a[r] <=> r \in Slots(q) \cup {s}
  <2> TAKE r \in Slot
  <2>1. CASE r = s
    BY <1>1, <2>1
  <2>2. CASE r # s
    <3>1. a[r] = q.active[r]
      BY <1>1, <2>2
    <3> QED BY <1>1, <2>2, <3>1, Zenon
  <2> QED BY <2>1, <2>2
<1> HIDE DEF a
<1>11. /\ \A i, j \in 1..Len(l) : l[i].slot = l[j].slot => i = j
       /\ \A r \in Slot : a[r] <=> r \in {l[i].slot : i \in 1..Len(l)}
  BY <1>2, <1>7, <1>8, <1>10
<1> QED BY <1>2, <1>3, <1>9, <1>11, QueueIntro

(* MoveToFront permutes the list: Before(q, s)[i] is where the entry that  *)
(* ends at position i stood. Entries keep their order, but for the moved   *)
(* one.                                                                    *)
Before(q, s) ==
    [i \in 1..Len(q.lru) |->
        IF i = 1 THEN Position(q, s) ELSE IF i <= Position(q, s) THEN i - 1 ELSE i]

(* Before(q, s) is a bijection that keeps the order of the other clients.  *)
LEMMA MoveToFrontIndex ==
    ASSUME NEW q, QueueOK(q), NEW s \in Slot, NEW t \in Nat, s \in Slots(q)
    PROVE  /\ Before(q, s) \in [1..Len(q.lru) -> 1..Len(q.lru)]
           /\ \A i \in 1..Len(q.lru) :
                MoveToFront(q, s, t).lru[i].slot = q.lru[Before(q, s)[i]].slot
           /\ \A i \in 2..Len(q.lru) :
                MoveToFront(q, s, t).lru[i] = q.lru[Before(q, s)[i]]
           /\ \A i, j \in 2..Len(q.lru) : i < j => Before(q, s)[i] < Before(q, s)[j]
           /\ \A i, j \in 1..Len(q.lru) : Before(q, s)[i] = Before(q, s)[j] => i = j
           /\ \A j \in 1..Len(q.lru) : \E i \in 1..Len(q.lru) : Before(q, s)[i] = j
<1> DEFINE m == MoveToFront(q, s, t).lru
           p == Position(q, s)
           n == Len(q.lru)
           old == [i \in 1..n |-> IF i = 1 THEN p ELSE IF i <= p THEN i - 1 ELSE i]
<1>1. n \in Nat
  BY DEF QueueOK, Queue
<1>2. p \in 1..n /\ q.lru[p].slot = s
  BY PositionFacts
<1>3. /\ m[1] = [slot |-> s, stamp |-> t]
      /\ \A i \in 2..p : m[i] = q.lru[i - 1]
      /\ \A i \in (p + 1)..n : m[i] = q.lru[i]
  BY MoveToFrontList
<1> HIDE DEF m, p, n
<1>4. old \in [1..n -> 1..n]
  BY <1>1, <1>2
<1>5. \A i \in 2..n : m[i] = q.lru[old[i]]
  BY <1>1, <1>2, <1>3
<1>6. \A i \in 1..n : m[i].slot = q.lru[old[i]].slot
  <2>1. old[1] = p /\ m[1].slot = q.lru[old[1]].slot
    BY <1>1, <1>2, <1>3
  <2> QED BY <1>1, <1>5, <2>1, SMTT(60)
<1>7. \A i, j \in 1..n : old[i] = old[j] => i = j
  BY <1>1, <1>2
<1>8. \A j \in 1..n : \E i \in 1..n : old[i] = j
  <2> TAKE j \in 1..n
  <2>1. CASE j = p
    <3>1. 1 \in 1..n /\ old[1] = j
      BY <1>1, <1>2, <2>1
    <3> QED BY <3>1
  <2>2. CASE j < p
    <3>1. j + 1 \in 1..n /\ old[j + 1] = j
      BY <1>1, <1>2, <2>2
    <3> QED BY <3>1
  <2>3. CASE j > p
    <3>1. old[j] = j
      BY <1>1, <1>2, <2>3
    <3> QED BY <3>1
  <2> QED BY <1>1, <1>2, <2>1, <2>2, <2>3
<1>9. \A i, j \in 2..n : i < j => old[i] < old[j]
  BY <1>1, <1>2
<1>10. Before(q, s) = old
  BY DEF Before, p, n
<1> HIDE DEF old
<1> QED BY <1>4, <1>5, <1>6, <1>7, <1>8, <1>9, <1>10 DEF m, n

(* Moving an active client's node to the front (lru.c, referencePage).     *)
LEMMA MoveToFrontOK ==
    ASSUME NEW q, QueueOK(q), NEW s \in Slot, NEW t \in Nat, s \in Slots(q)
    PROVE  QueueOK(MoveToFront(q, s, t))
<1> DEFINE l == MoveToFront(q, s, t).lru
           n == Len(q.lru)
           old == Before(q, s)
<1>1. /\ n \in Nat /\ q.active \in [Slot -> BOOLEAN] /\ q.n_entry = n
      /\ q = [lru |-> q.lru, active |-> q.active, n_entry |-> q.n_entry]
      /\ \A i, j \in 1..n : q.lru[i].slot = q.lru[j].slot => i = j
      /\ \A r \in Slot : q.active[r] <=> r \in Slots(q)
      /\ Slots(q) = {q.lru[i].slot : i \in 1..n}
  BY QueueFacts
<1>2. l \in Seq(Entry) /\ Len(l) = n
  BY MoveToFrontList, ZenonT(60)
<1>3. MoveToFront(q, s, t) = [lru |-> l, active |-> q.active, n_entry |-> Len(l)]
  <2>1. MoveToFront(q, s, t) = [lru |-> l, active |-> q.active, n_entry |-> q.n_entry]
    BY DEF MoveToFront
  <2> QED BY <1>1, <1>2, <2>1
<1>4. /\ old \in [1..n -> 1..n]
      /\ \A i \in 1..n : l[i].slot = q.lru[old[i]].slot
      /\ \A i, j \in 1..n : old[i] = old[j] => i = j
      /\ \A j \in 1..n : \E i \in 1..n : old[i] = j
  <2>1. old \in [1..n -> 1..n]
     BY MoveToFrontIndex
  <2>2. \A i \in 1..n : l[i].slot = q.lru[old[i]].slot
     BY MoveToFrontIndex
  <2>3. \A i, j \in 1..n : old[i] = old[j] => i = j
     BY MoveToFrontIndex
  <2>4. \A j \in 1..n : \E i \in 1..n : old[i] = j
     BY MoveToFrontIndex
  <2> QED BY <2>1, <2>2, <2>3, <2>4
<1> HIDE DEF l
<1> HIDE DEF n, old
<1>5. \A i, j \in 1..n : l[i].slot = l[j].slot => i = j
  BY <1>1, <1>4
<1>6. {l[i].slot : i \in 1..n} = Slots(q)
  <2>1. ASSUME NEW i \in 1..n PROVE l[i].slot \in Slots(q)
    <3>1. old[i] \in 1..n /\ l[i].slot = q.lru[old[i]].slot
      BY <1>4
    <3> QED BY <1>1, <3>1
  <2>2. ASSUME NEW x \in Slots(q) PROVE x \in {l[i].slot : i \in 1..n}
    <3>1. PICK j \in 1..n : x = q.lru[j].slot
      BY <1>1
    <3>2. PICK i \in 1..n : old[i] = j
      BY <1>4
    <3>3. x = l[i].slot
      BY <1>4, <3>1, <3>2
    <3> QED BY <3>3
  <2> QED BY <2>1, <2>2
<1>7. /\ \A i, j \in 1..Len(l) : l[i].slot = l[j].slot => i = j
      /\ \A r \in Slot : q.active[r] <=> r \in {l[i].slot : i \in 1..Len(l)}
  BY <1>1, <1>2, <1>5, <1>6
<1> QED BY <1>1, <1>2, <1>3, <1>7, QueueIntro

(* prune (lru.c): what is left is a consistent prefix of the list; a       *)
(* client that is gone had a stale entry; the last entry left is not       *)
(* stale.                                                                  *)
LEMMA PruneFacts ==
    ASSUME NEW q, QueueOK(q), NEW t \in Nat, NEW k \in Setting
    PROVE  /\ QueueOK(Prune(q, t, k))
           /\ Len(Prune(q, t, k).lru) = Kept(q, t, k)
           /\ Kept(q, t, k) \in 0..Len(q.lru)
           /\ \A i \in 1..Kept(q, t, k) : Prune(q, t, k).lru[i] = q.lru[i]
<1> DEFINE n == Kept(q, t, k)
           m == Len(q.lru)
           l == SubSeq(q.lru, 1, n)
           gone == {q.lru[i].slot : i \in (n + 1)..m}
           a == [r \in Slot |-> q.active[r] /\ r \notin gone]
<1>1. /\ q \in Queue /\ m \in Nat /\ q.active \in [Slot -> BOOLEAN] /\ q.n_entry = m
      /\ q.lru \in Seq(Entry)
      /\ \A i, j \in 1..m : q.lru[i].slot = q.lru[j].slot => i = j
      /\ \A r \in Slot : q.active[r] <=> r \in Slots(q)
      /\ Slots(q) = {q.lru[i].slot : i \in 1..m}
  BY QueueFacts
<1>2. n \in 0..m
  BY <1>1, KeptFacts
<1>3. l \in Seq(Entry) /\ Len(l) = n /\ \A i \in 1..n : l[i] = q.lru[i]
  BY <1>1, <1>2
<1>4. Prune(q, t, k) = [lru |-> l, active |-> a, n_entry |-> m - (m - n)]
  BY <1>1 DEF Prune
<1>5. m - (m - n) = Len(l)
  BY <1>1, <1>2, <1>3
<1>6. Prune(q, t, k) = [lru |-> l, active |-> a, n_entry |-> Len(l)]
  BY <1>4, <1>5
<1> HIDE DEF n, m, l
<1>7. \A i, j \in 1..n : l[i].slot = l[j].slot => i = j
  BY <1>1, <1>2, <1>3
<1>8. \A r \in Slot : (r \in Slots(q) /\ r \notin gone) <=> r \in {l[i].slot : i \in 1..n}
  <2> TAKE r \in Slot
  <2>1. ASSUME r \in Slots(q), r \notin gone PROVE r \in {l[i].slot : i \in 1..n}
    <3>1. PICK i \in 1..m : r = q.lru[i].slot
      BY <1>1, <2>1
    <3>2. i \notin (n + 1)..m
      BY <2>1, <3>1
    <3>3. i \in 1..n
      BY <1>1, <1>2, <3>2
    <3> QED BY <1>3, <3>1, <3>3
  <2>2. ASSUME NEW i \in 1..n, r = l[i].slot PROVE r \in Slots(q) /\ r \notin gone
    <3>1. i \in 1..m /\ l[i] = q.lru[i]
      BY <1>1, <1>2, <1>3
    <3>2. \A j \in (n + 1)..m : j \in 1..m /\ j # i
      BY <1>1, <1>2
    <3> QED BY <1>1, <2>2, <3>1, <3>2
  <2> QED BY <2>1, <2>2
<1>9. \A r \in Slot : a[r] <=> r \in {l[i].slot : i \in 1..n}
  <2> TAKE r \in Slot
  <2>1. a[r] <=> (q.active[r] /\ r \notin gone)
    OBVIOUS
  <2>2. q.active[r] <=> r \in Slots(q)
    BY <1>1
  <2>3. (r \in Slots(q) /\ r \notin gone) <=> r \in {l[i].slot : i \in 1..n}
    BY <1>8
  <2> QED BY <2>1, <2>2, <2>3, Zenon
<1>10. a \in [Slot -> BOOLEAN]
  OBVIOUS
<1> HIDE DEF a, gone
<1>11. QueueOK([lru |-> l, active |-> a, n_entry |-> Len(l)])
  <2>1. /\ \A i, j \in 1..Len(l) : l[i].slot = l[j].slot => i = j
        /\ \A r \in Slot : a[r] <=> r \in {l[i].slot : i \in 1..Len(l)}
    BY <1>3, <1>7, <1>9
  <2> QED BY <1>3, <1>10, <2>1, QueueIntro
<1>12. QueueOK(Prune(q, t, k)) /\ Prune(q, t, k).lru = l
  BY <1>6, <1>11
<1> QED BY <1>2, <1>3, <1>12 DEF n, m

(* A client that prune drops had an entry older than delta.                *)
LEMMA PruneDropsStale ==
    ASSUME NEW q, QueueOK(q), NEW t \in Nat, NEW k \in Setting,
           NEW s \in Slots(q), s \notin Slots(Prune(q, t, k))
    PROVE  \E i \in 1..Len(q.lru) : q.lru[i].slot = s /\ q.lru[i].stamp < t - k.delta
<1> DEFINE v == Prune(q, t, k)
           n == Kept(q, t, k)
<1>1. PICK i \in 1..Len(q.lru) : q.lru[i].slot = s
  BY QueueFacts
<1>2. n \in 0..Len(q.lru) /\ Len(q.lru) \in Nat
  BY PruneFacts, QueueFacts
<1>3. Slots(v) = {v.lru[j].slot : j \in 1..n}
  <2>1. QueueOK(v)
    BY PruneFacts
  <2>2. Len(v.lru) = n
    BY PruneFacts
  <2> QED BY <2>1, <2>2, QueueFacts
<1>4. \A j \in 1..n : v.lru[j] = q.lru[j]
  BY PruneFacts
<1> HIDE DEF v
<1>5. i \notin 1..n
  BY <1>1, <1>3, <1>4 DEF v
<1>6. i \in (n + 1)..Len(q.lru)
  BY <1>2, <1>5
<1>7. Stale(q, i, t, k)
  <2>1. q \in Queue
    BY DEF QueueOK
  <2> QED BY <1>6, <2>1, KeptFacts
<1> QED BY <1>1, <1>7 DEF Stale

-----------------------------------------------------------------------------
(* Where the entry at position i > 1 stood before referencePage put        *)
(* client s at the head.                                                   *)
Origin(q, s, i) == IF s \in Slots(q) /\ i > Position(q, s) THEN i ELSE i - 1

(* w is q with client s at the head, stamped t, before the others.         *)
TouchedAs(q, s, t, w) ==
    /\ QueueOK(w)
    /\ Len(w.lru) >= 1
    /\ w.lru[1] = [slot |-> s, stamp |-> t]
    /\ \A i \in 2..Len(w.lru) : Origin(q, s, i) \in 1..Len(q.lru) /\ w.lru[i] = q.lru[Origin(q, s, i)]
    /\ \A i, j \in 2..Len(w.lru) : i < j => Origin(q, s, i) < Origin(q, s, j)
    /\ Slots(q) \subseteq Slots(w)

(* referencePage up to its pruning: the client is at the head with its new *)
(* stamp, the others follow in their old order with their old stamps.      *)
LEMMA TouchFacts ==
    ASSUME NEW q, QueueOK(q), NEW s \in Slot, NEW t \in Nat
    PROVE  /\ QueueOK(Touch(q, s, t))
           /\ Len(Touch(q, s, t).lru) >= 1
           /\ Touch(q, s, t).lru[1] = [slot |-> s, stamp |-> t]
           /\ \A i \in 2..Len(Touch(q, s, t).lru) :
                /\ Origin(q, s, i) \in 1..Len(q.lru)
                /\ Touch(q, s, t).lru[i] = q.lru[Origin(q, s, i)]
           /\ \A i, j \in 2..Len(Touch(q, s, t).lru) :
                i < j => Origin(q, s, i) < Origin(q, s, j)
           /\ Slots(q) \subseteq Slots(Touch(q, s, t))
<1> DEFINE w == Touch(q, s, t)
           n == Len(q.lru)
<1> SUFFICES TouchedAs(q, s, t, w)
  BY Zenon DEF TouchedAs
<1>1. n \in Nat /\ Slots(q) = {q.lru[i].slot : i \in 1..n}
  BY QueueFacts
<1>2. q.active[s] <=> s \in Slots(q)
  BY QueueFacts
<1>3. CASE s \in Slots(q)
  <2>1. w = MoveToFront(q, s, t)
    BY <1>2, <1>3, Zenon DEF Touch
  <2>2. QueueOK(w)
    BY <1>3, <2>1, MoveToFrontOK
  <2>3. Len(w.lru) = n
    <3>1. Len(MoveToFront(q, s, t).lru) = Len(q.lru)
      BY <1>3, MoveToFrontList, ZenonT(60)
    <3> QED BY <2>1, <3>1
  <2>4. w.lru[1] = [slot |-> s, stamp |-> t]
    BY <1>3, <2>1, MoveToFrontList
  <2>5. \A i \in 2..Position(q, s) : w.lru[i] = q.lru[i - 1]
    <3>1. \A i \in 2..Position(q, s) : MoveToFront(q, s, t).lru[i] = q.lru[i - 1]
      BY <1>3, MoveToFrontList, ZenonT(60)
    <3> QED BY <2>1, <3>1
  <2>6. \A i \in (Position(q, s) + 1)..n : w.lru[i] = q.lru[i]
    <3>1. \A i \in (Position(q, s) + 1)..Len(q.lru) : MoveToFront(q, s, t).lru[i] = q.lru[i]
      BY <1>3, MoveToFrontList, ZenonT(60)
    <3> QED BY <2>1, <3>1
  <2>7. Position(q, s) \in 1..n
    BY <1>3, PositionFacts
  <2> HIDE DEF w, n
  <2>8. \A i \in 2..n : Origin(q, s, i) \in 1..n /\ w.lru[i] = q.lru[Origin(q, s, i)]
    BY <1>1, <1>3, <2>5, <2>6, <2>7 DEF Origin
  <2>9. \A i, j \in 2..n : i < j => Origin(q, s, i) < Origin(q, s, j)
    BY <1>1, <1>3, <2>7 DEF Origin
  <2>10. Slots(q) \subseteq Slots(w)
    <3>1. w.active = q.active
      BY <2>1 DEF MoveToFront
    <3>2. \A r \in Slot : w.active[r] <=> r \in Slots(w)
      BY <2>2, QueueFacts
    <3>3. \A r \in Slot : q.active[r] <=> r \in Slots(q)
      BY QueueFacts
    <3>4. \A r \in Slots(q) : r \in Slot
      <4>1. \A i \in 1..Len(q.lru) : q.lru[i].slot \in Slot
        BY QueueFacts
      <4> QED BY <1>1, <4>1 DEF n
    <3>5. \A r \in Slots(q) : r \in Slots(w)
      BY <3>1, <3>2, <3>3, <3>4, Zenon
    <3> QED BY <3>5
  <2>11. Len(w.lru) >= 1
    BY <1>1, <2>3, <2>7
  <2> QED BY <2>2, <2>3, <2>4, <2>8, <2>9, <2>10, <2>11, Zenon DEF TouchedAs, n
<1>4. CASE s \notin Slots(q)
  <2>1. w = Enqueue(q, s, t)
    BY <1>2, <1>4, Zenon DEF Touch
  <2>2. QueueOK(w)
    BY <1>4, <2>1, EnqueueOK
  <2>3. Len(w.lru) = n + 1
    <3>1. Len(Enqueue(q, s, t).lru) = Len(q.lru) + 1
      BY EnqueueList, ZenonT(60)
    <3> QED BY <2>1, <3>1
  <2>4. w.lru[1] = [slot |-> s, stamp |-> t]
    BY <2>1, EnqueueList
  <2>5. \A i \in 1..n : w.lru[i + 1] = q.lru[i]
    <3>1. \A i \in 1..Len(q.lru) : Enqueue(q, s, t).lru[i + 1] = q.lru[i]
      BY EnqueueList, ZenonT(60)
    <3> QED BY <2>1, <3>1
  <2> HIDE DEF w, n
  <2>6. \A i \in 2..(n + 1) : Origin(q, s, i) = i - 1 /\ i - 1 \in 1..n
    BY <1>1, <1>4 DEF Origin
  <2>7. \A i \in 2..(n + 1) : w.lru[i] = q.lru[Origin(q, s, i)]
    <3> TAKE i \in 2..(n + 1)
    <3>1. i - 1 \in 1..n /\ (i - 1) + 1 = i
      BY <1>1
    <3> QED BY <2>5, <2>6, <3>1
  <2>8. \A i, j \in 2..(n + 1) : i < j => Origin(q, s, i) < Origin(q, s, j)
    BY <1>1, <2>6
  <2>9. Slots(q) \subseteq Slots(w)
    <3>1. Slots(w) = {w.lru[i].slot : i \in 1..(n + 1)}
      BY <2>2, <2>3, QueueFacts
    <3>2. \A i \in 1..n : i + 1 \in 1..(n + 1) /\ w.lru[i + 1].slot = q.lru[i].slot
      BY <1>1, <2>5
    <3> QED BY <1>1, <3>1, <3>2
  <2>10. \A i \in 2..(n + 1) : Origin(q, s, i) \in 1..n /\ w.lru[i] = q.lru[Origin(q, s, i)]
    BY <2>6, <2>7
  <2>11. Len(w.lru) >= 1
    BY <1>1, <2>3
  <2> QED BY <2>2, <2>3, <2>4, <2>8, <2>9, <2>10, <2>11, Zenon DEF TouchedAs, n
<1> QED BY <1>3, <1>4

(* What referencePage does after Touch: nothing, or prune.                 *)
LEMMA SettleFacts ==
    ASSUME NEW w, QueueOK(w), NEW t \in Nat, NEW k \in Setting
    PROVE  /\ QueueOK(Settle(w, t, k))
           /\ Len(Settle(w, t, k).lru) <= Len(w.lru)
           /\ \A i \in 1..Len(Settle(w, t, k).lru) : Settle(w, t, k).lru[i] = w.lru[i]
           /\ \A s \in Slots(w) \ Slots(Settle(w, t, k)) :
                \E i \in 1..Len(w.lru) : w.lru[i].slot = s /\ w.lru[i].stamp < t - k.delta
           /\ w.n_entry <= k.alpha => Settle(w, t, k) = w
           /\ w.n_entry > k.alpha => Settle(w, t, k) = Prune(w, t, k)
<1>1. Len(w.lru) \in Nat /\ w.n_entry \in Nat
  BY QueueFacts
<1>2. k.alpha \in Nat
  BY QueueAssumption
<1>3. CASE w.n_entry > k.alpha
  <2>1. Settle(w, t, k) = Prune(w, t, k)
    BY <1>3 DEF Settle
  <2>2. QueueOK(Prune(w, t, k))
    BY PruneFacts
  <2>3. Len(Prune(w, t, k).lru) = Kept(w, t, k)
    BY PruneFacts
  <2>4. Kept(w, t, k) \in 0..Len(w.lru)
    BY PruneFacts
  <2>5. \A i \in 1..Kept(w, t, k) : Prune(w, t, k).lru[i] = w.lru[i]
    BY PruneFacts
  <2>6. \A s \in Slots(w) \ Slots(Prune(w, t, k)) :
           \E i \in 1..Len(w.lru) : w.lru[i].slot = s /\ w.lru[i].stamp < t - k.delta
    BY PruneDropsStale
  <2>7. ~ (w.n_entry <= k.alpha)
    BY <1>1, <1>2, <1>3
  <2> QED BY <1>1, <2>1, <2>2, <2>3, <2>4, <2>5, <2>6, <2>7
<1>4. CASE ~ (w.n_entry > k.alpha)
  <2>1. Settle(w, t, k) = w
    BY <1>4 DEF Settle
  <2> QED BY <1>1, <1>4, <2>1
<1> QED BY <1>3, <1>4

=============================================================================
