--------------------------- MODULE LruListProofs ---------------------------
(***************************************************************************)
(* The pointer list of lru.c for any number of nodes and clients: it stays *)
(* a well formed doubly linked list through every enqueue, relinking and   *)
(* iteration of prune, no NULL is followed, and it implements the          *)
(* sequence of ClientLru. What carries all three is the path p from head   *)
(* to tail, which each step changes as the abstract list changes.          *)
(***************************************************************************)
EXTENDS LruList, QueueProofs, SequenceTheorems

(* p is the list from head to tail.                                        *)
Along(p) ==
    /\ p \in [1..n_entry -> Node]
    /\ \A j, k \in 1..n_entry : p[j] = p[k] => j = k
    /\ head = IF n_entry = 0 THEN NULL ELSE p[1]
    /\ tail = IF n_entry = 0 THEN NULL ELSE p[n_entry]
    /\ live = {p[k] : k \in 1..n_entry}
    /\ \A k \in 1..n_entry :
         /\ next[p[k]] = IF k = n_entry THEN NULL ELSE p[k + 1]
         /\ prev[p[k]] = IF k = 1 THEN NULL ELSE p[k - 1]
         /\ stamp[p[k]] \in Nat

(* A live node and the cell of its client point at each other.             *)
CellsInv ==
    /\ \A s \in Slot : IF active[s] THEN lru_ptr[s] \in live /\ client_hash[lru_ptr[s]] = s
                                    ELSE lru_ptr[s] = NULL
    /\ \A n \in live : /\ client_hash[n] \in Slot /\ active[client_hash[n]]
                       /\ lru_ptr[client_hash[n]] = n

(* A call runs on a list that is not empty; while referencePage prunes,    *)
(* the head carries the stamp of the call, which is not stale.             *)
CallInv ==
    pc # "idle" => /\ call \in [now : Nat, k : Setting] /\ n_entry > 0
                   /\ pc = "prune" => stamp[head] = call.now

TypeInv ==
    /\ clock \in Nat /\ n_entry \in Nat
    /\ prev \in [Node -> Node \cup {NULL}] /\ next \in [Node -> Node \cup {NULL}]
    /\ stamp \in [Node -> Int] /\ client_hash \in [Node -> Slot \cup {NULL}]
    /\ active \in [Slot -> BOOLEAN] /\ lru_ptr \in [Slot -> Node \cup {NULL}]
    /\ pc \in {"idle", "prune", "walk", "oldest"}

IInv == TypeInv /\ CellsInv /\ CallInv /\ \E p : Along(p)

-----------------------------------------------------------------------------
(* Queues.                                                                 *)

(* A consistent queue is determined by its list.                           *)
LEMMA SameList ==
    ASSUME NEW q, QueueOK(q), NEW r, QueueOK(r), Len(q.lru) = Len(r.lru),
           \A j \in 1..Len(q.lru) : q.lru[j] = r.lru[j]
    PROVE  q = r
<1>1. /\ q = [lru |-> q.lru, active |-> q.active, n_entry |-> q.n_entry]
      /\ r = [lru |-> r.lru, active |-> r.active, n_entry |-> r.n_entry]
      /\ q.n_entry = r.n_entry
  BY QueueFacts
<1>2. q.lru \in Seq(Entry) /\ r.lru \in Seq(Entry)
  BY QueueFacts
<1>3. q.lru = r.lru
  BY <1>2
<1>4. Slots(q) = Slots(r)
  BY <1>3 DEF Slots
<1>5. \A s \in Slot : (q.active[s] <=> s \in Slots(q)) /\ (r.active[s] <=> s \in Slots(r))
  BY QueueFacts
<1>6. q.active \in [Slot -> BOOLEAN] /\ r.active \in [Slot -> BOOLEAN]
  BY QueueFacts
<1>7. \A s \in Slot : q.active[s] = r.active[s]
  <2> TAKE s \in Slot
  <2>1. q.active[s] \in BOOLEAN /\ r.active[s] \in BOOLEAN
    BY <1>6
  <2>2. q.active[s] <=> r.active[s]
    BY <1>4, <1>5
  <2> QED BY <2>1, <2>2
<1>8. q.active = r.active
  BY <1>6, <1>7
<1> QED BY <1>1, <1>3, <1>8

(* prune leaves a list with a fresh tail, or an empty one, as it is.       *)
LEMMA PruneNothing ==
    ASSUME NEW q, QueueOK(q), NEW t \in Nat, NEW k \in Setting,
           Len(q.lru) = 0 \/ ~ Stale(q, Len(q.lru), t, k)
    PROVE  Prune(q, t, k) = q
<1>1. QueueOK(Prune(q, t, k)) /\ Len(Prune(q, t, k).lru) = Kept(q, t, k)
  BY PruneFacts
<1>2. \A j \in 1..Kept(q, t, k) : Prune(q, t, k).lru[j] = q.lru[j]
  BY PruneFacts
<1>3. q \in Queue /\ Len(q.lru) \in Nat
  BY QueueFacts
<1>4. /\ Kept(q, t, k) \in 0..Len(q.lru)
      /\ \A i \in (Kept(q, t, k) + 1)..Len(q.lru) : Stale(q, i, t, k)
  BY <1>3, KeptFacts
<1>5. Kept(q, t, k) = Len(q.lru)
  BY <1>3, <1>4
<1> QED BY <1>1, <1>2, <1>5, SameList

(* prune drops a stale tail, whatever it does next.                        *)
LEMMA PruneOneMore ==
    ASSUME NEW q, QueueOK(q), NEW t \in Nat, NEW k \in Setting, NEW r, QueueOK(r),
           Len(q.lru) >= 1, Stale(q, Len(q.lru), t, k), Len(r.lru) = Len(q.lru) - 1,
           \A j \in 1..Len(r.lru) : r.lru[j] = q.lru[j]
    PROVE  Prune(r, t, k) = Prune(q, t, k)
<1>1. Len(q.lru) \in Nat /\ Len(r.lru) \in Nat /\ q \in Queue /\ r \in Queue
  BY QueueFacts
<1>2. /\ Kept(q, t, k) \in 0..Len(q.lru)
      /\ \A i \in (Kept(q, t, k) + 1)..Len(q.lru) : Stale(q, i, t, k)
      /\ Kept(q, t, k) # 0 => ~ Stale(q, Kept(q, t, k), t, k)
  BY <1>1, KeptFacts
<1>3. /\ Kept(r, t, k) \in 0..Len(r.lru)
      /\ \A i \in (Kept(r, t, k) + 1)..Len(r.lru) : Stale(r, i, t, k)
      /\ Kept(r, t, k) # 0 => ~ Stale(r, Kept(r, t, k), t, k)
  BY <1>1, KeptFacts
<1>4. \A i \in 1..Len(r.lru) : Stale(r, i, t, k) <=> Stale(q, i, t, k)
  BY DEF Stale
<1>5. Kept(q, t, k) # Len(q.lru)
  BY <1>1, <1>2
<1>6. Kept(q, t, k) \in 0..Len(r.lru)
  BY <1>1, <1>2, <1>5
<1>7. ~ Kept(r, t, k) < Kept(q, t, k)
  BY <1>1, <1>2, <1>3, <1>4, <1>6, SMTT(60)
<1>8. ~ Kept(q, t, k) < Kept(r, t, k)
  <2> SUFFICES ASSUME Kept(q, t, k) < Kept(r, t, k) PROVE FALSE
    OBVIOUS
  <2>1. Kept(r, t, k) \in (Kept(q, t, k) + 1)..Len(q.lru) /\ Kept(r, t, k) \in 1..Len(r.lru)
    BY <1>1, <1>3, <1>6
  <2>2. Stale(q, Kept(r, t, k), t, k)
    BY <1>2, <2>1
  <2> QED BY <1>3, <1>4, <2>1, <2>2
<1>9. Kept(r, t, k) = Kept(q, t, k)
  BY <1>1, <1>2, <1>3, <1>7, <1>8
<1>10. /\ QueueOK(Prune(q, t, k)) /\ Len(Prune(q, t, k).lru) = Kept(q, t, k)
       /\ \A j \in 1..Kept(q, t, k) : Prune(q, t, k).lru[j] = q.lru[j]
  BY PruneFacts
<1>11. /\ QueueOK(Prune(r, t, k)) /\ Len(Prune(r, t, k).lru) = Kept(r, t, k)
       /\ \A j \in 1..Kept(r, t, k) : Prune(r, t, k).lru[j] = r.lru[j]
  BY PruneFacts
<1>12. \A j \in 1..Kept(r, t, k) : Prune(r, t, k).lru[j] = Prune(q, t, k).lru[j]
  BY <1>1, <1>3, <1>9, <1>10, <1>11
<1> QED BY <1>9, <1>10, <1>11, <1>12, SameList
(* A list with a new client first is what Enqueue makes.                   *)
LEMMA EnqueuedList ==
    ASSUME NEW w, QueueOK(w), NEW s \in Slot, s \notin Slots(w), NEW t \in Nat,
           NEW v, QueueOK(v), Len(v.lru) = Len(w.lru) + 1, v.lru[1] = [slot |-> s, stamp |-> t],
           \A j \in 1..Len(w.lru) : v.lru[j + 1] = w.lru[j]
    PROVE  v = Enqueue(w, s, t)
<1> DEFINE e == Enqueue(w, s, t)
<1>1. QueueOK(e) /\ Len(w.lru) \in Nat
  BY EnqueueOK, QueueFacts
<1>2. /\ Len(e.lru) = Len(w.lru) + 1 /\ e.lru[1] = [slot |-> s, stamp |-> t]
      /\ \A j \in 1..Len(w.lru) : e.lru[j + 1] = w.lru[j]
  BY EnqueueList, SMTT(60)
<1> HIDE DEF e
<1>3. \A j \in 1..Len(v.lru) : v.lru[j] = e.lru[j]
  <2> TAKE j \in 1..Len(v.lru)
  <2>1. CASE j = 1
    BY <1>2, <2>1
  <2>2. CASE j # 1
    <3>1. j - 1 \in 1..Len(w.lru) /\ (j - 1) + 1 = j
      BY <1>1, <2>2
    <3> QED BY <1>2, <3>1
  <2> QED BY <2>1, <2>2
<1>4. v = e
  BY <1>1, <1>2, <1>3, SameList
<1> QED BY <1>4 DEF e

(* A list with the client at position m moved first is what MoveToFront    *)
(* makes.                                                                  *)
LEMMA MovedList ==
    ASSUME NEW w, QueueOK(w), NEW s \in Slot, NEW t \in Nat,
           NEW m \in 1..Len(w.lru), w.lru[m].slot = s,
           NEW v, QueueOK(v), Len(v.lru) = Len(w.lru), v.lru[1] = [slot |-> s, stamp |-> t],
           \A j \in 2..m : v.lru[j] = w.lru[j - 1],
           \A j \in (m + 1)..Len(w.lru) : v.lru[j] = w.lru[j]
    PROVE  v = MoveToFront(w, s, t)
<1> DEFINE e == MoveToFront(w, s, t)
<1>1. s \in Slots(w) /\ Len(w.lru) \in Nat
  <2>1. Slots(w) = {w.lru[j].slot : j \in 1..Len(w.lru)} /\ Len(w.lru) \in Nat
    BY QueueFacts
  <2> QED BY <2>1
<1>2. Position(w, s) = m
  <2>1. Position(w, s) \in 1..Len(w.lru) /\ w.lru[Position(w, s)].slot = s
    BY <1>1, PositionFacts
  <2> QED BY <2>1, QueueFacts
<1>3. QueueOK(e)
  BY <1>1, MoveToFrontOK
<1>4. /\ Len(e.lru) = Len(w.lru) /\ e.lru[1] = [slot |-> s, stamp |-> t]
      /\ \A j \in 2..m : e.lru[j] = w.lru[j - 1]
      /\ \A j \in (m + 1)..Len(w.lru) : e.lru[j] = w.lru[j]
  <2>1. /\ Len(e.lru) = Len(w.lru) /\ e.lru[1] = [slot |-> s, stamp |-> t]
        /\ \A j \in 2..Position(w, s) : e.lru[j] = w.lru[j - 1]
        /\ \A j \in (Position(w, s) + 1)..Len(w.lru) : e.lru[j] = w.lru[j]
    BY <1>1, MoveToFrontList, SMTT(60)
  <2> HIDE DEF e
  <2> QED BY <1>2, <2>1
<1> HIDE DEF e
<1>5. \A j \in 1..Len(v.lru) : v.lru[j] = e.lru[j]
  <2> TAKE j \in 1..Len(v.lru)
  <2>1. j = 1 \/ j \in 2..m \/ j \in (m + 1)..Len(w.lru)
    BY <1>1
  <2> QED BY <1>4, <2>1
<1>6. v = e
  BY <1>3, <1>4, <1>5, SameList
<1> QED BY <1>6 DEF e

-----------------------------------------------------------------------------
(* The path.                                                               *)

(* The positions of p are different nodes, so there are no more of them.   *)
LEMMA ShortEnough ==
    ASSUME n_entry \in Nat, NEW p, Along(p)
    PROVE  n_entry <= Cardinality(Node) /\ Cardinality(Node) \in Nat
<1>1. p \in Injection(1..n_entry, Node)
  BY DEF Along, Injection, IsInjective
<1>2. IsFiniteSet(Node)
  BY NodeAssumption
<1>3. Cardinality(1..n_entry) <= Cardinality(Node)
  BY <1>1, <1>2, FS_Injection
<1>4. Cardinality(Node) \in Nat
  BY <1>2, FS_CardinalityType
<1>5. Cardinality(1..n_entry) = n_entry
  <2>1. 1 \in Int /\ n_entry \in Int
    OBVIOUS
  <2>2. Cardinality(1..n_entry) = IF 1 > n_entry THEN 0 ELSE n_entry - 1 + 1
    BY ONLY <2>1, FS_Interval, Zenon
  <2> QED BY <2>2
<1> QED BY <1>3, <1>4, <1>5

(* f[k] is the k-th node met on the way from h along nx.                   *)
Follows(f, N, h, nx) ==
    \A k \in 1..N :
        f[k] = IF k = 1 THEN h ELSE IF f[k - 1] = NULL THEN NULL ELSE nx[f[k - 1]]

(* Two functions that do are the same.                                     *)
LEMMA FollowedAlike ==
    ASSUME NEW N \in Nat, NEW f, NEW g, NEW h, NEW nx,
           Follows(f, N, h, nx), Follows(g, N, h, nx)
    PROVE  \A k \in 1..N : f[k] = g[k]
<1> DEFINE B == {k \in 1..N : f[k] # g[k]}
<1> SUFFICES ASSUME B # {} PROVE FALSE
  OBVIOUS
<1>1. B \subseteq Nat
  OBVIOUS
<1>2. PICK m \in B : \A y \in B : ~ (<<y, m>> \in OpToRel(<, Nat))
  BY <1>1, NatLessThanWellFounded, WFMin, Zenon
<1>3. m \in 1..N /\ f[m] # g[m]
  OBVIOUS
<1>4. m # 1
  BY <1>3 DEF Follows
<1>5. m - 1 \in 1..N /\ m - 1 < m /\ m - 1 \in Nat /\ m \in Nat
  BY <1>3, <1>4
<1>6. m - 1 \notin B
  <2> SUFFICES ASSUME m - 1 \in B PROVE FALSE
    OBVIOUS
  <2>1. <<m - 1, m>> \in Nat \X Nat /\ <<m - 1, m>>[1] < <<m - 1, m>>[2]
    BY <1>5
  <2>2. <<m - 1, m>> \in {ss \in Nat \X Nat : ss[1] < ss[2]}
    BY <2>1
  <2> QED BY <1>2, <2>2 DEF OpToRel
<1>7. f[m - 1] = g[m - 1]
  BY <1>5, <1>6
<1> QED BY <1>3, <1>4, <1>7 DEF Follows

(* Following next from head meets the nodes of p, then NULL.               *)
LEMMA NodeAtFacts ==
    ASSUME n_entry \in Nat, NEW p, Along(p)
    PROVE  \A k \in 1..Cardinality(Node) : NodeAt[k] = IF k <= n_entry THEN p[k] ELSE NULL
<1> DEFINE N == Cardinality(Node)
           body(f) == [k \in 1..N |->
                         IF k = 1 THEN head ELSE IF f[k - 1] = NULL THEN NULL ELSE next[f[k - 1]]]
           g == [k \in 1..N |-> IF k <= n_entry THEN p[k] ELSE NULL]
<1>1. N \in Nat /\ n_entry <= N
  BY ShortEnough
<1>2. NULL \notin Node
  BY NodeAssumption
<1> HIDE DEF N
<1>3. \A k \in 1..N : g[k] = IF k = 1 THEN head
                             ELSE IF g[k - 1] = NULL THEN NULL ELSE next[g[k - 1]]
  <2> TAKE k \in 1..N
  <2>1. CASE k = 1
    BY <1>1, <2>1 DEF Along
  <2>2. CASE k # 1
    <3>1. k - 1 \in 1..N
      BY <1>1, <2>2
    <3>2. CASE k - 1 <= n_entry
      <4>1. g[k - 1] = p[k - 1] /\ k - 1 \in 1..n_entry /\ p[k - 1] \in Node
        BY <1>1, <3>1, <3>2 DEF Along
      <4>2. next[p[k - 1]] = IF k - 1 = n_entry THEN NULL ELSE p[k]
        BY <1>1, <4>1 DEF Along
      <4>3. g[k] = IF k - 1 = n_entry THEN NULL ELSE p[k]
        BY <1>1, <3>1, <3>2
      <4> QED BY <1>2, <2>2, <4>1, <4>2, <4>3
    <3>3. CASE ~ (k - 1 <= n_entry)
      BY <1>1, <2>2, <3>1, <3>3
    <3> QED BY <3>2, <3>3
  <2> QED BY <2>1, <2>2
<1>4. g = body(g)
  BY <1>3
<1>5. NodeAt = CHOOSE f : f = body(f)
  BY DEF NodeAt, N
<1> HIDE DEF g
<1>6. NodeAt = body(NodeAt)
  <2> HIDE DEF body
  <2> QED BY <1>4, <1>5
<1>7. \A k \in 1..N : NodeAt[k] = IF k = 1 THEN head
                                  ELSE IF NodeAt[k - 1] = NULL THEN NULL ELSE next[NodeAt[k - 1]]
  <2> TAKE k \in 1..N
  <2> QED BY <1>6
<1>8. \A k \in 1..N : NodeAt[k] = g[k]
  <2>1. N \in Nat
    BY <1>1
  <2>2. Follows(NodeAt, N, head, next) /\ Follows(g, N, head, next)
    BY <1>3, <1>7 DEF Follows
  <2> QED BY <2>1, <2>2, FollowedAlike
<1> QED BY <1>8 DEF g, N

(* So Path is p.                                                           *)
LEMMA PathIs ==
    ASSUME n_entry \in Nat, NEW p, Along(p)
    PROVE  Path = p
<1> DEFINE N == Cardinality(Node)
           reached == {k \in 1..N : NodeAt[k] # NULL}
<1>1. N \in Nat /\ n_entry <= N
  BY ShortEnough
<1>2. \A k \in 1..N : NodeAt[k] = IF k <= n_entry THEN p[k] ELSE NULL
  BY NodeAtFacts
<1>3. NULL \notin Node /\ p \in [1..n_entry -> Node]
  BY NodeAssumption DEF Along
<1> HIDE DEF N
<1>4. reached = 1..n_entry
  BY <1>1, <1>2, <1>3
<1>5. [k \in reached |-> NodeAt[k]] = [k \in 1..n_entry |-> p[k]]
  <2>1. \A k \in 1..n_entry : NodeAt[k] = p[k]
    BY <1>1, <1>2
  <2> HIDE DEF reached
  <2> QED BY <1>4, <2>1
<1>6. Path = [k \in reached |-> NodeAt[k]]
  BY DEF Path, N
<1> QED BY <1>3, <1>5, <1>6

(* The list as a record, by its path.                                      *)
LEMMA WalkedFacts ==
    ASSUME TypeInv, CellsInv, NEW p, Along(p)
    PROVE  /\ QueueOK(Walked) /\ Len(Walked.lru) = n_entry
           /\ \A k \in 1..n_entry : /\ Walked.lru[k].slot = client_hash[p[k]]
                                    /\ Walked.lru[k].stamp = stamp[p[k]]
                                    /\ Walked.lru[k]
                                         = [slot |-> client_hash[p[k]], stamp |-> stamp[p[k]]]
           /\ Walked.active = active /\ Walked.n_entry = n_entry
           /\ \A s \in Slot : active[s] <=> s \in Slots(Walked)
<1>1. n_entry \in Nat /\ Path = p /\ DOMAIN p = 1..n_entry
  BY PathIs DEF TypeInv, Along
<1> DEFINE e(k) == [slot |-> client_hash[p[k]], stamp |-> stamp[p[k]]]
           l == [k \in 1..n_entry |-> e(k)]
<1>2. Walked = [lru |-> l, active |-> active, n_entry |-> n_entry]
  BY <1>1 DEF Walked
<1>3. \A k \in 1..n_entry : p[k] \in live
  BY DEF Along
<1>4. \A k \in 1..n_entry : client_hash[p[k]] \in Slot /\ stamp[p[k]] \in Nat
  BY <1>3 DEF CellsInv, Along
<1>5. \A k \in 1..n_entry : e(k) \in Entry
  BY <1>4 DEF Entry
<1>6. l \in Seq(Entry) /\ Len(l) = n_entry
  BY <1>1, <1>5
<1>7. \A k \in 1..n_entry : l[k] = e(k) /\ l[k].slot = client_hash[p[k]] /\ l[k].stamp = stamp[p[k]]
  OBVIOUS
<1>8. \A j, k \in 1..n_entry : l[j].slot = l[k].slot => j = k
  <2> SUFFICES ASSUME NEW j \in 1..n_entry, NEW k \in 1..n_entry, l[j].slot = l[k].slot
               PROVE  j = k
    OBVIOUS
  <2>1. client_hash[p[j]] = client_hash[p[k]]
    BY <1>7
  <2>2. lru_ptr[client_hash[p[j]]] = p[j] /\ lru_ptr[client_hash[p[k]]] = p[k]
    BY <1>3 DEF CellsInv
  <2> QED BY <2>1, <2>2 DEF Along
<1>9. \A s \in Slot : active[s] <=> s \in {l[k].slot : k \in 1..n_entry}
  <2> TAKE s \in Slot
  <2>1. ASSUME active[s] PROVE s \in {l[k].slot : k \in 1..n_entry}
    <3>1. lru_ptr[s] \in live /\ client_hash[lru_ptr[s]] = s
      BY <2>1 DEF CellsInv
    <3>2. PICK k \in 1..n_entry : lru_ptr[s] = p[k]
      BY <3>1 DEF Along
    <3> QED BY <1>7, <3>1, <3>2
  <2>2. ASSUME NEW k \in 1..n_entry, s = l[k].slot PROVE active[s]
    <3>1. s = client_hash[p[k]] /\ p[k] \in live
      BY <1>3, <1>7, <2>2
    <3> QED BY <3>1 DEF CellsInv
  <2> QED BY <2>1, <2>2
<1>10. active \in [Slot -> BOOLEAN]
  BY DEF TypeInv
<1> HIDE DEF l
<1>11. QueueOK([lru |-> l, active |-> active, n_entry |-> Len(l)])
  BY <1>6, <1>8, <1>9, <1>10, QueueIntro
<1>12. QueueOK(Walked)
  BY <1>2, <1>6, <1>11
<1>13. Walked.lru = l /\ Walked.active = active /\ Walked.n_entry = n_entry
  BY <1>2
<1>14. \A s \in Slot : active[s] <=> s \in Slots(Walked)
  BY <1>12, <1>13, QueueFacts
<1> HIDE DEF e
<1> QED BY <1>6, <1>7, <1>12, <1>13, <1>14 DEF e

-----------------------------------------------------------------------------
(* How each step changes the path.                                         *)

(* A node of the path and the node of an active client.                    *)
LEMMA PathFacts ==
    ASSUME TypeInv, CellsInv, NEW p, Along(p)
    PROVE  /\ \A k \in 1..n_entry : p[k] \in Node /\ p[k] \in live /\ p[k] # NULL
           /\ \A s \in Slot : active[s] => \E m \in 1..n_entry : p[m] = lru_ptr[s]
           /\ n_entry \in Nat
<1>1. \A k \in 1..n_entry : p[k] \in Node /\ p[k] \in live
  BY DEF Along
<1>2. NULL \notin Node
  BY NodeAssumption
<1>3. ASSUME NEW s \in Slot, active[s] PROVE \E m \in 1..n_entry : p[m] = lru_ptr[s]
  <2>1. lru_ptr[s] \in live
    BY <1>3 DEF CellsInv
  <2> QED BY <2>1, SMTT(60) DEF Along
<1> QED BY <1>1, <1>2, <1>3 DEF TypeInv

(* A node put before the head.                                             *)
LEMMA EnqueuePath ==
    ASSUME TypeInv, CellsInv, NEW p, Along(p), NEW s \in Slot, NEW t \in Nat, NEW k \in Setting,
           EnqueueNode(s, t, k)
    PROVE  /\ \E tmp, q : /\ Along(q)' /\ n_entry' = n_entry + 1
                          /\ q[1] = tmp /\ client_hash'[tmp] = s /\ stamp'[tmp] = t /\ head' = tmp
                          /\ \A j \in 1..n_entry : /\ q[j + 1] = p[j]
                                                   /\ client_hash'[p[j]] = client_hash[p[j]]
                                                   /\ stamp'[p[j]] = stamp[p[j]]
           /\ CellsInv' /\ TypeInv'
<1>1. PICK tmp \in Node \ live :
         /\ live' = live \cup {tmp}
         /\ stamp' = [stamp EXCEPT ![tmp] = t]
         /\ client_hash' = [client_hash EXCEPT ![tmp] = s]
         /\ head' = tmp
         /\ \/ /\ n_entry = 0
               /\ tail' = tmp
               /\ prev' = [prev EXCEPT ![tmp] = NULL]
               /\ next' = [next EXCEPT ![tmp] = NULL]
            \/ /\ n_entry # 0
               /\ next' = [next EXCEPT ![tmp] = head]
               /\ prev' = [prev EXCEPT ![tmp] = NULL, ![head] = tmp]
               /\ UNCHANGED tail
         /\ active' = [active EXCEPT ![s] = TRUE]
         /\ lru_ptr' = [lru_ptr EXCEPT ![s] = tmp]
         /\ n_entry' = n_entry + 1
  BY DEF EnqueueNode
<1>2. /\ \A j \in 1..n_entry : p[j] \in Node /\ p[j] \in live /\ p[j] # tmp
      /\ n_entry \in Nat /\ p \in [1..n_entry -> Node]
  <2>1. p \in [1..n_entry -> Node] /\ tmp \notin live
    BY DEF Along
  <2> QED BY <2>1, PathFacts
<1>3. /\ prev \in [Node -> Node \cup {NULL}] /\ next \in [Node -> Node \cup {NULL}]
      /\ stamp \in [Node -> Int] /\ client_hash \in [Node -> Slot \cup {NULL}]
      /\ active \in [Slot -> BOOLEAN] /\ lru_ptr \in [Slot -> Node \cup {NULL}]
  BY DEF TypeInv
<1>4. PICK q : q = [j \in 1..(n_entry + 1) |-> IF j = 1 THEN tmp ELSE p[j - 1]]
  OBVIOUS
<1>5. q \in [1..(n_entry + 1) -> Node] /\ q[1] = tmp
  BY <1>1, <1>2, <1>4
<1>6. \A j \in 1..n_entry : q[j + 1] = p[j]
  BY <1>2, <1>4
<1>7. \A j \in 2..(n_entry + 1) : q[j] = p[j - 1] /\ j - 1 \in 1..n_entry
  BY <1>2, <1>4
<1>8. head = IF n_entry = 0 THEN NULL ELSE p[1]
  BY DEF Along
<1>9. \A x \in Node : /\ next'[x] = IF x = tmp THEN head ELSE next[x]
                      /\ stamp'[x] = IF x = tmp THEN t ELSE stamp[x]
                      /\ client_hash'[x] = IF x = tmp THEN s ELSE client_hash[x]
  BY <1>1, <1>3, <1>8
<1>10. /\ n_entry # 0 => p[1] \in Node /\ p[1] # tmp /\ head = p[1]
       /\ prev'[tmp] = NULL
       /\ \A j \in 1..n_entry : prev'[p[j]] = IF j = 1 THEN tmp ELSE prev[p[j]]
  <2>1. n_entry # 0 => 1 \in 1..n_entry
    BY <1>2
  <2>2. \A j \in 1..n_entry : j # 1 => p[j] # p[1]
    BY <2>1 DEF Along
  <2> QED BY <1>1, <1>2, <1>3, <1>8, <2>1, <2>2
<1>11. \A j, l \in 1..(n_entry + 1) : q[j] = q[l] => j = l
  <2> SUFFICES ASSUME NEW j \in 1..(n_entry + 1), NEW l \in 1..(n_entry + 1), q[j] = q[l]
               PROVE  j = l
    OBVIOUS
  <2>1. CASE j = 1 \/ l = 1
    BY <1>2, <1>5, <1>7, <2>1
  <2>2. CASE j # 1 /\ l # 1
    <3>1. j \in 2..(n_entry + 1) /\ l \in 2..(n_entry + 1)
      BY <1>2, <2>2
    <3>2. p[j - 1] = p[l - 1] /\ j - 1 \in 1..n_entry /\ l - 1 \in 1..n_entry
      BY <1>7, <3>1
    <3>3. j - 1 = l - 1
      BY <3>2 DEF Along
    <3> QED BY <1>2, <3>3
  <2> QED BY <2>1, <2>2
<1>12. live' = {q[j] : j \in 1..(n_entry + 1)}
  <2>1. live = {p[j] : j \in 1..n_entry}
    BY DEF Along
  <2>2. \A j \in 1..n_entry : j + 1 \in 1..(n_entry + 1)
    BY <1>2
  <2>3. \A j \in 1..(n_entry + 1) : q[j] = tmp \/ q[j] \in live
    <3> TAKE j \in 1..(n_entry + 1)
    <3>1. CASE j = 1
      BY <1>5, <3>1
    <3>2. CASE j # 1
      <4>1. j \in 2..(n_entry + 1)
        BY <1>2, <3>2
      <4> QED BY <1>2, <1>7, <4>1
    <3> QED BY <3>1, <3>2
  <2>4. 1 \in 1..(n_entry + 1)
    BY <1>2
  <2> QED BY <1>1, <1>5, <1>6, <2>1, <2>2, <2>3, <2>4
<1>13. \A j \in 1..(n_entry + 1) :
          /\ next'[q[j]] = IF j = n_entry + 1 THEN NULL ELSE q[j + 1]
          /\ prev'[q[j]] = IF j = 1 THEN NULL ELSE q[j - 1]
          /\ stamp'[q[j]] \in Nat
  <2> TAKE j \in 1..(n_entry + 1)
  <2>1. CASE j = 1
    <3>1. next'[q[1]] = head /\ prev'[q[1]] = NULL /\ stamp'[q[1]] = t
      BY <1>1, <1>5, <1>9, <1>10
    <3>2. head = IF 1 = n_entry + 1 THEN NULL ELSE q[2]
      <4>1. n_entry # 0 => q[2] = p[1]
        BY <1>2, <1>6
      <4> QED BY <1>2, <1>8, <4>1
    <3> QED BY <2>1, <3>1, <3>2
  <2>2. CASE j # 1
    <3>1. q[j] = p[j - 1] /\ j - 1 \in 1..n_entry
      BY <1>2, <1>7, <2>2
    <3>2. next[p[j - 1]] = IF j - 1 = n_entry THEN NULL ELSE p[j]
      BY <1>2, <3>1 DEF Along
    <3>3. j # n_entry + 1 => q[j + 1] = p[j]
      BY <1>2, <1>6, <2>2
    <3>4. next'[q[j]] = next[p[j - 1]] /\ stamp'[q[j]] = stamp[p[j - 1]] /\ stamp[p[j - 1]] \in Nat
      BY <1>2, <1>9, <3>1 DEF Along
    <3>5. next'[q[j]] = IF j = n_entry + 1 THEN NULL ELSE q[j + 1]
      BY <1>2, <3>2, <3>3, <3>4
    <3>6. prev[p[j - 1]] = IF j - 1 = 1 THEN NULL ELSE p[j - 2]
      BY <1>2, <3>1 DEF Along
    <3>7. prev'[q[j]] = q[j - 1]
      <4>1. CASE j = 2
        BY <1>5, <1>10, <3>1, <4>1
      <4>2. CASE j # 2
        <5>1. j - 1 # 1 /\ j - 2 \in 1..n_entry /\ (j - 2) + 1 = j - 1
          BY <1>2, <3>1, <4>2
        <5>2. q[j - 1] = p[j - 2]
          BY <1>6, <5>1
        <5> QED BY <1>10, <3>1, <3>6, <5>1, <5>2
      <4> QED BY <4>1, <4>2
    <3> QED BY <2>2, <3>4, <3>5, <3>7
  <2> QED BY <2>1, <2>2
<1>14. tail' = q[n_entry + 1]
  <2>1. CASE n_entry = 0
    BY <1>1, <1>5, <2>1
  <2>2. CASE n_entry # 0
    <3>1. tail' = tail /\ tail = p[n_entry] /\ n_entry \in 1..n_entry
      BY <1>1, <1>2, <2>2 DEF Along
    <3> QED BY <1>6, <3>1
  <2> QED BY <2>1, <2>2
<1>15. Along(q)'
  <2>1. n_entry' = n_entry + 1 /\ n_entry + 1 # 0 /\ head' = q[1]
    BY <1>1, <1>2, <1>5
  <2> QED BY <2>1, <1>5, <1>11, <1>12, <1>13, <1>14 DEF Along
<1>16. CellsInv'
  <2>1. ~ active[s]
    BY DEF EnqueueNode
  <2>2. \A r \in Slot : /\ lru_ptr'[r] = IF r = s THEN tmp ELSE lru_ptr[r]
                        /\ r = s => active'[r]
                        /\ r # s => active'[r] = active[r]
    BY <1>1, <1>3
  <2>3. \A n \in live : n \in Node /\ n # tmp /\ client_hash[n] # s
    BY <1>1, <2>1 DEF CellsInv, Along
  <2>4. ASSUME NEW r \in Slot
        PROVE  IF active'[r] THEN lru_ptr'[r] \in live' /\ client_hash'[lru_ptr'[r]] = r
                             ELSE lru_ptr'[r] = NULL
    <3>1. CASE r = s
      <4>1. client_hash'[tmp] = s /\ tmp \in live'
        BY <1>1, <1>9
      <4>2. active'[r] /\ lru_ptr'[r] = tmp
        BY <2>2, <3>1
      <4> QED BY <3>1, <4>1, <4>2, Zenon
    <3>2. CASE r # s
      <4>1. active'[r] = active[r] /\ lru_ptr'[r] = lru_ptr[r]
        BY <2>2, <3>2
      <4>2. CASE active[r]
        <5>1. lru_ptr[r] \in live /\ client_hash[lru_ptr[r]] = r
          BY <4>2 DEF CellsInv
        <5> QED BY <1>1, <1>9, <2>3, <4>1, <4>2, <5>1
      <4>3. CASE ~ active[r]
        BY <4>1, <4>3 DEF CellsInv
      <4> QED BY <4>2, <4>3
    <3> QED BY <3>1, <3>2
  <2>5. ASSUME NEW n \in live'
        PROVE  client_hash'[n] \in Slot /\ active'[client_hash'[n]] /\ lru_ptr'[client_hash'[n]] = n
    <3>1. CASE n = tmp
      <4>1. client_hash'[n] = s
        BY <1>9, <3>1
      <4>2. active'[s] /\ lru_ptr'[s] = tmp
        BY <2>2
      <4> QED BY <3>1, <4>1, <4>2, Zenon
    <3>2. CASE n # tmp
      <4>1. n \in live
        BY <1>1, <3>2
      <4>2. client_hash'[n] = client_hash[n] /\ client_hash[n] # s
        BY <1>9, <2>3, <4>1
      <4>3. client_hash[n] \in Slot /\ active[client_hash[n]] /\ lru_ptr[client_hash[n]] = n
        BY <4>1 DEF CellsInv
      <4> QED BY <2>2, <4>2, <4>3
    <3> QED BY <3>1, <3>2
  <2> QED BY <2>4, <2>5 DEF CellsInv
<1>17. TypeInv'
  <2>1. clock' = clock /\ pc' \in {"prune", "oldest"}
    BY DEF EnqueueNode, Begin
  <2>2. head \in Node \cup {NULL}
    BY <1>2, <1>8
  <2>3. prev' \in [Node -> Node \cup {NULL}] /\ next' \in [Node -> Node \cup {NULL}]
    BY <1>1, <1>3, <2>2
  <2>4. stamp' \in [Node -> Int] /\ client_hash' \in [Node -> Slot \cup {NULL}]
    BY <1>1, <1>3
  <2>5. active' \in [Slot -> BOOLEAN] /\ lru_ptr' \in [Slot -> Node \cup {NULL}]
    BY <1>1, <1>3
  <2> QED BY <1>1, <1>2, <2>1, <2>3, <2>4, <2>5 DEF TypeInv
<1>18. \A j \in 1..n_entry : client_hash'[p[j]] = client_hash[p[j]] /\ stamp'[p[j]] = stamp[p[j]]
  BY <1>2, <1>9
<1> QED BY <1>1, <1>5, <1>6, <1>9, <1>15, <1>16, <1>17, <1>18

(* A node moved before the head, from position m.                          *)
LEMMA RelinkPath ==
    ASSUME TypeInv, CellsInv, NEW p, Along(p), NEW s \in Slot, NEW t \in Nat, NEW k \in Setting,
           Relink(s, t, k)
    PROVE  /\ \E m \in 2..n_entry : \E q :
                 /\ Along(q)' /\ n_entry' = n_entry /\ p[m] = lru_ptr[s]
                 /\ q = [j \in 1..n_entry |->
                           IF j = 1 THEN p[m] ELSE IF j <= m THEN p[j - 1] ELSE p[j]]
                 /\ client_hash[p[m]] = s /\ stamp'[p[m]] = t /\ head' = p[m]
                 /\ \A j \in 1..n_entry : j # m => stamp'[p[j]] = stamp[p[j]]
           /\ CellsInv' /\ TypeInv' /\ client_hash' = client_hash /\ active[s]
<1> DEFINE me == lru_ptr[s]
           before == prev[me]
           after == next[me]
           n == n_entry
<1>1. /\ active[s] /\ me # head
      /\ next' = [next EXCEPT ![before] = after, ![me] = head]
      /\ prev' = [(IF after # NULL THEN [prev EXCEPT ![after] = before] ELSE prev)
                    EXCEPT ![me] = NULL, ![head] = me]
      /\ tail' = IF me = tail THEN before ELSE tail
      /\ head' = me
      /\ stamp' = [stamp EXCEPT ![me] = t]
      /\ UNCHANGED <<live, client_hash, n_entry, active, lru_ptr, clock>>
      /\ pc' \in {"prune", "oldest"}
  BY DEF Relink, Begin, table
<1>2. /\ prev \in [Node -> Node \cup {NULL}] /\ next \in [Node -> Node \cup {NULL}]
      /\ stamp \in [Node -> Int] /\ n \in Nat
  BY DEF TypeInv
<1>3. /\ \A j \in 1..n : p[j] \in Node /\ p[j] # NULL
      /\ p \in [1..n -> Node] /\ \A j, l \in 1..n : p[j] = p[l] => j = l
  BY PathFacts DEF Along
<1>4. PICK m \in 1..n : p[m] = me
  BY <1>1, PathFacts
<1>5. head = p[1] /\ tail = p[n] /\ 1 \in 1..n /\ n \in 1..n
  BY <1>2, <1>4 DEF Along
<1>6. m \in 2..n
  BY <1>1, <1>2, <1>4, <1>5
<1>7. before = p[m - 1] /\ m - 1 \in 1..n /\ after = IF m = n THEN NULL ELSE p[m + 1]
  BY <1>2, <1>4, <1>6 DEF Along
<1>8. /\ \A j \in 1..n : next[p[j]] = IF j = n THEN NULL ELSE p[j + 1]
      /\ \A j \in 1..n : prev[p[j]] = IF j = 1 THEN NULL ELSE p[j - 1]
      /\ \A j \in 1..n : stamp[p[j]] \in Nat
      /\ live = {p[j] : j \in 1..n}
  BY DEF Along
<1> HIDE DEF before, after, me, n
<1>9. PICK q : q = [j \in 1..n |-> IF j = 1 THEN p[m] ELSE IF j <= m THEN p[j - 1] ELSE p[j]]
  OBVIOUS
<1>10. /\ q[1] = p[m]
       /\ \A j \in 2..m : q[j] = p[j - 1] /\ j - 1 \in 1..(m - 1) /\ j - 1 \in 1..n
       /\ \A j \in (m + 1)..n : q[j] = p[j] /\ j \in 1..n
  BY <1>2, <1>5, <1>6, <1>9
<1>11. q \in [1..n -> Node]
  <2>1. \A j \in 1..n : (IF j = 1 THEN p[m] ELSE IF j <= m THEN p[j - 1] ELSE p[j]) \in Node
    BY <1>2, <1>3, <1>6
  <2> QED BY <1>9, <2>1
<1>12. \A j \in 1..n : j = 1 \/ j \in 2..m \/ j \in (m + 1)..n
  BY <1>2, <1>6
<1>13. \A j, l \in 1..n : q[j] = q[l] => j = l
  <2> SUFFICES ASSUME NEW j \in 1..n, NEW l \in 1..n, q[j] = q[l] PROVE j = l
    OBVIOUS
  <2> DEFINE from(x) == IF x = 1 THEN m ELSE IF x <= m THEN x - 1 ELSE x
  <2>1. q[j] = p[from(j)] /\ q[l] = p[from(l)] /\ from(j) \in 1..n /\ from(l) \in 1..n
    BY <1>2, <1>6, <1>9
  <2>2. from(j) = from(l)
    BY <1>3, <2>1
  <2> QED BY <1>2, <1>6, <2>2
<1>14. live = {q[j] : j \in 1..n}
  <2>1. \A j \in 1..n : \E l \in 1..n : q[j] = p[l]
    BY <1>4, <1>10, <1>12
  <2>2. ASSUME NEW j \in 1..n PROVE \E l \in 1..n : p[j] = q[l]
    <3>1. CASE j = m
      BY <1>5, <1>10, <3>1
    <3>2. CASE j > m
      <4>1. j \in (m + 1)..n
        BY <1>2, <1>6, <3>2
      <4> QED BY <1>10, <4>1
    <3>3. CASE j < m
      <4>1. j + 1 \in 2..m /\ j + 1 \in 1..n /\ (j + 1) - 1 = j
        BY <1>2, <1>6, <3>3
      <4> QED BY <1>10, <4>1
    <3> QED BY <1>2, <1>6, <3>1, <3>2, <3>3
  <2>3. \A x : x \in live <=> \E l \in 1..n : x = p[l]
    BY DEF Along, n
  <2>4. \A x : x \in live <=> \E l \in 1..n : x = q[l]
    <3>1. ASSUME NEW x \in live PROVE \E l \in 1..n : x = q[l]
      BY <2>2, <2>3
    <3>2. ASSUME NEW x, NEW l \in 1..n, x = q[l] PROVE x \in live
      BY <2>1, <2>3, <3>2
    <3> QED BY <3>1, <3>2
  <2> QED BY ONLY <2>4
<1>15. \A x \in Node : /\ next'[x] = IF x = p[m] THEN p[1] ELSE IF x = p[m - 1] THEN after ELSE next[x]
                       /\ stamp'[x] = IF x = p[m] THEN t ELSE stamp[x]
  BY <1>1, <1>2, <1>4, <1>5, <1>7
<1>16. \A x \in Node : prev'[x] = IF x = p[1] THEN p[m] ELSE IF x = p[m] THEN NULL
                                  ELSE IF m # n /\ x = p[m + 1] THEN p[m - 1] ELSE prev[x]
  <2>1. CASE m = n
    <3>1. prev' = [prev EXCEPT ![p[m]] = NULL, ![p[1]] = p[m]]
      BY <1>1, <1>4, <1>5, <1>7, <2>1
    <3> QED BY <1>2, <2>1, <3>1
  <2>2. CASE m # n
    <3>1. m + 1 \in 1..n
      BY <1>2, <1>6, <2>2
    <3>2. after = p[m + 1] /\ after # NULL
      BY <1>3, <1>7, <2>2, <3>1
    <3>3. prev' = [[prev EXCEPT ![p[m + 1]] = p[m - 1]] EXCEPT ![p[m]] = NULL, ![p[1]] = p[m]]
      BY <1>1, <1>4, <1>5, <1>7, <3>2
    <3> QED BY <1>2, <2>2, <3>3
  <2> QED BY <2>1, <2>2
<1>17. \A j \in 1..n : j # m => p[j] # p[m]
  BY <1>3
<1>18. \A j \in 1..n : next'[q[j]] = IF j = n THEN NULL ELSE q[j + 1]
  <2> TAKE j \in 1..n
  <2>1. CASE j = 1
    <3>1. next'[q[j]] = p[1] /\ 2 \in 2..m /\ q[2] = p[1] /\ j # n
      BY <1>2, <1>3, <1>6, <1>10, <1>15, <2>1
    <3> QED BY <2>1, <3>1
  <2>2. CASE j \in 2..m
    <3>1. q[j] = p[j - 1] /\ j - 1 \in 1..n /\ p[j - 1] # p[m]
      BY <1>2, <1>6, <1>10, <1>17, <2>2
    <3>2. CASE j = m
      <4>1. next'[q[j]] = after
        BY <1>3, <1>15, <3>1, <3>2
      <4>2. m # n => m + 1 \in (m + 1)..n /\ q[m + 1] = p[m + 1]
        BY <1>2, <1>6, <1>10
      <4> QED BY <1>7, <3>2, <4>1, <4>2
    <3>3. CASE j # m
      <4>1. p[j - 1] # p[m - 1]
        BY <1>2, <1>3, <1>6, <1>7, <3>1, <3>3
      <4>2. next'[q[j]] = next[p[j - 1]]
        BY <1>3, <1>15, <3>1, <4>1
      <4>3. next[p[j - 1]] = p[j]
        BY <1>2, <1>6, <1>8, <2>2, <3>1
      <4>4. j + 1 \in 2..m /\ (j + 1) - 1 = j /\ j # n
        BY <1>2, <1>6, <2>2, <3>3
      <4>5. q[j + 1] = p[j]
        BY <1>10, <4>4
      <4> QED BY <4>2, <4>3, <4>4, <4>5
    <3> QED BY <3>2, <3>3
  <2>3. CASE j \in (m + 1)..n
    <3>1. q[j] = p[j] /\ p[j] # p[m] /\ p[j] # p[m - 1]
      BY <1>2, <1>3, <1>6, <1>7, <1>10, <2>3, SMTT(60)
    <3>2. next'[q[j]] = IF j = n THEN NULL ELSE p[j + 1]
      BY <1>3, <1>8, <1>15, <3>1, SMTT(60)
    <3>3. j # n => j + 1 \in (m + 1)..n
      BY <1>2, <1>6, <2>3
    <3> QED BY <1>10, <3>2, <3>3
  <2> QED BY <1>12, <2>1, <2>2, <2>3
<1>19. \A j \in 1..n : prev'[q[j]] = IF j = 1 THEN NULL ELSE q[j - 1]
  <2> TAKE j \in 1..n
  <2>1. CASE j = 1
    <3>1. p[m] # p[1]
      BY <1>3, <1>5, <1>6
    <3> QED BY <1>3, <1>10, <1>16, <2>1, <3>1
  <2>2. CASE j \in 2..m
    <3>1. q[j] = p[j - 1] /\ j - 1 \in 1..n /\ p[j - 1] # p[m]
      BY <1>2, <1>6, <1>10, <1>17, <2>2
    <3>2. CASE j = 2
      BY <1>3, <1>10, <1>16, <3>1, <3>2
    <3>3. CASE j # 2
      <4>1. p[j - 1] # p[1]
        BY <1>2, <1>3, <1>5, <2>2, <3>1, <3>3
      <4>2. m # n => p[j - 1] # p[m + 1]
        <5>1. m # n => m + 1 \in 1..n /\ m + 1 # j - 1
          BY <1>2, <1>6, <2>2
        <5> QED BY <1>3, <3>1, <5>1
      <4>3. prev'[q[j]] = prev[p[j - 1]]
        BY <1>3, <1>16, <3>1, <4>1, <4>2
      <4>4. prev[p[j - 1]] = p[j - 2]
        BY <1>2, <1>6, <1>8, <2>2, <3>1, <3>3
      <4>5. j - 1 \in 2..m /\ (j - 1) - 1 = j - 2 /\ j # 1
        BY <1>2, <1>6, <2>2, <3>3
      <4>6. q[j - 1] = p[j - 2]
        BY <1>10, <4>5
      <4> QED BY <4>3, <4>4, <4>5, <4>6
    <3> QED BY <3>2, <3>3
  <2>3. CASE j \in (m + 1)..n
    <3>1. q[j] = p[j] /\ p[j] # p[m] /\ p[j] # p[1]
      BY <1>2, <1>3, <1>5, <1>6, <1>10, <2>3
    <3>2. CASE j = m + 1
      <4>1. m # n /\ prev'[q[j]] = p[m - 1]
        BY <1>2, <1>3, <1>6, <1>16, <3>1, <3>2
      <4>2. q[m] = p[m - 1] /\ j - 1 = m /\ j # 1
        BY <1>2, <1>6, <1>10, <3>2
      <4> QED BY <4>1, <4>2
    <3>3. CASE j # m + 1
      <4>1. m # n => p[j] # p[m + 1]
        <5>1. m # n => m + 1 \in 1..n
          BY <1>2, <1>6
        <5> QED BY <1>3, <3>3, <5>1
      <4>2. prev'[q[j]] = p[j - 1]
        BY <1>2, <1>3, <1>6, <1>8, <1>16, <2>3, <3>1, <4>1
      <4>3. j - 1 \in (m + 1)..n /\ j # 1
        BY <1>2, <1>6, <2>3, <3>3
      <4> QED BY <1>10, <4>2, <4>3
    <3> QED BY <3>2, <3>3
  <2> QED BY <1>12, <2>1, <2>2, <2>3
<1>20. tail' = q[n]
  <2>1. CASE m = n
    <3>1. tail' = p[m - 1] /\ q[m] = p[m - 1]
      BY <1>1, <1>4, <1>5, <1>6, <1>7, <1>10, <2>1
    <3> QED BY <2>1, <3>1
  <2>2. CASE m # n
    <3>1. p[m] # p[n] /\ n \in (m + 1)..n
      BY <1>2, <1>3, <1>5, <1>6, <2>2
    <3> QED BY <1>1, <1>4, <1>5, <1>10, <3>1
  <2> QED BY <2>1, <2>2
<1>21. \A j \in 1..n : stamp'[q[j]] \in Nat
  <2> TAKE j \in 1..n
  <2>1. PICK l \in 1..n : q[j] = p[l]
    BY <1>4, <1>10, <1>12
  <2> QED BY <1>3, <1>8, <1>15, <2>1
<1>22. Along(q)'
  <2>1. n_entry' = n /\ n # 0 /\ live' = live /\ head' = q[1]
    BY <1>1, <1>2, <1>4, <1>6, <1>10 DEF n
  <2> QED BY <2>1, <1>11, <1>13, <1>14, <1>18, <1>19, <1>20, <1>21 DEF Along
<1>23. CellsInv'
  BY <1>1 DEF CellsInv
<1>24. TypeInv'
  <2>1. p[m] \in Node /\ p[1] \in Node /\ p[m - 1] \in Node /\ after \in Node \cup {NULL}
    <3>1. m # n => m + 1 \in 1..n
      BY <1>2, <1>6
    <3> QED BY <1>3, <1>4, <1>5, <1>7, <3>1
  <2>2. next' \in [Node -> Node \cup {NULL}] /\ stamp' \in [Node -> Int]
    BY <1>1, <1>2, <1>4, <1>5, <1>7, <2>1
  <2>3. prev' \in [Node -> Node \cup {NULL}]
    <3>1. CASE after = NULL
      BY <1>1, <1>2, <1>4, <1>5, <2>1, <3>1
    <3>2. CASE after # NULL
      BY <1>1, <1>2, <1>4, <1>5, <1>7, <2>1, <3>2
    <3> QED BY <3>1, <3>2
  <2> QED BY <1>1, <2>2, <2>3 DEF TypeInv
<1>25. client_hash[p[m]] = s
  BY <1>1, <1>4 DEF CellsInv, me
<1>26. stamp'[p[m]] = t /\ \A j \in 1..n : j # m => stamp'[p[j]] = stamp[p[j]]
  BY <1>3, <1>4, <1>15, <1>17
<1> QED BY <1>1, <1>4, <1>6, <1>9, <1>22, <1>23, <1>24, <1>25, <1>26 DEF me, n

(* A head stamped again.                                                   *)
LEMMA RestampPath ==
    ASSUME TypeInv, CellsInv, NEW p, Along(p), NEW s \in Slot, NEW t \in Nat, NEW k \in Setting,
           Restamp(s, t, k)
    PROVE  /\ Along(p)' /\ n_entry' = n_entry /\ n_entry >= 1 /\ p[1] = lru_ptr[s]
           /\ client_hash[p[1]] = s /\ stamp'[p[1]] = t /\ head' = p[1]
           /\ \A j \in 1..n_entry : j # 1 => stamp'[p[j]] = stamp[p[j]]
           /\ CellsInv' /\ TypeInv' /\ client_hash' = client_hash /\ active[s]
<1>1. /\ active[s] /\ lru_ptr[s] = head /\ stamp' = [stamp EXCEPT ![head] = t]
      /\ UNCHANGED <<live, prev, next, client_hash, head, tail, n_entry, active, lru_ptr, clock>>
      /\ pc' \in {"prune", "oldest"}
  BY DEF Restamp, Begin, table
<1>2. n_entry \in Nat /\ stamp \in [Node -> Int]
  BY DEF TypeInv
<1>3. PICK m \in 1..n_entry : p[m] = head
  BY <1>1, PathFacts
<1>4. 1 \in 1..n_entry /\ head = p[1] /\ p[1] \in Node
  BY <1>2, <1>3, PathFacts DEF Along
<1>5. \A x \in Node : stamp'[x] = IF x = p[1] THEN t ELSE stamp[x]
  BY <1>1, <1>2, <1>4
<1>6. \A j \in 1..n_entry : p[j] \in Node /\ (j # 1 => p[j] # p[1]) /\ stamp[p[j]] \in Nat
  BY <1>4 DEF Along
<1>7. \A j \in 1..n_entry : stamp'[p[j]] \in Nat
  BY <1>5, <1>6
<1>8. Along(p)'
  BY <1>1, <1>7 DEF Along
<1>9. CellsInv' /\ TypeInv'
  <2>1. stamp' \in [Node -> Int]
    BY <1>1, <1>2, <1>4
  <2> QED BY <1>1, <2>1 DEF CellsInv, TypeInv
<1>10. client_hash[p[1]] = s
  BY <1>1, <1>4 DEF CellsInv
<1>11. stamp'[p[1]] = t /\ \A j \in 1..n_entry : j # 1 => stamp'[p[j]] = stamp[p[j]]
  BY <1>4, <1>5, <1>6
<1> QED BY <1>1, <1>2, <1>4, <1>8, <1>9, <1>10, <1>11

(* What freeing the tail does to the cells.                                *)
LEMMA FreeCells ==
    ASSUME TypeInv, CellsInv, NEW p, Along(p), n_entry > 0, Free(tail),
           next' \in [Node -> Node \cup {NULL}], pc' \in {"idle", "prune", "walk", "oldest"}
    PROVE  /\ CellsInv' /\ TypeInv' /\ tail = p[n_entry] /\ live' = live \ {tail}
           /\ n_entry' = n_entry - 1
           /\ \A j \in 1..(n_entry - 1) : /\ p[j] # tail /\ prev'[p[j]] = prev[p[j]]
                                          /\ stamp'[p[j]] = stamp[p[j]]
                                          /\ client_hash'[p[j]] = client_hash[p[j]]
<1> DEFINE s == client_hash[tail]
<1>1. /\ live' = live \ {tail}
      /\ prev' = [prev EXCEPT ![tail] = NULL]
      /\ stamp' = [stamp EXCEPT ![tail] = Never]
      /\ client_hash' = [client_hash EXCEPT ![tail] = NULL]
      /\ active' = [active EXCEPT ![s] = FALSE]
      /\ lru_ptr' = [lru_ptr EXCEPT ![s] = NULL]
      /\ n_entry' = n_entry - 1 /\ clock' = clock
  BY DEF Free
<1>2. /\ prev \in [Node -> Node \cup {NULL}] /\ next \in [Node -> Node \cup {NULL}]
      /\ stamp \in [Node -> Int] /\ client_hash \in [Node -> Slot \cup {NULL}]
      /\ active \in [Slot -> BOOLEAN] /\ lru_ptr \in [Slot -> Node \cup {NULL}]
      /\ n_entry \in Nat /\ clock \in Nat
  BY DEF TypeInv
<1>3. n_entry \in 1..n_entry /\ tail = p[n_entry] /\ tail \in Node /\ tail \in live
  BY <1>2, PathFacts DEF Along
<1>4. s \in Slot /\ active[s] /\ lru_ptr[s] = tail
  BY <1>3 DEF CellsInv
<1> HIDE DEF s
<1>5. \A x \in Node : x # tail => /\ prev'[x] = prev[x] /\ stamp'[x] = stamp[x]
                                 /\ client_hash'[x] = client_hash[x]
  BY <1>1, <1>2
<1>6. \A r \in Slot : /\ r = s => lru_ptr'[r] = NULL /\ ~ active'[r]
                      /\ r # s => lru_ptr'[r] = lru_ptr[r] /\ active'[r] = active[r]
  BY <1>1, <1>2
<1>7. \A n \in live : n \in Node /\ (n # tail => client_hash[n] # s)
  BY <1>4 DEF CellsInv, Along
<1>8. ASSUME NEW r \in Slot
      PROVE  IF active'[r] THEN lru_ptr'[r] \in live' /\ client_hash'[lru_ptr'[r]] = r
                           ELSE lru_ptr'[r] = NULL
  <2>1. CASE r = s
    BY <1>6, <2>1, Zenon
  <2>2. CASE r # s
    <3>1. active'[r] = active[r] /\ lru_ptr'[r] = lru_ptr[r]
      BY <1>6, <2>2
    <3>2. CASE active[r]
      <4>1. lru_ptr[r] \in live /\ client_hash[lru_ptr[r]] = r
        BY <3>2 DEF CellsInv
      <4>2. lru_ptr[r] # tail
        BY <2>2, <4>1 DEF s
      <4>3. lru_ptr[r] \in live' /\ client_hash'[lru_ptr[r]] = r
        BY <1>1, <1>5, <1>7, <4>1, <4>2
      <4> QED BY <3>1, <3>2, <4>3, Zenon
    <3>3. CASE ~ active[r]
      BY <3>1, <3>3 DEF CellsInv
    <3> QED BY <3>2, <3>3
  <2> QED BY <2>1, <2>2
<1>9. ASSUME NEW n \in live'
      PROVE  client_hash'[n] \in Slot /\ active'[client_hash'[n]] /\ lru_ptr'[client_hash'[n]] = n
  <2>1. n \in live /\ n # tail
    BY <1>1
  <2>2. client_hash'[n] = client_hash[n] /\ client_hash[n] # s
    BY <1>5, <1>7, <2>1
  <2>3. client_hash[n] \in Slot /\ active[client_hash[n]] /\ lru_ptr[client_hash[n]] = n
    BY <2>1 DEF CellsInv
  <2> QED BY <1>6, <2>2, <2>3
<1>10. CellsInv'
  BY <1>8, <1>9 DEF CellsInv
<1>11. TypeInv'
  <2>1. prev' \in [Node -> Node \cup {NULL}] /\ client_hash' \in [Node -> Slot \cup {NULL}]
    BY <1>1, <1>2
  <2>2. stamp' \in [Node -> Int]
    <3>1. Never \in Int
      BY DEF Never
    <3> QED BY <1>1, <1>2, <3>1
  <2>3. active' \in [Slot -> BOOLEAN] /\ lru_ptr' \in [Slot -> Node \cup {NULL}]
    BY <1>1, <1>2
  <2>4. n_entry' \in Nat
    BY <1>1, <1>2
  <2> QED BY <1>1, <1>2, <2>1, <2>2, <2>3, <2>4 DEF TypeInv
<1>12. \A j \in 1..(n_entry - 1) : p[j] # tail /\ p[j] \in Node
  <2> TAKE j \in 1..(n_entry - 1)
  <2>1. j \in 1..n_entry /\ j # n_entry
    BY <1>2
  <2> QED BY <1>3, <2>1 DEF Along
<1> QED BY <1>1, <1>3, <1>5, <1>10, <1>11, <1>12

(* The tail freed, with a node before it.                                  *)
LEMMA PruneTailPath ==
    ASSUME TypeInv, CellsInv, CallInv, NEW p, Along(p), PruneTail
    PROVE  /\ \E q : /\ Along(q)' /\ n_entry' = n_entry - 1 /\ n_entry >= 2
                     /\ \A j \in 1..(n_entry - 1) : /\ q[j] = p[j]
                                                    /\ stamp'[p[j]] = stamp[p[j]]
                                                    /\ client_hash'[p[j]] = client_hash[p[j]]
           /\ CellsInv' /\ TypeInv'
           /\ UNCHANGED <<clock, lastAsk, head, pc, call>> /\ stamp'[head] = stamp[head]
<1> DEFINE n == n_entry
<1>1. /\ StaleTail /\ tail # head /\ Free(tail)
      /\ next' = [next EXCEPT ![prev[tail]] = NULL, ![tail] = NULL]
      /\ tail' = prev[tail] /\ UNCHANGED <<head, pc, call, clock, lastAsk>>
  BY DEF PruneTail, Free
<1>2. /\ n \in Nat /\ next \in [Node -> Node \cup {NULL}] /\ pc \in {"idle", "prune", "walk", "oldest"}
  BY DEF TypeInv
<1>3. n > 0
  BY <1>1 DEF StaleTail, CallInv
<1>4. head = p[1] /\ tail = p[n]
  BY <1>2, <1>3 DEF Along
<1>5. n >= 2 /\ n - 1 \in 1..n /\ n \in 1..n /\ 1 \in 1..n
  BY <1>1, <1>2, <1>3, <1>4
<1>6. prev[tail] = p[n - 1]
  BY <1>4, <1>5 DEF Along
<1>7. next' \in [Node -> Node \cup {NULL}]
  BY <1>1, <1>2
<1>8. /\ CellsInv' /\ TypeInv' /\ live' = live \ {tail} /\ n_entry' = n - 1
      /\ \A j \in 1..(n - 1) : /\ p[j] # tail /\ prev'[p[j]] = prev[p[j]]
                               /\ stamp'[p[j]] = stamp[p[j]]
                               /\ client_hash'[p[j]] = client_hash[p[j]]
  BY <1>1, <1>2, <1>3, <1>7, FreeCells
<1>9. PICK q : q = [j \in 1..(n - 1) |-> p[j]]
  OBVIOUS
<1> HIDE DEF n
<1>10. \A j \in 1..(n - 1) : q[j] = p[j] /\ j \in 1..n /\ p[j] \in Node
  <2>1. \A j \in 1..(n - 1) : j \in 1..n
    BY <1>2
  <2> QED BY <1>9, <2>1, PathFacts DEF n
<1>11. q \in [1..(n - 1) -> Node]
  BY <1>9, <1>10
<1>12. \A j, l \in 1..(n - 1) : q[j] = q[l] => j = l
  BY <1>10 DEF Along, n
<1>13. live' = {q[j] : j \in 1..(n - 1)}
  <2>1. \A x : x \in live <=> \E j \in 1..n : x = p[j]
    BY DEF Along, n
  <2>2. \A x : x \in live' <=> x \in live /\ x # tail
    BY <1>8
  <2>3. \A j \in 1..n : p[j] # tail => j \in 1..(n - 1)
    BY <1>2, <1>4
  <2>4. \A x : x \in live' <=> \E j \in 1..(n - 1) : x = q[j]
    BY <1>8, <1>10, <2>1, <2>2, <2>3
  <2> QED BY ONLY <2>4
<1>14. \A x \in Node : next'[x] = IF x = p[n] \/ x = p[n - 1] THEN NULL ELSE next[x]
  BY <1>1, <1>2, <1>4, <1>6
<1>15. \A j \in 1..(n - 1) : /\ next'[q[j]] = IF j = n - 1 THEN NULL ELSE q[j + 1]
                             /\ prev'[q[j]] = IF j = 1 THEN NULL ELSE q[j - 1]
                             /\ stamp'[q[j]] \in Nat
  <2> TAKE j \in 1..(n - 1)
  <2>1. q[j] = p[j] /\ j \in 1..n /\ p[j] \in Node /\ p[j] # p[n] /\ j # n
    BY <1>2, <1>4, <1>8, <1>10
  <2>2. /\ next[p[j]] = p[j + 1] /\ prev[p[j]] = IF j = 1 THEN NULL ELSE p[j - 1]
        /\ stamp[p[j]] \in Nat
    BY <2>1 DEF Along, n
  <2>3. j # n - 1 => p[j] # p[n - 1] /\ q[j + 1] = p[j + 1]
    <3>1. j # n - 1 => j + 1 \in 1..(n - 1)
      BY <1>2
    <3> QED BY <1>5, <1>10, <2>1, <3>1 DEF Along, n
  <2>4. j # 1 => q[j - 1] = p[j - 1]
    <3>1. j # 1 => j - 1 \in 1..(n - 1)
      BY <1>2
    <3> QED BY <1>10, <3>1
  <2>5. next'[q[j]] = IF j = n - 1 THEN NULL ELSE q[j + 1]
    BY <1>14, <2>1, <2>2, <2>3
  <2>6. prev'[q[j]] = IF j = 1 THEN NULL ELSE q[j - 1]
    BY <1>8, <2>1, <2>2, <2>4
  <2>7. stamp'[q[j]] \in Nat
    BY <1>8, <2>1, <2>2
  <2> QED BY <2>5, <2>6, <2>7
<1>16. /\ n - 1 # 0 /\ 1 \in 1..(n - 1) /\ n - 1 \in 1..(n - 1)
  BY <1>2, <1>5
<1>17. head' = q[1] /\ tail' = q[n - 1]
  BY <1>1, <1>4, <1>6, <1>10, <1>16
<1>18. Along(q)'
  BY <1>8, <1>11, <1>12, <1>13, <1>15, <1>16, <1>17 DEF Along
<1>19. stamp'[head] = stamp[head]
  BY <1>4, <1>8, <1>16
<1> QED BY <1>1, <1>5, <1>8, <1>10, <1>18, <1>19 DEF n

(* The last node freed.                                                    *)
LEMMA PruneLastPath ==
    ASSUME TypeInv, CellsInv, CallInv, NEW p, Along(p), PruneLast
    PROVE  /\ \E q : Along(q)'
           /\ n_entry = 1 /\ n_entry' = 0 /\ CellsInv' /\ TypeInv'
           /\ pc = "walk" /\ pc' = "idle" /\ UNCHANGED <<clock, lastAsk>>
<1>1. /\ StaleTail /\ tail = head /\ Free(tail)
      /\ next' = [next EXCEPT ![tail] = NULL] /\ head' = NULL /\ tail' = NULL
      /\ pc \in {"prune", "walk"} /\ UNCHANGED <<clock, lastAsk>>
  BY DEF PruneLast, StaleTail, Free
<1>2. /\ n_entry \in Nat /\ next \in [Node -> Node \cup {NULL}]
  BY DEF TypeInv
<1>3. n_entry > 0 /\ call \in [now : Nat, k : Setting] /\ (pc = "prune" => stamp[head] = call.now)
  BY <1>1 DEF CallInv
<1>4. head = p[1] /\ tail = p[n_entry] /\ 1 \in 1..n_entry /\ n_entry \in 1..n_entry
  BY <1>2, <1>3 DEF Along
<1>5. n_entry = 1
  BY <1>1, <1>4 DEF Along
<1>6. call.now \in Nat /\ call.k.delta \in Nat
  BY <1>3, QueueAssumption
<1>7. pc # "prune"
  BY <1>1, <1>3, <1>6 DEF StaleTail
<1>8. pc = "walk" /\ pc' = "idle"
  BY <1>1, <1>7 DEF PruneLast, Return, Goto
<1>9. next' \in [Node -> Node \cup {NULL}]
  BY <1>1, <1>2
<1>10. CellsInv' /\ TypeInv' /\ live' = live \ {tail} /\ n_entry' = 0
  <2>1. n_entry - 1 = 0
    BY <1>5
  <2> QED BY <1>1, <1>3, <1>8, <1>9, <2>1, FreeCells
<1>11. live' = {}
  <2>1. \A x \in live : x = tail
    BY <1>4, <1>5 DEF Along
  <2> QED BY <1>10, <2>1
<1>12. PICK q : q = [j \in 1..0 |-> NULL]
  OBVIOUS
<1>13. 1..0 = {}
  OBVIOUS
<1>14. q \in [1..0 -> Node] /\ {q[j] : j \in 1..0} = {}
  BY <1>12, <1>13
<1>15. Along(q)'
  BY <1>1, <1>10, <1>11, <1>13, <1>14 DEF Along
<1>16. \E r : Along(r)'
  BY ONLY <1>15, Zenon
<1> QED BY ONLY <1>1, <1>5, <1>8, <1>10, <1>16, Zenon

-----------------------------------------------------------------------------
(* The sequence that ClientLru sees.                                       *)

(* What WalkedFacts says of the path p.                                    *)
WalkedAs(p) ==
    /\ QueueOK(Walked) /\ Len(Walked.lru) = n_entry
    /\ \A k \in 1..n_entry :
         Walked.lru[k] = [slot |-> client_hash[p[k]], stamp |-> stamp[p[k]]]
    /\ Walked.active = active /\ Walked.n_entry = n_entry
    /\ \A s \in Slot : active[s] <=> s \in Slots(Walked)

(* The list of the pointers, as the queue of ClientQueue, on any path.     *)
LEMMA WalkedHere == \A p : TypeInv /\ CellsInv /\ Along(p) => WalkedAs(p)
  BY WalkedFacts, SMTT(60) DEF WalkedAs

(* The same of the state a step leads to.                                  *)
LEMMA WalkedNext == \A p : TypeInv' /\ CellsInv' /\ Along(p)' => WalkedAs(p)'
<1>1. (\A p : TypeInv /\ CellsInv /\ Along(p) => WalkedAs(p))'
  BY WalkedHere, PTL
<1> QED BY <1>1

(* ClientLru's operators on queues are those of this module.               *)
LEMMA SameOperators ==
    ASSUME NEW q, NEW s, NEW t, NEW k
    PROVE  /\ Abstract!Prune(q, t, k) = Prune(q, t, k)
           /\ Abstract!ReferencePage(q, s, t, k) = ReferencePage(q, s, t, k)
           /\ Abstract!EmptyQueue = EmptyQueue
<1>1. Abstract!Kept(q, t, k) = Kept(q, t, k)
  BY DEF Abstract!Kept, Kept, Abstract!Stale, Stale, Abstract!Max, Max
<1>2. Abstract!Prune(q, t, k) = Prune(q, t, k)
  BY <1>1 DEF Abstract!Prune, Prune
<1>3. Abstract!Touch(q, s, t) = Touch(q, s, t)
  BY DEF Abstract!Touch, Touch, Abstract!Enqueue, Enqueue, Abstract!MoveToFront, MoveToFront,
         Abstract!Position, Position
<1> DEFINE w == Touch(q, s, t)
<1>4. Abstract!Kept(w, t, k) = Kept(w, t, k)
  BY DEF Abstract!Kept, Kept, Abstract!Stale, Stale, Abstract!Max, Max
<1>5. Abstract!Prune(w, t, k) = Prune(w, t, k)
  BY <1>4 DEF Abstract!Prune, Prune
<1>6. Abstract!ReferencePage(q, s, t, k) = ReferencePage(q, s, t, k)
  BY <1>3, <1>5 DEF Abstract!ReferencePage, ReferencePage, Abstract!Settle, Settle
<1>7. Abstract!EmptyQueue = EmptyQueue
  BY DEF Abstract!EmptyQueue, EmptyQueue
<1> QED BY <1>2, <1>6, <1>7

(* A reference that leaves the list w is referencePage, prune included.    *)
LEMMA CalledQueue ==
    ASSUME NEW w, Walked' = w, NEW s, NEW t, NEW k, Begin(s, t, k),
           w = Touch(Walked, s, t), w.n_entry = n_entry'
    PROVE  Abstract!Reference(s, t, k)
<1>1. /\ pc = "idle" /\ call' = [now |-> t, k |-> k]
      /\ lastAsk' = [lastAsk EXCEPT ![s] = t] /\ clock' = clock
      /\ pc' = IF n_entry' > k.alpha THEN "prune" ELSE "oldest"
  BY DEF Begin
<1>2. queue = Walked
  BY <1>1 DEF queue
<1>3. queue' = IF pc' \in {"prune", "walk"} THEN Prune(w, t, k) ELSE w
  BY <1>1 DEF queue
<1>4. queue' = Settle(w, t, k)
  BY <1>1, <1>3 DEF Settle
<1>5. queue' = ReferencePage(queue, s, t, k)
  BY <1>2, <1>4 DEF ReferencePage
<1> QED BY <1>1, <1>5, SameOperators DEF Abstract!Reference

(* A stamp that a call may bring is one that ClientLru allows.             *)
LEMMA StampsFacts ==
    ASSUME clock \in Nat, NEW t \in Stamps
    PROVE  t \in Nat /\ t \in Abstract!Stamps
BY NodeAssumption DEF Stamps, Abstract!Stamps

(* newlru and Enqueue keep the invariant and are a reference of ClientLru. *)
LEMMA EnqueueStep ==
    ASSUME IInv, NEW s \in Slot, NEW t \in Nat, NEW k \in Setting, EnqueueNode(s, t, k)
    PROVE  IInv' /\ Abstract!Reference(s, t, k)
<1>1. PICK p : Along(p)
  BY DEF IInv
<1>2. PICK tmp, q : /\ Along(q)' /\ n_entry' = n_entry + 1
                    /\ q[1] = tmp /\ client_hash'[tmp] = s /\ stamp'[tmp] = t /\ head' = tmp
                    /\ \A j \in 1..n_entry : /\ q[j + 1] = p[j]
                                             /\ client_hash'[p[j]] = client_hash[p[j]]
                                             /\ stamp'[p[j]] = stamp[p[j]]
  BY <1>1, EnqueuePath DEF IInv
<1>3. CellsInv' /\ TypeInv'
  BY <1>1, EnqueuePath DEF IInv
<1>4. Begin(s, t, k) /\ ~ active[s] /\ n_entry \in Nat
  BY DEF EnqueueNode, IInv, TypeInv
<1>5. CallInv'
  <2>1. call' \in [now : Nat, k : Setting] /\ call'.now = t
    BY <1>4 DEF Begin
  <2> QED BY <1>2, <1>4, <2>1 DEF CallInv
<1>6. WalkedAs(p) /\ WalkedAs(q)'
  BY <1>1, <1>2, <1>3, WalkedHere, WalkedNext DEF IInv
<1>7. QueueOK(Walked) /\ Len(Walked.lru) = n_entry /\ s \notin Slots(Walked)
  BY <1>4, <1>6 DEF WalkedAs
<1>8. /\ QueueOK(Walked') /\ Len(Walked'.lru) = n_entry + 1 /\ Walked'.n_entry = n_entry'
      /\ \A j \in 1..(n_entry + 1) :
           Walked'.lru[j] = [slot |-> client_hash'[q[j]], stamp |-> stamp'[q[j]]]
  BY <1>2, <1>6 DEF WalkedAs
<1>9. Touch(Walked, s, t) = Enqueue(Walked, s, t)
  BY <1>4, <1>6 DEF Touch, WalkedAs
<1>10. PICK w : w = Walked
  OBVIOUS
<1>11. PICK v : v = Walked'
  OBVIOUS
<1>12. v.lru[1] = [slot |-> s, stamp |-> t]
  <2>1. 1 \in 1..(n_entry + 1)
    BY <1>4
  <2>2. v.lru[1] = [slot |-> client_hash'[q[1]], stamp |-> stamp'[q[1]]]
    BY <1>8, <1>11, <2>1
  <2> QED BY <1>2, <2>2
<1>13. \A j \in 1..n_entry : v.lru[j + 1] = w.lru[j]
  <2> TAKE j \in 1..n_entry
  <2>1. w.lru[j] = [slot |-> client_hash[p[j]], stamp |-> stamp[p[j]]]
    BY <1>6, <1>10 DEF WalkedAs
  <2>2. j + 1 \in 1..(n_entry + 1)
    BY <1>4
  <2>3. v.lru[j + 1] = [slot |-> client_hash'[q[j + 1]], stamp |-> stamp'[q[j + 1]]]
    BY <1>8, <1>11, <2>2
  <2> QED BY <1>2, <2>1, <2>3
<1>14. v = Enqueue(w, s, t)
  BY <1>7, <1>8, <1>10, <1>11, <1>12, <1>13, EnqueuedList
<1>15. Abstract!Reference(s, t, k)
  BY <1>4, <1>8, <1>9, <1>10, <1>11, <1>14, CalledQueue
<1> QED BY <1>2, <1>3, <1>5, <1>15 DEF IInv

(* q is p with its m-th node, the one of s, in front and stamped t.        *)
MovesTo(s, t, p, m, q) ==
    /\ m \in 1..n_entry /\ client_hash[p[m]] = s
    /\ \A j \in 1..n_entry : q[j] = IF j = 1 THEN p[m] ELSE IF j <= m THEN p[j - 1] ELSE p[j]
    /\ n_entry' = n_entry /\ client_hash' = client_hash /\ head' = p[m]
    /\ stamp'[p[m]] = t /\ \A j \in 1..n_entry : j # m => stamp'[p[j]] = stamp[p[j]]
    /\ active[s] /\ CellsInv' /\ TypeInv'

(* Relink and Restamp put the client's node, at position m, first.         *)
LEMMA MovedStep ==
    ASSUME IInv, NEW s \in Slot, NEW t \in Nat, NEW k \in Setting, Begin(s, t, k),
           NEW p, Along(p), NEW m, NEW q, Along(q)', MovesTo(s, t, p, m, q)
    PROVE  IInv' /\ Abstract!Reference(s, t, k)
<1>0. /\ m \in 1..n_entry /\ client_hash[p[m]] = s
      /\ \A j \in 1..n_entry : q[j] = IF j = 1 THEN p[m] ELSE IF j <= m THEN p[j - 1] ELSE p[j]
      /\ n_entry' = n_entry /\ client_hash' = client_hash /\ head' = p[m]
      /\ stamp'[p[m]] = t /\ \A j \in 1..n_entry : j # m => stamp'[p[j]] = stamp[p[j]]
      /\ active[s] /\ CellsInv' /\ TypeInv'
  BY DEF MovesTo
<1> USE <1>0
<1>1. n_entry \in Nat /\ n_entry > 0
  BY DEF IInv, TypeInv
<1>2. CallInv'
  <2>1. call' \in [now : Nat, k : Setting] /\ call'.now = t
    BY DEF Begin
  <2> QED BY <1>1, <2>1 DEF CallInv
<1>3. WalkedAs(p) /\ WalkedAs(q)'
  BY WalkedHere, WalkedNext DEF IInv
<1>4. /\ QueueOK(Walked) /\ Len(Walked.lru) = n_entry /\ s \in Slots(Walked)
      /\ \A j \in 1..n_entry :
           Walked.lru[j] = [slot |-> client_hash[p[j]], stamp |-> stamp[p[j]]]
  BY <1>3 DEF WalkedAs
<1>5. /\ QueueOK(Walked') /\ Len(Walked'.lru) = n_entry /\ Walked'.n_entry = n_entry'
      /\ \A j \in 1..n_entry :
           Walked'.lru[j] = [slot |-> client_hash[q[j]], stamp |-> stamp'[q[j]]]
  BY <1>3 DEF WalkedAs
<1>6. Touch(Walked, s, t) = MoveToFront(Walked, s, t)
  BY <1>3 DEF Touch, WalkedAs
<1>7. PICK w : w = Walked
  OBVIOUS
<1>8. PICK v : v = Walked'
  OBVIOUS
<1>9. w.lru[m].slot = s /\ v.lru[1] = [slot |-> s, stamp |-> t]
  <2>1. w.lru[m] = [slot |-> client_hash[p[m]], stamp |-> stamp[p[m]]]
    BY <1>4, <1>7
  <2>2. v.lru[1] = [slot |-> client_hash[q[1]], stamp |-> stamp'[q[1]]] /\ q[1] = p[m]
    BY <1>1, <1>5, <1>8
  <2> QED BY <2>1, <2>2
<1>10. ASSUME NEW j \in 2..m PROVE v.lru[j] = w.lru[j - 1]
  <2>1. j - 1 \in 1..n_entry /\ j - 1 # m /\ j \in 1..n_entry /\ q[j] = p[j - 1]
    BY <1>1
  <2>2. w.lru[j - 1] = [slot |-> client_hash[p[j - 1]], stamp |-> stamp[p[j - 1]]]
    BY <1>4, <1>7, <2>1
  <2>3. v.lru[j] = [slot |-> client_hash[q[j]], stamp |-> stamp'[q[j]]]
    BY <1>5, <1>8, <2>1
  <2> QED BY <2>1, <2>2, <2>3
<1>11. ASSUME NEW j \in (m + 1)..n_entry PROVE v.lru[j] = w.lru[j]
  <2>1. j \in 1..n_entry /\ j # m /\ q[j] = p[j]
    BY <1>1
  <2>2. w.lru[j] = [slot |-> client_hash[p[j]], stamp |-> stamp[p[j]]]
    BY <1>4, <1>7, <2>1
  <2>3. v.lru[j] = [slot |-> client_hash[q[j]], stamp |-> stamp'[q[j]]]
    BY <1>5, <1>8, <2>1
  <2> QED BY <2>1, <2>2, <2>3
<1>12. v = MoveToFront(w, s, t)
  <2>1. QueueOK(w) /\ QueueOK(v) /\ Len(w.lru) = n_entry /\ Len(v.lru) = Len(w.lru)
    BY <1>4, <1>5, <1>7, <1>8
  <2>2. \A j \in 2..m : v.lru[j] = w.lru[j - 1]
    BY <1>10
  <2>3. \A j \in (m + 1)..Len(w.lru) : v.lru[j] = w.lru[j]
    BY <1>11, <2>1
  <2>4. m \in 1..Len(w.lru)
    BY <2>1
  <2> QED BY ONLY <2>1, <2>2, <2>3, <2>4, <1>9, MovedList
<1>13. Abstract!Reference(s, t, k)
  BY <1>5, <1>6, <1>7, <1>8, <1>12, CalledQueue
<1> QED BY <1>2, <1>13 DEF IInv

(* Moving the client's node to the head is a reference of ClientLru.       *)
LEMMA RelinkStep ==
    ASSUME IInv, NEW s \in Slot, NEW t \in Nat, NEW k \in Setting, Relink(s, t, k)
    PROVE  IInv' /\ Abstract!Reference(s, t, k)
<1>1. PICK p : Along(p)
  BY DEF IInv
<1>2. PICK m \in 2..n_entry : \E q :
        /\ Along(q)' /\ n_entry' = n_entry /\ p[m] = lru_ptr[s]
        /\ q = [j \in 1..n_entry |-> IF j = 1 THEN p[m] ELSE IF j <= m THEN p[j - 1] ELSE p[j]]
        /\ client_hash[p[m]] = s /\ stamp'[p[m]] = t /\ head' = p[m]
        /\ \A j \in 1..n_entry : j # m => stamp'[p[j]] = stamp[p[j]]
  BY <1>1, RelinkPath DEF IInv
<1>3. CellsInv' /\ TypeInv' /\ client_hash' = client_hash /\ active[s]
  BY <1>1, RelinkPath DEF IInv
<1>4. PICK q :
        /\ Along(q)' /\ n_entry' = n_entry
        /\ q = [j \in 1..n_entry |-> IF j = 1 THEN p[m] ELSE IF j <= m THEN p[j - 1] ELSE p[j]]
        /\ client_hash[p[m]] = s /\ stamp'[p[m]] = t /\ head' = p[m]
        /\ \A j \in 1..n_entry : j # m => stamp'[p[j]] = stamp[p[j]]
  BY <1>2
<1>5. \A j \in 1..n_entry : q[j] = IF j = 1 THEN p[m] ELSE IF j <= m THEN p[j - 1] ELSE p[j]
  BY <1>4
<1>6. m \in 1..n_entry /\ Begin(s, t, k)
  BY DEF Relink, IInv, TypeInv
<1>7. MovesTo(s, t, p, m, q)
  BY <1>3, <1>4, <1>5, <1>6 DEF MovesTo
<1> QED BY <1>1, <1>4, <1>6, <1>7, MovedStep

(* Stamping the head again is a reference of ClientLru.                    *)
LEMMA RestampStep ==
    ASSUME IInv, NEW s \in Slot, NEW t \in Nat, NEW k \in Setting, Restamp(s, t, k)
    PROVE  IInv' /\ Abstract!Reference(s, t, k)
<1>1. PICK p : Along(p)
  BY DEF IInv
<1>2. /\ Along(p)' /\ n_entry' = n_entry /\ n_entry >= 1 /\ p[1] = lru_ptr[s]
      /\ client_hash[p[1]] = s /\ stamp'[p[1]] = t /\ head' = p[1]
      /\ \A j \in 1..n_entry : j # 1 => stamp'[p[j]] = stamp[p[j]]
      /\ CellsInv' /\ TypeInv' /\ client_hash' = client_hash /\ active[s]
  BY <1>1, RestampPath DEF IInv
<1>3. n_entry \in Nat /\ Begin(s, t, k)
  BY DEF Restamp, IInv, TypeInv
<1>4. PICK m : m = 1
  OBVIOUS
<1>5. m \in 1..n_entry
  BY <1>2, <1>3, <1>4
<1>6. \A j \in 1..n_entry : p[j] = IF j = 1 THEN p[m] ELSE IF j <= m THEN p[j - 1] ELSE p[j]
  BY <1>3, <1>4
<1>7. /\ client_hash[p[m]] = s /\ stamp'[p[m]] = t /\ head' = p[m]
      /\ \A j \in 1..n_entry : j # m => stamp'[p[j]] = stamp[p[j]]
  BY <1>2, <1>4
<1>8. MovesTo(s, t, p, m, p)
  BY <1>2, <1>3, <1>5, <1>6, <1>7 DEF MovesTo
<1> QED BY <1>1, <1>2, <1>3, <1>8, MovedStep

(* The walk begins to prune: ClientLru has pruned.                         *)
LEMMA WalkPruneStep ==
    ASSUME IInv, NEW t \in Nat, NEW k \in Setting, WalkPrune(t, k)
    PROVE  IInv' /\ Abstract!WalkPrune(t, k)
<1>1. /\ pc = "idle" /\ n_entry > 0 /\ pc' = "walk" /\ call' = [now |-> t, k |-> k]
      /\ UNCHANGED <<clock, lastAsk, live, prev, next, stamp, client_hash, head, tail,
                     n_entry, active, lru_ptr>>
  BY DEF WalkPrune, list, table
<1>2. PICK p : Along(p)
  BY DEF IInv
<1>3. Along(p)' /\ TypeInv' /\ CellsInv' /\ CallInv'
  BY <1>1, <1>2, Zenon DEF Along, TypeInv, CellsInv, CallInv, IInv
<1>4. IInv'
  BY <1>3 DEF IInv
<1>5. Walked' = Walked
  BY <1>1 DEF Walked, Path, NodeAt
<1>6. Walked.n_entry = n_entry
  BY <1>2, WalkedHere DEF IInv, WalkedAs
<1>7. queue = Walked /\ queue' = Prune(Walked, t, k)
  BY <1>1, <1>5 DEF queue
<1>8. Abstract!WalkPrune(t, k)
  BY <1>1, <1>6, <1>7, SameOperators DEF Abstract!WalkPrune
<1> QED BY <1>4, <1>8

(* An iteration of prune that frees the tail: ClientLru did that already.  *)
LEMMA PruneTailStep ==
    ASSUME IInv, PruneTail
    PROVE  IInv' /\ UNCHANGED Abstract!vars
<1>1. PICK p : Along(p)
  BY DEF IInv
<1>2. PICK q : /\ Along(q)' /\ n_entry' = n_entry - 1 /\ n_entry >= 2
               /\ \A j \in 1..(n_entry - 1) : /\ q[j] = p[j]
                                              /\ stamp'[p[j]] = stamp[p[j]]
                                              /\ client_hash'[p[j]] = client_hash[p[j]]
  BY <1>1, PruneTailPath DEF IInv
<1>3. /\ CellsInv' /\ TypeInv'
      /\ UNCHANGED <<clock, lastAsk, head, pc, call>> /\ stamp'[head] = stamp[head]
  BY <1>1, PruneTailPath DEF IInv
<1>4. pc \in {"prune", "walk"} /\ stamp[tail] < call.now - call.k.delta
  BY DEF PruneTail, StaleTail
<1>5. n_entry \in Nat /\ call \in [now : Nat, k : Setting] /\ call.now \in Nat /\ call.k \in Setting
  <2>1. call \in [now : Nat, k : Setting]
    BY <1>4 DEF IInv, CallInv
  <2> QED BY <2>1 DEF IInv, TypeInv
<1>6. CallInv'
  BY <1>2, <1>3, <1>5 DEF IInv, CallInv
<1>7. WalkedAs(p) /\ WalkedAs(q)'
  BY <1>1, <1>2, <1>3, WalkedHere, WalkedNext DEF IInv
<1>8. PICK w : w = Walked
  OBVIOUS
<1>9. PICK v : v = Walked'
  OBVIOUS
<1>10. /\ QueueOK(w) /\ Len(w.lru) = n_entry
       /\ \A j \in 1..n_entry : w.lru[j] = [slot |-> client_hash[p[j]], stamp |-> stamp[p[j]]]
  BY <1>7, <1>8 DEF WalkedAs
<1>11. /\ QueueOK(v) /\ Len(v.lru) = n_entry - 1
       /\ \A j \in 1..(n_entry - 1) :
            v.lru[j] = [slot |-> client_hash'[q[j]], stamp |-> stamp'[q[j]]]
  BY <1>2, <1>7, <1>9 DEF WalkedAs
<1>12. \A j \in 1..Len(v.lru) : v.lru[j] = w.lru[j]
  <2> TAKE j \in 1..Len(v.lru)
  <2>1. j \in 1..(n_entry - 1) /\ j \in 1..n_entry
    BY <1>5, <1>11
  <2>2. /\ v.lru[j] = [slot |-> client_hash'[q[j]], stamp |-> stamp'[q[j]]]
        /\ w.lru[j] = [slot |-> client_hash[p[j]], stamp |-> stamp[p[j]]]
    BY ONLY <1>10, <1>11, <2>1, Zenon
  <2>3. /\ q[j] = p[j] /\ stamp'[p[j]] = stamp[p[j]]
        /\ client_hash'[p[j]] = client_hash[p[j]]
    BY ONLY <1>2, <2>1, Zenon
  <2> QED BY ONLY <2>2, <2>3
<1>13. Stale(w, Len(w.lru), call.now, call.k)
  <2>1. tail = p[n_entry] /\ n_entry \in 1..n_entry
    BY <1>1, <1>2, <1>5 DEF Along
  <2>2. w.lru[n_entry] = [slot |-> client_hash[p[n_entry]], stamp |-> stamp[p[n_entry]]]
    BY ONLY <1>10, <2>1, Zenon
  <2>3. w.lru[n_entry].stamp = stamp[tail]
    BY ONLY <2>1, <2>2
  <2> QED BY <1>4, <1>10, <2>3 DEF Stale
<1>14. Len(w.lru) >= 1 /\ Len(v.lru) = Len(w.lru) - 1
  BY <1>2, <1>5, <1>10, <1>11
<1>15. Prune(v, call.now, call.k) = Prune(w, call.now, call.k)
  BY <1>5, <1>10, <1>11, <1>12, <1>13, <1>14, PruneOneMore
<1>16. queue = Prune(w, call.now, call.k) /\ queue' = Prune(v, call.now, call.k)
  BY <1>3, <1>4, <1>8, <1>9 DEF queue
<1> QED BY <1>2, <1>3, <1>6, <1>15, <1>16 DEF IInv, Abstract!vars

(* The last iteration, of the walk: nothing is left, as ClientLru has it.  *)
LEMMA PruneLastStep ==
    ASSUME IInv, PruneLast
    PROVE  IInv' /\ UNCHANGED Abstract!vars
<1>1. PICK p : Along(p)
  BY DEF IInv
<1>2. PICK q : Along(q)'
  BY <1>1, PruneLastPath DEF IInv
<1>3. /\ n_entry = 1 /\ n_entry' = 0 /\ CellsInv' /\ TypeInv'
      /\ pc = "walk" /\ pc' = "idle" /\ UNCHANGED <<clock, lastAsk>>
  BY <1>1, PruneLastPath DEF IInv
<1>4. stamp[tail] < call.now - call.k.delta
  BY DEF PruneLast, StaleTail
<1>5. call.now \in Nat /\ call.k \in Setting
  <2>1. call \in [now : Nat, k : Setting]
    BY <1>3 DEF IInv, CallInv
  <2> QED BY <2>1
<1>6. WalkedAs(p) /\ WalkedAs(q)'
  BY <1>1, <1>2, <1>3, WalkedHere, WalkedNext DEF IInv
<1>7. PICK w : w = Walked
  OBVIOUS
<1>8. PICK v : v = Walked'
  OBVIOUS
<1>9. /\ QueueOK(w) /\ Len(w.lru) = 1
      /\ \A j \in 1..1 : w.lru[j] = [slot |-> client_hash[p[j]], stamp |-> stamp[p[j]]]
  BY <1>3, <1>6, <1>7 DEF WalkedAs
<1>10. QueueOK(v) /\ Len(v.lru) = 0
  BY <1>3, <1>6, <1>8 DEF WalkedAs
<1>11. Stale(w, Len(w.lru), call.now, call.k)
  <2>1. tail = p[1]
    BY <1>1, <1>3 DEF Along
  <2>2. w.lru[1].stamp = stamp[tail]
    BY <1>9, <2>1
  <2> QED BY <1>4, <1>9, <2>2 DEF Stale
<1>12. Prune(v, call.now, call.k) = Prune(w, call.now, call.k)
  <2>1. Len(w.lru) >= 1 /\ Len(v.lru) = Len(w.lru) - 1 /\ \A j \in 1..Len(v.lru) : v.lru[j] = w.lru[j]
    BY <1>9, <1>10
  <2>2. QueueOK(w) /\ QueueOK(v) /\ call.now \in Nat /\ call.k \in Setting
    BY <1>5, <1>9, <1>10
  <2> QED BY ONLY <1>11, <2>1, <2>2, PruneOneMore, ZenonT(60)
<1>13. Prune(v, call.now, call.k) = v
  BY <1>5, <1>10, PruneNothing
<1>14. queue = Prune(w, call.now, call.k) /\ queue' = v
  BY <1>3, <1>7, <1>8 DEF queue
<1>15. CallInv'
  BY <1>3 DEF CallInv
<1> QED BY <1>2, <1>3, <1>12, <1>13, <1>14, <1>15 DEF IInv, Abstract!vars

(* prune leaves its loop, or referencePage returns.                        *)
LEMMA ReturnStep ==
    ASSUME IInv, PruneStop \/ Oldest
    PROVE  IInv' /\ UNCHANGED Abstract!vars
<1>1. /\ UNCHANGED <<clock, lastAsk, live, prev, next, stamp, client_hash, head, tail,
                     n_entry, active, lru_ptr>>
      /\ pc' \in {"idle", "oldest"}
      /\ pc' = "oldest" => call' = call
      /\ pc # "idle"
  BY DEF PruneStop, Oldest, Return, Goto, list, table
<1>2. PICK p : Along(p)
  BY DEF IInv
<1>3. Along(p)'
  BY <1>1, <1>2 DEF Along
<1>4. TypeInv' /\ CellsInv' /\ CallInv'
  BY <1>1 DEF IInv, TypeInv, CellsInv, CallInv
<1>5. IInv'
  BY <1>3, <1>4 DEF IInv
<1>6. Walked' = Walked
  BY <1>1 DEF Walked, Path, NodeAt
<1>7. queue' = Walked
  BY <1>1, <1>6 DEF queue
<1>8. queue = Walked
  <2>1. CASE pc \in {"prune", "walk"}
    <3>1. ~ stamp[tail] < call.now - call.k.delta
      BY <2>1 DEF PruneStop, Oldest, StaleTail
    <3>2. call.now \in Nat /\ call.k \in Setting /\ n_entry \in Nat /\ n_entry > 0
      <4>1. call \in [now : Nat, k : Setting]
        BY <1>1 DEF IInv, CallInv
      <4> QED BY <1>1, <4>1 DEF IInv, CallInv, TypeInv
    <3>3. PICK w : w = Walked
      OBVIOUS
    <3>4. /\ QueueOK(w) /\ Len(w.lru) = n_entry
          /\ \A j \in 1..n_entry : w.lru[j] = [slot |-> client_hash[p[j]], stamp |-> stamp[p[j]]]
      BY <1>2, <3>3, WalkedHere DEF IInv, WalkedAs
    <3>5. tail = p[n_entry] /\ n_entry \in 1..n_entry
      BY <1>2, <3>2 DEF Along
    <3>9. w.lru[n_entry] = [slot |-> client_hash[p[n_entry]], stamp |-> stamp[p[n_entry]]]
      BY ONLY <3>4, <3>5, Zenon
    <3>6. w.lru[n_entry].stamp = stamp[tail]
      BY ONLY <3>5, <3>9
    <3>7. ~ Stale(w, Len(w.lru), call.now, call.k)
      BY <3>1, <3>4, <3>6 DEF Stale
    <3>8. Prune(w, call.now, call.k) = w
      BY <3>2, <3>4, <3>7, PruneNothing
    <3> QED BY <2>1, <3>3, <3>8 DEF queue
  <2>2. CASE pc \notin {"prune", "walk"}
    BY <2>2 DEF queue
  <2> QED BY <2>1, <2>2
<1> QED BY <1>1, <1>5, <1>7, <1>8 DEF Abstract!vars

(* The clock ticks in both.                                                *)
LEMMA TickStep ==
    ASSUME IInv, Tick
    PROVE  IInv' /\ Abstract!Tick
<1>1. /\ UNCHANGED <<lastAsk, live, prev, next, stamp, client_hash, head, tail,
                     n_entry, active, lru_ptr, pc, call>>
      /\ clock < MaxTime /\ clock' = clock + 1
  BY DEF Tick, list, table
<1>2. PICK p : Along(p)
  BY DEF IInv
<1>3. Along(p)' /\ TypeInv' /\ CellsInv' /\ CallInv'
  <2>1. Along(p)'
    BY <1>1, <1>2 DEF Along
  <2>2. clock' \in Nat
    BY <1>1 DEF IInv, TypeInv
  <2>3. TypeInv'
    BY <1>1, <2>2 DEF IInv, TypeInv
  <2>4. CellsInv'
    BY <1>1 DEF IInv, CellsInv
  <2>5. CallInv'
    BY <1>1 DEF IInv, CallInv
  <2> QED BY <2>1, <2>3, <2>4, <2>5
<1>4. Walked' = Walked
  BY <1>1 DEF Walked, Path, NodeAt
<1>5. queue' = queue
  BY <1>1, <1>4 DEF queue
<1> QED BY <1>1, <1>3, <1>5 DEF IInv, Abstract!Tick

(* An empty list is an empty queue.                                        *)
LEMMA InitStep == Init => IInv /\ Abstract!Init
<1> SUFFICES ASSUME Init PROVE IInv /\ Abstract!Init
  OBVIOUS
<1>1. /\ clock = 0 /\ lastAsk = [s \in Slot |-> Never] /\ live = {}
      /\ prev = [n \in Node |-> NULL] /\ next = [n \in Node |-> NULL]
      /\ stamp = [n \in Node |-> Never] /\ client_hash = [n \in Node |-> NULL]
      /\ head = NULL /\ tail = NULL /\ n_entry = 0 /\ active = [s \in Slot |-> FALSE]
      /\ lru_ptr = [s \in Slot |-> NULL] /\ pc = "idle"
  BY DEF Init
<1>2. PICK p : p = [j \in 1..0 |-> NULL]
  OBVIOUS
<1>3. 1..0 = {}
  OBVIOUS
<1>4. p \in [1..0 -> Node] /\ {p[j] : j \in 1..0} = {}
  BY <1>2, <1>3
<1>5. Along(p)
  BY <1>1, <1>3, <1>4 DEF Along
<1>6. TypeInv
  <2>1. Never \in Int
    BY DEF Never
  <2>2. stamp \in [Node -> Int] /\ active \in [Slot -> BOOLEAN]
    BY <1>1, <2>1
  <2> QED BY <1>1, <2>2 DEF TypeInv
<1>7. CellsInv
  <2>1. \A s \in Slot : ~ active[s] /\ lru_ptr[s] = NULL
    BY <1>1
  <2> QED BY <1>1, <2>1 DEF CellsInv
<1>8. CallInv
  BY <1>1 DEF CallInv
<1>9. WalkedAs(p)
  BY <1>5, <1>6, <1>7, WalkedHere
<1>10. QueueOK(Walked) /\ Len(Walked.lru) = 0
  BY <1>1, <1>9 DEF WalkedAs
<1>11. Walked = [lru |-> Walked.lru, active |-> Walked.active, n_entry |-> Walked.n_entry]
  BY DEF Walked
<1>12. Walked.lru = << >>
  BY <1>10, EmptySeq, QueueFacts
<1>13. Walked = EmptyQueue
  BY <1>1, <1>9, <1>11, <1>12 DEF WalkedAs, EmptyQueue
<1>14. queue = EmptyQueue
  BY <1>1, <1>13 DEF queue
<1>15. Abstract!Init
  BY <1>1, <1>14, SameOperators DEF Abstract!Init, Never, Abstract!Never
<1> QED BY <1>5, <1>6, <1>7, <1>8, <1>15 DEF IInv

(* Every step keeps the invariant and is one of ClientLru's, or none.      *)
LEMMA NextStep ==
    ASSUME IInv, [Next]_vars
    PROVE  IInv' /\ [Abstract!Next]_(Abstract!vars)
<1> USE DEF Abstract!Next
<1>1. CASE Tick
  BY <1>1, TickStep
<1>2. ASSUME NEW s \in Slot, NEW t \in Stamps, NEW k \in Setting,
             EnqueueNode(s, t, k) \/ Relink(s, t, k) \/ Restamp(s, t, k)
      PROVE  IInv' /\ [Abstract!Next]_(Abstract!vars)
  <2>1. t \in Nat /\ t \in Abstract!Stamps
    BY StampsFacts DEF IInv, TypeInv
  <2>2. IInv' /\ Abstract!Reference(s, t, k)
    BY <1>2, <2>1, EnqueueStep, RelinkStep, RestampStep
  <2> QED BY <2>1, <2>2
<1>3. ASSUME NEW t \in Stamps, NEW k \in Setting, WalkPrune(t, k)
      PROVE  IInv' /\ [Abstract!Next]_(Abstract!vars)
  <2>1. t \in Nat /\ t \in Abstract!Stamps
    BY StampsFacts DEF IInv, TypeInv
  <2>2. IInv' /\ Abstract!WalkPrune(t, k)
    BY <1>3, <2>1, WalkPruneStep
  <2> QED BY <2>1, <2>2
<1>4. CASE PruneLast
  BY <1>4, PruneLastStep
<1>5. CASE PruneTail
  BY <1>5, PruneTailStep
<1>6. CASE PruneStop \/ Oldest
  BY <1>6, ReturnStep
<1>7. CASE UNCHANGED vars
  <2>1. UNCHANGED <<clock, lastAsk, live, prev, next, stamp, client_hash, head, tail,
                    n_entry, active, lru_ptr, pc, call>>
    BY <1>7 DEF vars, list, table
  <2>2. PICK p : Along(p)
    BY DEF IInv
  <2>3. Along(p)' /\ TypeInv' /\ CellsInv' /\ CallInv'
    BY <2>1, <2>2, ZenonT(60) DEF IInv, Along, TypeInv, CellsInv, CallInv
  <2>4. queue' = queue
    BY <2>1 DEF queue, Walked, Path, NodeAt
  <2> QED BY <2>1, <2>3, <2>4 DEF IInv, Abstract!vars
<1> QED BY <1>1, <1>2, <1>3, <1>4, <1>5, <1>6, <1>7 DEF Next

(* The inductive invariant holds.                                          *)
THEOREM ListInvariance == Spec => []IInv
<1>1. Init => IInv
  BY InitStep
<1>2. IInv /\ [Next]_vars => IInv'
  BY NextStep
<1> QED BY <1>1, <1>2, PTL DEF Spec

(* lru.c implements the sequence operations of ClientLru: every reference  *)
(* and every prune, one node at a time, leaves what the abstract one does. *)
THEOREM ListImplementsClientLru == Spec => ImplementsClientLru
<1>1. Init => Abstract!Init
  BY InitStep
<1>2. IInv /\ [Next]_vars => [Abstract!Next]_(Abstract!vars)
  BY NextStep
<1> QED BY <1>1, <1>2, ListInvariance, PTL DEF Spec, ImplementsClientLru, Abstract!Spec

(* Between any two iterations the list is well formed.                     *)
THEOREM ListStaysWellFormed == Spec => []ListWellFormed
<1>1. IInv => ListWellFormed
  <2> SUFFICES ASSUME IInv PROVE ListWellFormed
    OBVIOUS
  <2>1. PICK p : Along(p)
    BY DEF IInv
  <2>2. n_entry \in Nat /\ Path = p /\ p \in [1..n_entry -> Node]
    BY <2>1, PathIs DEF IInv, TypeInv, Along
  <2>3. Len(p) = n_entry
    BY <2>2
  <2>4. /\ \A j, k \in 1..n_entry : p[j] = p[k] => j = k
        /\ tail = IF n_entry = 0 THEN NULL ELSE p[n_entry]
        /\ live = {p[k] : k \in 1..n_entry}
        /\ \A k \in 1..n_entry : /\ next[p[k]] = IF k = n_entry THEN NULL ELSE p[k + 1]
                                 /\ prev[p[k]] = IF k = 1 THEN NULL ELSE p[k - 1]
    BY <2>1 DEF Along
  <2>5. IF n_entry = 0 THEN tail = NULL ELSE p[n_entry] = tail /\ next[tail] = NULL
    <3>1. n_entry # 0 => n_entry \in 1..n_entry
      BY <2>2
    <3> QED BY <2>4, <3>1
  <2>6. Cardinality(live) = n_entry
    <3>1. p \in Bijection(1..n_entry, live)
      BY <2>2, <2>4 DEF Bijection, Injection, Surjection, IsInjective
    <3>2. IsFiniteSet(1..n_entry) /\ Cardinality(1..n_entry) = n_entry
      <4>1. 1 \in Int /\ n_entry \in Int
        BY <2>2
      <4>2. /\ IsFiniteSet(1..n_entry)
            /\ Cardinality(1..n_entry) = IF 1 > n_entry THEN 0 ELSE n_entry - 1 + 1
        BY ONLY <4>1, FS_Interval, Zenon
      <4> QED BY <2>2, <4>2
    <3>3. ExistsBijection(1..n_entry, live)
      BY <3>1 DEF ExistsBijection
    <3>4. Cardinality(live) = Cardinality(1..n_entry)
      BY ONLY <3>2, <3>3, FS_Bijection, Zenon
    <3> QED BY <3>2, <3>4
  <2>7. \A s \in Slot : IF active[s] THEN lru_ptr[s] \in live /\ client_hash[lru_ptr[s]] = s
                                     ELSE lru_ptr[s] = NULL
    BY DEF IInv, CellsInv
  <2> QED BY <2>2, <2>3, <2>4, <2>5, <2>6, <2>7 DEF ListWellFormed
<1> QED BY <1>1, ListInvariance, PTL

(* No NULL is followed: tail is a node whenever prune or referencePage     *)
(* read it, and head whenever n_entry says there is one.                   *)
THEOREM ListDereferences == Spec => []NoNullDereference
<1>1. IInv => NoNullDereference
  <2> SUFFICES ASSUME IInv PROVE NoNullDereference
    OBVIOUS
  <2>1. PICK p : Along(p)
    BY DEF IInv
  <2>2. n_entry \in Nat /\ (pc # "idle" => n_entry > 0)
    BY DEF IInv, TypeInv, CallInv
  <2>3. ASSUME n_entry # 0 PROVE head # NULL /\ tail # NULL
    <3>1. 1 \in 1..n_entry /\ n_entry \in 1..n_entry
      BY <2>2, <2>3
    <3>2. \A k \in 1..n_entry : p[k] # NULL
      BY <2>1, PathFacts DEF IInv
    <3>3. p[1] # NULL /\ p[n_entry] # NULL
      BY ONLY <3>1, <3>2, Zenon
    <3>4. head = p[1] /\ tail = p[n_entry]
      BY <2>1, <2>3 DEF Along
    <3> QED BY <3>3, <3>4
  <2> QED BY <2>2, <2>3 DEF NoNullDereference
<1> QED BY <1>1, ListInvariance, PTL

=============================================================================
