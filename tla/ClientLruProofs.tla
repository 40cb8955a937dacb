-------------------------- MODULE ClientLruProofs --------------------------
(***************************************************************************)
(* The properties of ClientLru for every number of clients, every alpha    *)
(* and delta, every skew and every bound on the clock.                     *)
(***************************************************************************)
EXTENDS ClientLru, QueueProofs

(* No entry is stamped in the future: the stamps were read from the clock. *)
StampsPast == \A j \in 1..Len(queue.lru) : queue.lru[j].stamp <= clock

(* The inductive invariant. Sortedness up to the skew needs StampsPast: an *)
(* entry that goes to the head with stamp clock - MaxSkew is less than     *)
(* MaxSkew older than any other. That no fresh client is forgotten needs   *)
(* StampIsLastAsk: what prune compares is the client's last reference.     *)
IInv ==
    /\ TypeOK
    /\ QueueConsistent
    /\ StampIsLastAsk
    /\ SortedWithinSkew
    /\ NoFreshClientForgotten
    /\ StampsPast

(* A call's stamp is a time of the past, MaxSkew seconds ago at most.      *)
LEMMA StampsFacts ==
    ASSUME TypeOK, NEW t \in Stamps
    PROVE  t \in Nat /\ t <= clock /\ t >= clock - MaxSkew
BY LruAssumption DEF Stamps, TypeOK

(* The list between the two halves of referencePage, for a call stamped t. *)
LEMMA TouchedList ==
    ASSUME IInv, NEW s \in Slot, NEW t \in Stamps
    PROVE  /\ QueueOK(Touch(queue, s, t))
           /\ OrderedWithin(Touch(queue, s, t), MaxSkew)
           /\ \A j \in 1..Len(Touch(queue, s, t).lru) :
                /\ Touch(queue, s, t).lru[j].stamp <= clock
                /\ Touch(queue, s, t).lru[j].stamp
                     = [lastAsk EXCEPT ![s] = t][Touch(queue, s, t).lru[j].slot]
<1> DEFINE w == Touch(queue, s, t)
           n == Len(w.lru)
           m == Len(queue.lru)
<1>1. /\ t \in Nat /\ t <= clock /\ t >= clock - MaxSkew /\ clock \in Nat /\ MaxSkew \in Nat
      /\ lastAsk \in [Slot -> Nat \cup {Never}]
  BY StampsFacts, LruAssumption DEF IInv, TypeOK
<1>2. QueueOK(queue) /\ m \in Nat /\ DOMAIN queue.lru = 1..m
  BY QueueFacts DEF IInv, QueueConsistent
<1>3. /\ \A j \in 1..m : queue.lru[j].slot \in Slot
      /\ \A j \in 1..m : queue.lru[j].stamp \in Nat
  BY <1>2, QueueFacts
<1>4. QueueOK(w)
  BY <1>1, <1>2, TouchFacts
<1>5. n >= 1 /\ n \in Nat /\ w.lru[1] = [slot |-> s, stamp |-> t]
  <2>1. n >= 1
    BY <1>1, <1>2, TouchFacts
  <2>2. w.lru[1] = [slot |-> s, stamp |-> t]
    BY <1>1, <1>2, TouchFacts
  <2>3. n \in Nat
    BY <1>4, QueueFacts
  <2> QED BY <2>1, <2>2, <2>3
<1>6. \A j \in 2..n : Origin(queue, s, j) \in 1..m /\ w.lru[j] = queue.lru[Origin(queue, s, j)]
  BY <1>1, <1>2, TouchFacts, ZenonT(60)
<1>7. \A j, l \in 2..n : j < l => Origin(queue, s, j) < Origin(queue, s, l)
  BY <1>1, <1>2, TouchFacts
<1>8. DOMAIN w.lru = 1..n /\ \A j, l \in 1..n : w.lru[j].slot = w.lru[l].slot => j = l
  <2>1. DOMAIN w.lru = 1..n
    BY <1>4, QueueFacts
  <2>2. \A j, l \in 1..n : w.lru[j].slot = w.lru[l].slot => j = l
    BY <1>4, QueueFacts
  <2> QED BY <2>1, <2>2
<1> HIDE DEF w, n, m
<1>9. \A j \in 2..n : w.lru[j].stamp <= clock /\ w.lru[j].stamp \in Nat
  BY <1>3, <1>6 DEF IInv, StampsPast, m
<1>10. OrderedWithin(w, MaxSkew)
  <2> SUFFICES ASSUME NEW j \in 1..n, NEW l \in 1..n, j < l
               PROVE  w.lru[j].stamp >= w.lru[l].stamp - MaxSkew
    BY <1>8 DEF OrderedWithin
  <2>1. l \in 2..n
    BY <1>5
  <2>2. CASE j = 1
    <3>1. w.lru[j].stamp = t
      BY <1>5, <2>2
    <3>2. w.lru[l].stamp <= clock /\ w.lru[l].stamp \in Nat
      BY <1>9, <2>1
    <3> QED BY <1>1, <3>1, <3>2
  <2>3. CASE j # 1
    <3>1. j \in 2..n
      BY <1>5, <2>3
    <3>2. Origin(queue, s, j) < Origin(queue, s, l)
      BY <1>7, <2>1, <3>1
    <3>3. Origin(queue, s, j) \in 1..m /\ Origin(queue, s, l) \in 1..m
      BY <1>6, <2>1, <3>1
    <3>4. queue.lru[Origin(queue, s, j)].stamp >= queue.lru[Origin(queue, s, l)].stamp - MaxSkew
      BY <1>2, <3>2, <3>3 DEF IInv, SortedWithinSkew, OrderedWithin
    <3> QED BY <1>6, <2>1, <3>1, <3>4
  <2> QED BY <2>2, <2>3
<1>11. \A j \in 1..n : w.lru[j].stamp <= clock
  <2>1. w.lru[1].stamp <= clock
    BY <1>1, <1>5
  <2> QED BY <1>5, <1>9, <2>1
<1>12. ASSUME NEW j \in 1..n PROVE w.lru[j].stamp = [lastAsk EXCEPT ![s] = t][w.lru[j].slot]
  <2>1. CASE j = 1
    <3>1. w.lru[j].slot = s /\ w.lru[j].stamp = t
      BY <1>5, <2>1
    <3> QED BY <1>1, <3>1
  <2>2. CASE j # 1
    <3>1. j \in 2..n /\ 1 \in 1..n
      BY <1>5, <2>2
    <3>2. w.lru[j].slot # s
      BY <1>5, <1>8, <2>2, <3>1
    <3>3. Origin(queue, s, j) \in 1..m /\ w.lru[j] = queue.lru[Origin(queue, s, j)]
      BY <1>6, <3>1
    <3>4. w.lru[j].stamp = lastAsk[w.lru[j].slot]
      BY <1>2, <3>3 DEF IInv, StampIsLastAsk
    <3>5. w.lru[j].slot \in Slot
      BY <1>3, <3>3
    <3> QED BY <1>1, <3>2, <3>4, <3>5
  <2> QED BY <2>1, <2>2
<1> QED BY <1>4, <1>10, <1>11, <1>12 DEF w, n

(* A prefix of a list sorted up to the skew is sorted up to the skew.      *)
LEMMA PrefixOrdered ==
    ASSUME NEW w, NEW v, QueueOK(w), QueueOK(v), Len(v.lru) <= Len(w.lru),
           \A j \in 1..Len(v.lru) : v.lru[j] = w.lru[j], OrderedWithin(w, MaxSkew)
    PROVE  OrderedWithin(v, MaxSkew)
<1>1. Len(v.lru) \in Nat /\ Len(w.lru) \in Nat
  BY QueueFacts
<1>2. DOMAIN v.lru = 1..Len(v.lru)
  BY QueueFacts
<1>3. DOMAIN w.lru = 1..Len(w.lru)
  BY QueueFacts
<1> QED BY <1>1, <1>2, <1>3 DEF OrderedWithin

(* A new names node satisfies the invariant: its list is empty.            *)
LEMMA InitIInv == Init => IInv
<1> SUFFICES ASSUME Init PROVE IInv
  OBVIOUS
<1>1. queue.lru = << >> /\ queue.active = [s \in Slot |-> FALSE] /\ queue.n_entry = 0
  BY DEF Init, EmptyQueue
<1>2. DOMAIN queue.lru = {} /\ Len(queue.lru) = 0 /\ 1..Len(queue.lru) = {}
  BY <1>1
<1>3. queue \in Queue
  <2>1. << >> \in Seq(Entry) /\ [s \in Slot |-> FALSE] \in [Slot -> BOOLEAN] /\ 0 \in Int
    OBVIOUS
  <2> QED BY <2>1 DEF Init, EmptyQueue, Queue
<1>4. TypeOK
  BY <1>3 DEF Init, TypeOK
<1>5. QueueConsistent
  <2>1. \A s \in Slot : ~ queue.active[s]
    BY <1>1
  <2>2. Slots(queue) = {}
    BY <1>2 DEF Slots
  <2> QED BY <1>1, <1>2, <1>3, <2>1, <2>2 DEF QueueConsistent, QueueOK
<1>6. StampIsLastAsk /\ SortedWithinSkew /\ StampsPast
  BY <1>2 DEF StampIsLastAsk, SortedWithinSkew, OrderedWithin, StampsPast
<1>7. NoFreshClientForgotten
  BY DEF Init, NoFreshClientForgotten
<1> QED BY <1>4, <1>5, <1>6, <1>7 DEF IInv

(* The clock moves on: stamps stay in the past and fewer clients are       *)
(* fresh.                                                                  *)
LEMMA TickIInv == ASSUME IInv, Tick PROVE IInv'
<1>1. clock \in Nat /\ clock' = clock + 1 /\ queue' = queue /\ lastAsk' = lastAsk
      /\ lastAsk \in [Slot -> Nat \cup {Never}]
  BY DEF IInv, TypeOK, Tick
<1>2. TypeOK'
  BY <1>1 DEF IInv, TypeOK
<1>3. QueueConsistent' /\ StampIsLastAsk' /\ SortedWithinSkew'
  BY <1>1 DEF IInv, QueueConsistent, StampIsLastAsk, SortedWithinSkew
<1>4. StampsPast'
  <2>1. \A j \in 1..Len(queue.lru) : queue.lru[j].stamp \in Nat
    BY QueueFacts DEF IInv, QueueConsistent
  <2> QED BY <1>1, <2>1 DEF IInv, StampsPast
<1>5. NoFreshClientForgotten'
  <2> SUFFICES ASSUME NEW s \in Slot, lastAsk'[s] # Never,
                      \A k \in Setting : lastAsk'[s] >= clock' - k.delta
               PROVE  queue'.active[s]
    BY Zenon DEF NoFreshClientForgotten
  <2>1. ASSUME NEW k \in Setting PROVE lastAsk[s] >= clock - k.delta
    <3>1. k.delta \in Nat /\ lastAsk[s] \in Nat
      BY <1>1, QueueAssumption DEF Never
    <3>2. lastAsk'[s] >= clock' - k.delta
      OBVIOUS
    <3>3. lastAsk[s] >= (clock + 1) - k.delta
      BY ONLY <1>1, <3>2, Zenon
    <3> QED BY ONLY <1>1, <3>1, <3>3
  <2>2. lastAsk[s] # Never
    BY <1>1
  <2>3. queue.active[s]
    BY <2>1, <2>2, Zenon DEF IInv, NoFreshClientForgotten
  <2> QED BY <1>1, <2>3, Zenon
<1> QED BY <1>2, <1>3, <1>4, <1>5 DEF IInv

(* Replacing the queue w, which satisfies the invariant with the history   *)
(* a, by a prefix v that lost only stale entries keeps the invariant: what *)
(* Reference and WalkPrune have in common.                                 *)
LEMMA PrefixIInv ==
    ASSUME clock \in Nat, NEW t \in Nat, t <= clock, NEW k \in Setting,
           NEW a \in [Slot -> Nat \cup {Never}], NEW w, NEW v,
           QueueOK(w), QueueOK(v), OrderedWithin(w, MaxSkew),
           \A j \in 1..Len(w.lru) : w.lru[j].stamp <= clock /\ w.lru[j].stamp = a[w.lru[j].slot],
           Len(v.lru) <= Len(w.lru), \A j \in 1..Len(v.lru) : v.lru[j] = w.lru[j],
           \A s \in Slots(w) \ Slots(v) :
              \E j \in 1..Len(w.lru) : w.lru[j].slot = s /\ w.lru[j].stamp < t - k.delta,
           \A s \in Slot : a[s] # Never /\ (\A kk \in Setting : a[s] >= clock - kk.delta)
                              => s \in Slots(w),
           clock' = clock, queue' = v, lastAsk' = a
    PROVE  IInv'
<1>1. Len(v.lru) \in Nat /\ Len(w.lru) \in Nat
  BY QueueFacts
<1>2. DOMAIN v.lru = 1..Len(v.lru)
  BY QueueFacts
<1>3. TypeOK'
  BY DEF TypeOK, QueueOK
<1>4. QueueConsistent' /\ SortedWithinSkew'
  BY PrefixOrdered DEF QueueConsistent, SortedWithinSkew
<1>5. \A j \in 1..Len(v.lru) : v.lru[j].stamp <= clock /\ v.lru[j].stamp = a[v.lru[j].slot]
  BY <1>1
<1>6. StampIsLastAsk' /\ StampsPast'
  BY <1>2, <1>5 DEF StampIsLastAsk, StampsPast
<1>7. NoFreshClientForgotten'
  <2> SUFFICES ASSUME NEW s \in Slot, a[s] # Never,
                      \A kk \in Setting : a[s] >= clock - kk.delta
               PROVE  v.active[s]
    BY DEF NoFreshClientForgotten
  <2>1. s \in Slots(w)
    OBVIOUS
  <2>2. ASSUME s \notin Slots(v) PROVE FALSE
    <3>1. PICK j \in 1..Len(w.lru) : w.lru[j].slot = s /\ w.lru[j].stamp < t - k.delta
      BY <2>1, <2>2
    <3>2. a[s] < t - k.delta
      BY <3>1
    <3>3. a[s] >= clock - k.delta /\ k.delta \in Nat /\ a[s] \in Nat
      BY QueueAssumption DEF Never
    <3> QED BY <3>2, <3>3
  <2>3. v.active[s] <=> s \in Slots(v)
    BY QueueFacts
  <2> QED BY <2>2, <2>3
<1> QED BY <1>3, <1>4, <1>6, <1>7 DEF IInv

(* referencePage preserves the invariant: the touched list satisfies it    *)
(* (TouchedList), and settling leaves a prefix of that list (PrefixIInv).  *)
LEMMA ReferenceIInv ==
    ASSUME IInv, NEW s \in Slot, NEW t \in Stamps, NEW k \in Setting, Reference(s, t, k)
    PROVE  IInv'
<1> DEFINE w == Touch(queue, s, t)
           v == Settle(w, t, k)
           a == [lastAsk EXCEPT ![s] = t]
<1>1. /\ t \in Nat /\ t <= clock /\ clock \in Nat
      /\ lastAsk \in [Slot -> Nat \cup {Never}] /\ QueueOK(queue)
  BY StampsFacts DEF IInv, TypeOK, QueueConsistent
<1>2. clock' = clock /\ queue' = v /\ lastAsk' = a
  BY DEF Reference, ReferencePage
<1>3. a \in [Slot -> Nat \cup {Never}]
  BY <1>1
<1>4. QueueOK(w)
  BY <1>1, TouchFacts
<1>5. OrderedWithin(w, MaxSkew)
  BY TouchedList
<1>6. \A j \in 1..Len(w.lru) : w.lru[j].stamp <= clock /\ w.lru[j].stamp = a[w.lru[j].slot]
  BY TouchedList
<1>7. QueueOK(v)
  BY <1>1, <1>4, SettleFacts
<1>8. Len(v.lru) <= Len(w.lru)
  BY <1>1, <1>4, SettleFacts
<1>9. \A j \in 1..Len(v.lru) : v.lru[j] = w.lru[j]
  BY <1>1, <1>4, SettleFacts
<1>10. \A r \in Slots(w) \ Slots(v) :
          \E j \in 1..Len(w.lru) : w.lru[j].slot = r /\ w.lru[j].stamp < t - k.delta
  BY <1>1, <1>4, SettleFacts
<1>11. \A r \in Slot : a[r] # Never /\ (\A kk \in Setting : a[r] >= clock - kk.delta)
                          => r \in Slots(w)
  <2> SUFFICES ASSUME NEW r \in Slot, a[r] # Never,
                      \A kk \in Setting : a[r] >= clock - kk.delta
               PROVE  r \in Slots(w)
    OBVIOUS
  <2>1. CASE r = s
    <3>1. Len(w.lru) >= 1
      BY <1>1, TouchFacts
    <3>2. w.lru[1] = [slot |-> s, stamp |-> t]
      BY <1>1, TouchFacts
    <3>3. Slots(w) = {w.lru[i].slot : i \in 1..Len(w.lru)} /\ Len(w.lru) \in Nat
      BY <1>4, QueueFacts
    <3> HIDE DEF w
    <3>4. 1 \in 1..Len(w.lru) /\ w.lru[1].slot = r
      BY <2>1, <3>1, <3>2, <3>3
    <3> QED BY <3>3, <3>4
  <2>2. CASE r # s
    <3>1. a[r] = lastAsk[r]
      BY <1>1, <2>2
    <3> HIDE DEF a
    <3>2. queue.active[r]
      BY <3>1, Zenon DEF IInv, NoFreshClientForgotten
    <3>3. queue.active[r] <=> r \in Slots(queue)
      BY <1>1, QueueFacts
    <3>4. r \in Slots(queue)
      BY <3>2, <3>3, Zenon
    <3>5. Slots(queue) \subseteq Slots(w)
      BY <1>1, TouchFacts
    <3> QED BY <3>4, <3>5
  <2> QED BY <2>1, <2>2
<1> HIDE DEF w, v, a
<1> QED BY <1>1, <1>2, <1>3, <1>4, <1>5, <1>6, <1>7, <1>8, <1>9, <1>10, <1>11, PrefixIInv

(* table_add's pruning of a walked node preserves the invariant.           *)
LEMMA WalkPruneIInv ==
    ASSUME IInv, NEW t \in Stamps, NEW k \in Setting, WalkPrune(t, k)
    PROVE  IInv'
<1> DEFINE v == Prune(queue, t, k)
           a == lastAsk
<1>1. /\ t \in Nat /\ t <= clock /\ clock \in Nat
      /\ a \in [Slot -> Nat \cup {Never}] /\ QueueOK(queue)
      /\ OrderedWithin(queue, MaxSkew)
  BY StampsFacts DEF IInv, TypeOK, QueueConsistent, SortedWithinSkew
<1>2. clock' = clock /\ queue' = v /\ lastAsk' = a
  BY DEF WalkPrune
<1>3. \A j \in 1..Len(queue.lru) :
         queue.lru[j].stamp <= clock /\ queue.lru[j].stamp = a[queue.lru[j].slot]
  <2>1. DOMAIN queue.lru = 1..Len(queue.lru)
    BY <1>1, QueueFacts
  <2> QED BY <2>1 DEF IInv, StampIsLastAsk, StampsPast
<1>4. QueueOK(v)
  BY <1>1, PruneFacts
<1>5. Len(v.lru) = Kept(queue, t, k)
  BY <1>1, PruneFacts
<1>6. Kept(queue, t, k) \in 0..Len(queue.lru)
  BY <1>1, PruneFacts
<1>7. \A j \in 1..Kept(queue, t, k) : v.lru[j] = queue.lru[j]
  BY <1>1, PruneFacts
<1>8. Len(queue.lru) \in Nat
  BY <1>1, QueueFacts
<1>9. Len(v.lru) <= Len(queue.lru) /\ \A j \in 1..Len(v.lru) : v.lru[j] = queue.lru[j]
  BY <1>5, <1>6, <1>7, <1>8
<1>10. \A r \in Slots(queue) \ Slots(v) :
          \E j \in 1..Len(queue.lru) : queue.lru[j].slot = r /\ queue.lru[j].stamp < t - k.delta
  BY <1>1, PruneDropsStale
<1>11. \A r \in Slot : a[r] # Never /\ (\A kk \in Setting : a[r] >= clock - kk.delta)
                          => r \in Slots(queue)
  <2> SUFFICES ASSUME NEW r \in Slot, a[r] # Never,
                      \A kk \in Setting : a[r] >= clock - kk.delta
               PROVE  r \in Slots(queue)
    OBVIOUS
  <2>1. queue.active[r]
    BY Zenon DEF IInv, NoFreshClientForgotten
  <2>2. queue.active[r] <=> r \in Slots(queue)
    BY <1>1, QueueFacts
  <2> QED BY <2>1, <2>2, Zenon
<1> HIDE DEF v, a
<1> QED BY <1>1, <1>2, <1>3, <1>4, <1>9, <1>10, <1>11, PrefixIInv

(* Every step preserves the invariant, by cases on the actions.            *)
LEMMA NextIInv == ASSUME IInv, [Next]_vars PROVE IInv'
<1>1. CASE Tick
  BY <1>1, TickIInv
<1>2. ASSUME NEW s \in Slot, NEW t \in Stamps, NEW k \in Setting, Reference(s, t, k)
      PROVE  IInv'
  BY <1>2, ReferenceIInv
<1>3. ASSUME NEW t \in Stamps, NEW k \in Setting, WalkPrune(t, k) PROVE IInv'
  BY <1>3, WalkPruneIInv
<1>4. CASE UNCHANGED vars
  BY <1>4 DEF vars, IInv, TypeOK, QueueConsistent, StampIsLastAsk, SortedWithinSkew,
              NoFreshClientForgotten, StampsPast, Stamps
<1> QED BY <1>1, <1>2, <1>3, <1>4 DEF Next

-----------------------------------------------------------------------------
(* The invariant holds of every behaviour of the queue.                    *)
THEOREM Invariance == Spec => []IInv
<1>1. Init => IInv
  BY InitIInv
<1>2. IInv /\ [Next]_vars => IInv'
  BY NextIInv
<1> QED BY <1>1, <1>2, PTL DEF Spec

(* The queue, the clock and the history keep their types.                  *)
THEOREM TypeCorrect == Spec => []TypeOK
<1>1. IInv => TypeOK
  BY DEF IInv
<1> QED BY <1>1, Invariance, PTL

(* referencePage and prune never let the list, the active flags and the    *)
(* counter disagree, so table_add's answer is the number of listed clients.*)
THEOREM Consistency == Spec => []QueueConsistent
<1>1. IInv => QueueConsistent
  BY DEF IInv
<1> QED BY <1>1, Invariance, PTL

(* The stamp prune compares with delta is that of the client's last        *)
(* reference, whatever moves and prunes came between.                      *)
THEOREM StampsExact == Spec => []StampIsLastAsk
<1>1. IInv => StampIsLastAsk
  BY DEF IInv
<1> QED BY <1>1, Invariance, PTL

(* Although cores take the lock in another order than they read the clock, *)
(* the list is sorted by time up to the longest wait for the lock.         *)
THEOREM Sortedness == Spec => []SortedWithinSkew
<1>1. IInv => SortedWithinSkew
  BY DEF IInv
<1> QED BY <1>1, Invariance, PTL

(* No client that asked within the delta of every interface is pruned.     *)
THEOREM FreshKept == Spec => []NoFreshClientForgotten
<1>1. IInv => NoFreshClientForgotten
  BY DEF IInv
<1> QED BY <1>1, Invariance, PTL

(* The list referencePage leaves, when it leaves more than alpha clients:  *)
(* it was pruned, the last entry is not stale, and no other entry is more  *)
(* than the skew older than the last.                                      *)
LEMMA SettledFresh ==
    ASSUME IInv, NEW s \in Slot, NEW t \in Stamps, NEW k \in Setting, Reference(s, t, k),
           queue'.n_entry > k.alpha, NEW i \in DOMAIN queue'.lru
    PROVE  queue'.lru[i].stamp >= t - k.delta - MaxSkew
<1> DEFINE w == Touch(queue, s, t)
           v == Prune(w, t, k)
           n == Kept(w, t, k)
<1>1. t \in Nat /\ MaxSkew \in Nat /\ k.alpha \in Nat /\ k.delta \in Nat /\ QueueOK(queue)
  BY StampsFacts, LruAssumption, QueueAssumption DEF IInv, QueueConsistent
<1>2. QueueOK(w)
  BY <1>1, TouchFacts
<1>3. OrderedWithin(w, MaxSkew)
  BY TouchedList
<1>4. queue' = Settle(w, t, k)
  BY DEF Reference, ReferencePage
<1>5. queue' = v
  <2>1. w.n_entry <= k.alpha => Settle(w, t, k) = w
    BY <1>1, <1>2, SettleFacts
  <2>2. w.n_entry > k.alpha => Settle(w, t, k) = Prune(w, t, k)
    BY <1>1, <1>2, SettleFacts
  <2>3. w.n_entry \in Nat
    BY <1>2, QueueFacts
  <2> HIDE DEF w
  <2>4. w.n_entry > k.alpha
    BY <1>1, <1>4, <2>1, <2>3
  <2> QED BY <1>4, <2>2, <2>4
<1>6. QueueOK(v)
  BY <1>1, <1>2, PruneFacts
<1>7. Len(v.lru) = n
  BY <1>1, <1>2, PruneFacts
<1>8. n \in 0..Len(w.lru) /\ (n # 0 => ~ Stale(w, n, t, k))
  <2>1. w \in Queue
    BY <1>2 DEF QueueOK
  <2> QED BY <1>1, <2>1, KeptFacts
<1>9. \A j \in 1..n : v.lru[j] = w.lru[j]
  BY <1>1, <1>2, PruneFacts
<1>10. DOMAIN v.lru = 1..Len(v.lru)
  BY <1>6, QueueFacts
<1>11. Len(w.lru) \in Nat /\ DOMAIN w.lru = 1..Len(w.lru)
  BY <1>2, QueueFacts
<1>12. \A j \in 1..Len(w.lru) : w.lru[j].stamp \in Nat
  BY <1>2, QueueFacts
<1> HIDE DEF w, v, n
<1>13. i \in 1..n
  BY <1>5, <1>7, <1>10
<1>14. n \in 1..Len(w.lru) /\ i \in 1..Len(w.lru)
  BY <1>8, <1>11, <1>13
<1>15. w.lru[n].stamp >= t - k.delta
  <2>1. ~ (w.lru[n].stamp < t - k.delta)
    BY <1>8, <1>14 DEF Stale
  <2>2. w.lru[n].stamp \in Nat
    BY <1>12, <1>14
  <2> QED BY <1>1, <2>1, <2>2
<1>16. w.lru[i].stamp >= w.lru[n].stamp - MaxSkew
  <2>1. w.lru[i].stamp \in Nat /\ w.lru[n].stamp \in Nat
    BY <1>12, <1>14
  <2>2. CASE i = n
    BY <1>1, <2>1, <2>2
  <2>3. CASE i # n
    <3>1. i < n
      BY <1>8, <1>11, <1>13, <2>3
    <3> QED BY <1>3, <1>11, <1>14, <3>1 DEF OrderedWithin
  <2> QED BY <2>2, <2>3
<1>17. queue'.lru[i] = w.lru[i]
  BY <1>5, <1>9, <1>13
<1>18. w.lru[i].stamp >= t - k.delta - MaxSkew
  <2>1. w.lru[i].stamp \in Nat /\ w.lru[n].stamp \in Nat
    BY <1>12, <1>14
  <2>2. t \in Nat /\ MaxSkew \in Nat /\ k.delta \in Nat
    BY <1>1
  <2> QED BY ONLY <1>15, <1>16, <2>1, <2>2
<1> QED BY <1>17, <1>18, Zenon

(* Above alpha every counted client asked within delta and the skew of the *)
(* packet that is being handled.                                           *)
THEOREM AboveAlphaFresh == Spec => FreshAboveAlpha
<1>1. IInv => \A s \in Slot, t \in Stamps, k \in Setting :
                Reference(s, t, k) /\ queue'.n_entry > k.alpha =>
                    \A i \in DOMAIN queue'.lru :
                        queue'.lru[i].stamp >= t - k.delta - MaxSkew
  BY SettledFresh
<1> QED BY <1>1, Invariance, PTL DEF FreshAboveAlpha

(* The client just put at the head with stamp t survives the pruning at t. *)
LEMMA HeadKept ==
    ASSUME IInv, NEW s \in Slot, NEW t \in Stamps, NEW k \in Setting, Reference(s, t, k)
    PROVE  queue'.active[s] /\ ~ TailIsNull(queue')
<1> DEFINE w == Touch(queue, s, t)
           v == Settle(w, t, k)
<1>1. t \in Nat /\ k.delta \in Nat /\ QueueOK(queue)
  BY StampsFacts, QueueAssumption DEF IInv, QueueConsistent
<1>2. QueueOK(w)
  BY <1>1, TouchFacts
<1>3. Len(w.lru) >= 1
  BY <1>1, TouchFacts
<1>4. w.lru[1] = [slot |-> s, stamp |-> t]
  BY <1>1, TouchFacts
<1>5. queue' = v
  BY DEF Reference, ReferencePage
<1>6. QueueOK(v)
  BY <1>1, <1>2, SettleFacts
<1>7. \A r \in Slots(w) \ Slots(v) :
         \E j \in 1..Len(w.lru) : w.lru[j].slot = r /\ w.lru[j].stamp < t - k.delta
  BY <1>1, <1>2, SettleFacts
<1>8. /\ Len(w.lru) \in Nat
      /\ Slots(w) = {w.lru[j].slot : j \in 1..Len(w.lru)}
      /\ \A i, j \in 1..Len(w.lru) : w.lru[i].slot = w.lru[j].slot => i = j
  <2>1. Len(w.lru) \in Nat /\ Slots(w) = {w.lru[j].slot : j \in 1..Len(w.lru)}
    BY <1>2, QueueFacts
  <2>2. \A i, j \in 1..Len(w.lru) : w.lru[i].slot = w.lru[j].slot => i = j
    BY <1>2, QueueFacts
  <2> QED BY <2>1, <2>2
<1>9. Slots(v) = {v.lru[j].slot : j \in DOMAIN v.lru}
  BY DEF Slots
<1>10. v.active[s] <=> s \in Slots(v)
  BY <1>6, QueueFacts
<1> HIDE DEF w, v
<1>11. 1 \in 1..Len(w.lru) /\ w.lru[1].slot = s /\ w.lru[1].stamp = t
  BY <1>3, <1>4, <1>8
<1>12. s \in Slots(v)
  <2>1. s \in Slots(w)
    BY <1>8, <1>11
  <2> SUFFICES ASSUME s \notin Slots(v) PROVE FALSE
    OBVIOUS
  <2>2. PICK j \in 1..Len(w.lru) : w.lru[j].slot = s /\ w.lru[j].stamp < t - k.delta
    BY <1>7, <2>1
  <2>3. j = 1
    BY <1>8, <1>11, <2>2
  <2> QED BY <1>1, <1>11, <2>2, <2>3
<1>13. v.lru # << >>
  BY <1>9, <1>12
<1>14. queue'.active[s]
  BY <1>5, <1>10, <1>12, Zenon
<1>15. ~ TailIsNull(queue')
  BY <1>5, <1>13 DEF TailIsNull
<1> QED BY <1>14, <1>15, Zenon

(* referencePage never empties its queue: the read of tail->timestamp that *)
(* follows its pruning is defined.                                         *)
THEOREM ClientKept == Spec => ReferenceKeepsItsClient
<1>1. IInv => \A s \in Slot, t \in Stamps, k \in Setting :
                Reference(s, t, k) => queue'.active[s] /\ ~ TailIsNull(queue')
  <2> SUFFICES ASSUME IInv, NEW s \in Slot, NEW t \in Stamps, NEW k \in Setting,
                      Reference(s, t, k)
               PROVE  queue'.active[s] /\ ~ TailIsNull(queue')
    BY Zenon
  <2> QED BY HeadKept
<1> QED BY <1>1, Invariance, PTL DEF ReferenceKeepsItsClient

=============================================================================
