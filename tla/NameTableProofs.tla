-------------------------- MODULE NameTableProofs ---------------------------
(***************************************************************************)
(* The name table for any number of cores, names, users and buckets, any   *)
(* hash functions, alpha, delta and skew, and with or without failing      *)
(* mallocs: the mutex of a bucket belongs to one core, whose curr_name     *)
(* therefore stays in the chain, and the chain, its counter and the queues *)
(* of its nodes stay consistent. That the queues do is QueueProofs.        *)
(*                                                                         *)
(* The second part shows, for finitely many users, that the name table     *)
(* implements AlphaAnon: a call of table_add is one Ask, at the moment it  *)
(* answers, and the number it returns never exceeds the users that have    *)
(* asked for the name. What carries this is that each client listed for a  *)
(* name asked for it, and that table_add reaches the node of its own name. *)
(*                                                                         *)
(* The third part shows that no asker is forgotten in a bucket with one    *)
(* name: cleaning and pruning take only what is stale.                     *)
(***************************************************************************)
EXTENDS NameTable, QueueProofs, SequenceTheorems

(* Where a core holds the mutex, and where it uses curr_name.              *)
Held    == {"walk", "found", "missing", "unlock"}
Walking == {"walk", "found", "missing"}

(* A core past the lock holds its bucket's mutex.                          *)
LocksInv ==
    \A c \in Core : /\ pc[c] # "idle" => call[c] \in Call
                    /\ pc[c] \in Held => lock[MyBucket(c)] = c

CursorOK(c) ==
    \/ cur[c] \in 1 .. Len(MyChain(c))
    \/ MyChain(c) = << >> /\ pc[c] # "found"

CursorsInv == \A c \in Core : pc[c] \in Walking => CursorOK(c)

(* The nodes of a chain s have consistent queues, none of them empty       *)
(* unless the process dies (dead).                                         *)
NodesOK(s, dead) ==
    \A j \in 1 .. Len(s) : QueueOK(s[j].queue) /\ (dead \/ s[j].queue.n_entry > 0)

CountOK(s, n) == n >= Len(s) /\ (n = 0 <=> s = << >>)

ChainsInv == \A b \in Bucket : NodesOK(chain[b], segv) /\ CountOK(chain[b], number[b])

IInv == TypeOK /\ LocksInv /\ CursorsInv /\ ChainsInv

-----------------------------------------------------------------------------
(* What a core's call gives it.                                            *)
LEMMA CallFacts ==
    ASSUME TypeOK, LocksInv, NEW c \in Core, pc[c] # "idle"
    PROVE  /\ call[c] \in Call /\ call[c].name \in Name /\ call[c].user \in User
           /\ call[c].time \in Nat /\ call[c].k \in Setting
           /\ MyBucket(c) \in Bucket /\ Slot0(c) \in Slot
           /\ MyChain(c) \in Seq(NamesNode) /\ Len(MyChain(c)) \in Nat
           /\ DOMAIN MyChain(c) = 1 .. Len(MyChain(c))
<1>1. call[c] \in Call
  BY DEF LocksInv
<1>2. /\ call[c].name \in Name /\ call[c].user \in User
      /\ call[c].time \in Nat /\ call[c].k \in Setting
  BY <1>1 DEF Call
<1>3. MyBucket(c) \in Bucket /\ Slot0(c) \in Slot
  BY <1>2, TableAssumption DEF MyBucket, Slot0
<1>4. MyChain(c) \in Seq(NamesNode)
  BY <1>3 DEF TypeOK, MyChain
<1> QED BY <1>1, <1>2, <1>3, <1>4, LenProperties

(* Mutual exclusion: two cores past the lock are in different buckets.     *)
LEMMA Exclusion ==
    ASSUME LocksInv, NEW c \in Core, NEW d \in Core, c # d, pc[c] \in Held, pc[d] \in Held
    PROVE  MyBucket(c) # MyBucket(d)
BY DEF LocksInv

(* In the loop the chain is not empty, so curr_name is a node of it.       *)
LEMMA InLoopFacts ==
    ASSUME IInv, NEW c \in Core, InLoop(c)
    PROVE  /\ cur[c] \in 1 .. Len(MyChain(c)) /\ MyNode(c) \in NamesNode
           /\ QueueOK(MyNode(c).queue) /\ MyNode(c).queue.n_entry > 0
           /\ number[MyBucket(c)] \in Int /\ i[c] \in Nat /\ cur[c] \in Nat
           /\ number[MyBucket(c)] >= Len(MyChain(c))
<1>1. pc[c] = "walk" /\ i[c] < number[MyBucket(c)] /\ ~ segv
  BY DEF InLoop
<1>2. /\ MyBucket(c) \in Bucket /\ MyChain(c) \in Seq(NamesNode) /\ Len(MyChain(c)) \in Nat
  BY <1>1, CallFacts DEF IInv
<1>3. number[MyBucket(c)] \in Int /\ i[c] \in Nat /\ cur[c] \in Nat
  BY <1>2 DEF IInv, TypeOK
<1>4. CountOK(MyChain(c), number[MyBucket(c)]) /\ NodesOK(MyChain(c), segv)
  BY <1>2 DEF IInv, ChainsInv, MyChain
<1>5. MyChain(c) # << >>
  BY <1>1, <1>3, <1>4 DEF CountOK
<1>6. cur[c] \in 1 .. Len(MyChain(c))
  BY <1>1, <1>5 DEF IInv, CursorsInv, CursorOK, Walking
<1>7. MyNode(c) \in NamesNode
  BY <1>2, <1>6, ElementOfSeq DEF MyNode
<1>8. QueueOK(MyNode(c).queue) /\ MyNode(c).queue.n_entry > 0
  BY <1>1, <1>4, <1>6 DEF NodesOK, MyNode
<1> QED BY <1>3, <1>4, <1>6, <1>7, <1>8 DEF CountOK

-----------------------------------------------------------------------------
(* The queues.                                                             *)

(* An empty queue is well formed.                                          *)
LEMMA EmptyQueueOK == QueueOK(EmptyQueue)
<1>1. << >> \in Seq(Entry) /\ Len(<< >>) = 0 /\ 1 .. Len(<< >>) = {}
  OBVIOUS
<1>2. [s \in Slot |-> FALSE] \in [Slot -> BOOLEAN]
  OBVIOUS
<1>3. EmptyQueue \in Queue
  BY <1>1, <1>2 DEF EmptyQueue, Queue
<1>4. EmptyQueue.lru = << >> /\ EmptyQueue.active = [s \in Slot |-> FALSE] /\ EmptyQueue.n_entry = 0
  BY DEF EmptyQueue
<1>5. DOMAIN EmptyQueue.lru = {} /\ Slots(EmptyQueue) = {}
  BY <1>4 DEF Slots
<1>6. \A s \in Slot : EmptyQueue.active[s] <=> s \in Slots(EmptyQueue)
  BY <1>4, <1>5, Zenon
<1> QED BY <1>3, <1>4, <1>5, <1>6, <1>1 DEF QueueOK

(* Whether newlru gets memory or not, referencePage leaves a consistent    *)
(* queue; it is empty only if tail is NULL.                                *)
LEMMA ReferencedOK ==
    ASSUME NEW q, QueueOK(q), NEW c \in Core, Slot0(c) \in Slot,
           call[c].time \in Nat, call[c].k \in Setting,
           NEW r \in Referenced(c, q)
    PROVE  QueueOK(r) /\ r \in Queue /\ r.n_entry \in Int /\ (TailIsNull(r) \/ r.n_entry > 0)
<1>1. PICK w : QueueOK(w) /\ r = Settle(w, call[c].time, call[c].k)
  <2>1. CASE r = ReferencePage(q, Slot0(c), call[c].time, call[c].k)
    <3>1. QueueOK(Touch(q, Slot0(c), call[c].time))
      BY TouchFacts
    <3> QED BY <2>1, <3>1 DEF ReferencePage
  <2>2. CASE r = ReferencePageNoMemory(q, Slot0(c), call[c].time, call[c].k)
    <3>1. CASE q.active[Slot0(c)]
      <4>1. Slot0(c) \in Slots(q)
        BY <3>1 DEF QueueOK
      <4>2. QueueOK(MoveToFront(q, Slot0(c), call[c].time))
        BY <4>1, MoveToFrontOK
      <4> QED BY <2>2, <3>1, <4>2 DEF ReferencePageNoMemory
    <3>2. CASE ~ q.active[Slot0(c)]
      BY <2>2, <3>2 DEF ReferencePageNoMemory
    <3> QED BY <3>1, <3>2
  <2> QED BY <2>1, <2>2 DEF Referenced
<1>2. QueueOK(r)
  BY <1>1, SettleFacts
<1>3. r.lru \in Seq(Entry) /\ r.n_entry = Len(r.lru) /\ Len(r.lru) \in Nat /\ r \in Queue
  BY <1>2, QueueFacts
<1> QED BY <1>2, <1>3, EmptySeq DEF TailIsNull

(* clean_queue leaves a well formed queue.                                 *)
LEMMA CleanedOK ==
    ASSUME NEW c \in Core, QueueOK(MyNode(c).queue), call[c].time \in Nat, call[c].k \in Setting
    PROVE  QueueOK(Cleaned(c)) /\ Cleaned(c) \in Queue
<1>1. QueueOK(Prune(MyNode(c).queue, call[c].time, call[c].k))
  BY PruneFacts
<1>2. QueueOK(Cleaned(c))
  BY <1>1 DEF Cleaned
<1> QED BY <1>2 DEF QueueOK

-----------------------------------------------------------------------------
(* The chains.                                                             *)

(* A node's queue is replaced.                                             *)
LEMMA ReplacedAt ==
    ASSUME NEW s \in Seq(NamesNode), NEW p \in 1 .. Len(s), NEW q \in Queue
    PROVE  /\ [s EXCEPT ![p].queue = q] \in Seq(NamesNode)
           /\ Len([s EXCEPT ![p].queue = q]) = Len(s)
           /\ \A j \in 1 .. Len(s) :
                [s EXCEPT ![p].queue = q][j] = IF j = p THEN [name |-> s[p].name, queue |-> q] ELSE s[j]
<1> DEFINE v == [s EXCEPT ![p].queue = q]
           e == [name |-> s[p].name, queue |-> q]
<1>1. Len(s) \in Nat /\ DOMAIN s = 1 .. Len(s) /\ s[p] \in NamesNode
  BY LenProperties, ElementOfSeq
<1>2. s[p] = [name |-> s[p].name, queue |-> s[p].queue] /\ s[p].name \in Name
  BY <1>1 DEF NamesNode
<1>3. [s[p] EXCEPT !.queue = q] = e
  BY <1>2
<1>4. v = [s EXCEPT ![p] = e]
  BY <1>1, <1>3
<1>5. e \in NamesNode
  BY <1>2 DEF NamesNode
<1> HIDE DEF v, e
<1>6. v \in Seq(NamesNode) /\ Len(v) = Len(s)
  BY <1>1, <1>4, <1>5, ExceptSeq
<1>7. \A j \in 1 .. Len(s) : v[j] = IF j = p THEN e ELSE s[j]
  BY <1>1, <1>4
<1> QED BY <1>6, <1>7 DEF v, e

(* A node's queue may be replaced by a well formed one; an empty one only  *)
(* in a node that is about to go.                                          *)
LEMMA QueueReplaced ==
    ASSUME NEW s \in Seq(NamesNode), NEW p \in 1 .. Len(s), NEW q \in Queue, QueueOK(q),
           NEW dead \in BOOLEAN, NodesOK(s, FALSE), dead \/ q.n_entry > 0
    PROVE  NodesOK([s EXCEPT ![p].queue = q], dead)
<1> DEFINE v == [s EXCEPT ![p].queue = q]
<1>1. Len(v) = Len(s)
  BY ReplacedAt
<1>2. \A j \in 1 .. Len(s) : v[j] = IF j = p THEN [name |-> s[p].name, queue |-> q] ELSE s[j]
  BY ReplacedAt
<1> HIDE DEF v
<1>3. NodesOK(v, dead)
  BY <1>1, <1>2 DEF NodesOK
<1> QED BY <1>3 DEF v

(* A node is unlinked.                                                     *)
LEMMA NodeRemoved ==
    ASSUME NEW s \in Seq(NamesNode), NEW p \in 1 .. Len(s), NodesOK(s, FALSE)
    PROVE  LET v == SubSeq(s, 1, p - 1) \o SubSeq(s, p + 1, Len(s))
           IN  /\ v \in Seq(NamesNode) /\ Len(v) = Len(s) - 1 /\ NodesOK(v, FALSE)
               /\ \A j \in 1 .. Len(v) : \E l \in 1 .. Len(s) : v[j] = s[l]
<1> DEFINE x == SubSeq(s, 1, p - 1)
           y == SubSeq(s, p + 1, Len(s))
           v == x \o y
<1>1. Len(s) \in Nat /\ p \in Nat /\ p >= 1 /\ p <= Len(s)
  BY LenProperties
<1>2. x \in Seq(NamesNode) /\ Len(x) = p - 1 /\ \A j \in 1 .. p - 1 : x[j] = s[j]
  BY <1>1
<1>3. y \in Seq(NamesNode) /\ Len(y) = Len(s) - p /\ \A j \in 1 .. Len(s) - p : y[j] = s[p + j]
  BY <1>1
<1> HIDE DEF x, y
<1>4. v \in Seq(NamesNode) /\ Len(v) = Len(s) - 1
  <2>1. v \in Seq(NamesNode) /\ Len(v) = Len(x) + Len(y)
    BY <1>2, <1>3, ConcatProperties
  <2> QED BY <1>1, <1>2, <1>3, <2>1
<1>5. \A j \in 1 .. Len(s) - 1 : v[j] = IF j <= p - 1 THEN s[j] ELSE s[j + 1]
  <2>1. \A j \in 1 .. Len(x) + Len(y) : v[j] = IF j <= Len(x) THEN x[j] ELSE y[j - Len(x)]
    BY <1>2, <1>3, ConcatProperties, SMTT(60)
  <2> HIDE DEF v
  <2>2. \A j \in 1 .. Len(s) - 1 : v[j] = IF j <= p - 1 THEN x[j] ELSE y[j - (p - 1)]
    BY <1>1, <1>2, <1>3, <2>1
  <2> QED BY <1>1, <1>2, <1>3, <2>2
<1> HIDE DEF v
<1>6. NodesOK(v, FALSE)
  BY <1>1, <1>4, <1>5 DEF NodesOK
<1>7. \A j \in 1 .. Len(v) : \E l \in 1 .. Len(s) : v[j] = s[l]
  BY <1>1, <1>4, <1>5, SMTT(60)
<1> QED BY <1>4, <1>6, <1>7 DEF v, x, y

(* A node goes behind the first p.                                         *)
LEMMA AppendedAt ==
    ASSUME NEW s \in Seq(NamesNode), NEW p \in 0 .. Len(s), NEW e \in NamesNode
    PROVE  /\ Append(SubSeq(s, 1, p), e) \in Seq(NamesNode)
           /\ Len(Append(SubSeq(s, 1, p), e)) = p + 1
           /\ Append(SubSeq(s, 1, p), e)[p + 1] = e
           /\ \A j \in 1 .. p : Append(SubSeq(s, 1, p), e)[j] = s[j]
<1> DEFINE x == SubSeq(s, 1, p)
<1>1. Len(s) \in Nat /\ p \in Nat /\ p <= Len(s)
  BY LenProperties
<1>2. x \in Seq(NamesNode) /\ Len(x) = p /\ \A j \in 1 .. p : x[j] = s[j]
  BY <1>1
<1> HIDE DEF x
<1>3. Append(x, e) \in Seq(NamesNode) /\ Len(Append(x, e)) = p + 1 /\ Append(x, e)[p + 1] = e
  BY <1>1, <1>2, AppendProperties
<1>4. \A j \in 1 .. p : Append(x, e)[j] = s[j]
  BY <1>1, <1>2, AppendProperties
<1> QED BY <1>3, <1>4 DEF x

(* A node may be put behind the others of its chain.                       *)
LEMMA NodeAppended ==
    ASSUME NEW s \in Seq(NamesNode), NEW p \in 0 .. Len(s), NodesOK(s, FALSE),
           NEW e \in NamesNode, QueueOK(e.queue),
           NEW dead \in BOOLEAN, dead \/ e.queue.n_entry > 0
    PROVE  NodesOK(Append(SubSeq(s, 1, p), e), dead)
<1> DEFINE v == Append(SubSeq(s, 1, p), e)
<1>1. Len(s) \in Nat /\ p \in Nat /\ p <= Len(s)
  BY LenProperties
<1>2. Len(v) = p + 1 /\ v[p + 1] = e /\ \A j \in 1 .. p : v[j] = s[j]
  BY AppendedAt
<1> HIDE DEF v
<1>3. NodesOK(v, dead)
  BY <1>1, <1>2 DEF NodesOK
<1> QED BY <1>3 DEF v

-----------------------------------------------------------------------------
(* A core with the mutex goes on; the mutexes and the calls stay.          *)
LEMMA LocksStay ==
    ASSUME LocksInv, NEW c \in Core, pc[c] \in Held, UNCHANGED <<call, lock>>,
           \A d \in Core : d # c => pc'[d] = pc[d]
    PROVE  LocksInv'
<1> SUFFICES ASSUME NEW d \in Core
             PROVE  /\ pc'[d] # "idle" => call'[d] \in Call
                    /\ pc'[d] \in Held => lock'[MyBucket(d)'] = d
  BY DEF LocksInv
<1>1. MyBucket(d)' = MyBucket(d)
  BY DEF MyBucket
<1>2. CASE d = c
  BY <1>1, <1>2 DEF LocksInv, Held
<1>3. CASE d # c
  BY <1>1, <1>3 DEF LocksInv
<1> QED BY <1>2, <1>3

(* The other cores' cursors stay in their chains: they are past the lock   *)
(* in other buckets, or do not use their cursors.                          *)
LEMMA OthersStay ==
    ASSUME LocksInv, CursorsInv, NEW c \in Core, pc[c] \in Held, UNCHANGED call,
           \A b \in Bucket : b # MyBucket(c) => chain'[b] = chain[b], TypeOK,
           NEW d \in Core, d # c, pc'[d] = pc[d], cur'[d] = cur[d], pc'[d] \in Walking
    PROVE  CursorOK(d)'
<1>1. MyBucket(d) # MyBucket(c) /\ MyBucket(d) \in Bucket
  <2>1. pc[d] \in Held /\ pc[d] # "idle"
    BY DEF Walking, Held
  <2> QED BY <2>1, Exclusion, CallFacts
<1>2. MyBucket(d)' = MyBucket(d) /\ MyChain(d)' = MyChain(d)
  BY <1>1 DEF MyBucket, MyChain
<1> QED BY <1>2 DEF CursorsInv, CursorOK

(* Core c's chain becomes s.                                               *)
LEMMA ChainChanged ==
    ASSUME TypeOK, ChainsInv, ~ segv, NEW b \in Bucket, NEW s \in Seq(NamesNode),
           chain' = [chain EXCEPT ![b] = s], segv' \in BOOLEAN, NodesOK(s, segv'),
           CountOK(s, number'[b]), \A a \in Bucket : a # b => number'[a] = number[a]
    PROVE  chain' \in [Bucket -> Seq(NamesNode)] /\ ChainsInv'
<1>1. chain \in [Bucket -> Seq(NamesNode)]
  BY DEF TypeOK
<1>2. chain' \in [Bucket -> Seq(NamesNode)]
  BY <1>1
<1>3. \A a \in Bucket : chain'[a] = IF a = b THEN s ELSE chain[a]
  BY <1>1
<1>4. ASSUME NEW a \in Bucket PROVE NodesOK(chain'[a], segv') /\ CountOK(chain'[a], number'[a])
  <2>1. CASE a = b
    BY <1>3, <2>1
  <2>2. CASE a # b
    <3>1. chain'[a] = chain[a] /\ number'[a] = number[a]
      BY <1>3, <2>2
    <3>2. NodesOK(chain[a], segv) /\ CountOK(chain[a], number[a])
      BY DEF ChainsInv
    <3>3. NodesOK(chain[a], segv')
      BY <3>2 DEF NodesOK
    <3> QED BY <3>1, <3>2, <3>3
  <2> QED BY <2>1, <2>2
<1>5. ChainsInv'
  BY <1>4 DEF ChainsInv
<1> QED BY <1>2, <1>5

(* The table is empty and no core is in a call in the beginning.           *)
LEMMA InitIInv == Init => IInv
<1> SUFFICES ASSUME Init PROVE IInv
  OBVIOUS
<1>1. << >> \in Seq(NamesNode) /\ Len(<< >>) = 0
  OBVIOUS
<1>2. TypeOK
  <2>1. clock \in Nat /\ chain \in [Bucket -> Seq(NamesNode)] /\ number \in [Bucket -> Int]
    BY <1>1 DEF Init
  <2>2. lock \in [Bucket -> Core \cup {None}] /\ call \in [Core -> Call \cup {None}]
    BY DEF Init
  <2>3. pc \in [Core -> Labels] /\ segv \in BOOLEAN
    BY DEF Init, Labels
  <2>4. cur \in [Core -> Nat] /\ i \in [Core -> Nat] /\ ret \in [Core -> Int]
    BY DEF Init
  <2>5. asked \in [Name -> [User -> Nat \cup {Never}]]
    BY DEF Init
  <2> QED BY <2>1, <2>2, <2>3, <2>4, <2>5 DEF TypeOK
<1>3. LocksInv /\ CursorsInv
  BY DEF Init, LocksInv, CursorsInv, Held, Walking
<1>4. ChainsInv
  BY <1>1 DEF Init, ChainsInv, NodesOK, CountOK
<1> QED BY <1>2, <1>3, <1>4 DEF IInv

-----------------------------------------------------------------------------
(* The steps without the mutex.                                            *)

(* Time passes within MaxSkew of every call.                               *)
LEMMA TickKeeps ==
    ASSUME IInv, Tick
    PROVE  IInv'
<1>1. TypeOK'
  BY DEF IInv, TypeOK, Tick, table, walk
<1>2. LocksInv' /\ CursorsInv' /\ ChainsInv'
  BY DEF IInv, Tick, table, walk, LocksInv, CursorsInv, ChainsInv, CursorOK, MyBucket, MyChain
<1> QED BY <1>1, <1>2 DEF IInv

(* A call starts outside the lock.                                         *)
LEMMA ArriveKeeps ==
    ASSUME IInv, NEW c \in Core, Arrive(c)
    PROVE  IInv'
<1>1. PICK x \in Call : call' = [call EXCEPT ![c] = x]
  <2>1. PICK n \in Name, u \in User, k \in Setting, clean \in BOOLEAN :
          call' = [call EXCEPT ![c] =
                     [name |-> n, user |-> u, time |-> clock, k |-> k, clean |-> clean]]
    BY DEF Arrive
  <2>2. [name |-> n, user |-> u, time |-> clock, k |-> k, clean |-> clean] \in Call
    BY DEF Call, IInv, TypeOK
  <2> QED BY <2>1, <2>2
<1>2. /\ pc' = [pc EXCEPT ![c] = "lock"]
      /\ UNCHANGED <<clock, chain, number, lock, cur, i, ret, asked, segv>>
  BY DEF Arrive, table, walk
<1>3. TypeOK'
  BY <1>1, <1>2 DEF IInv, TypeOK, Labels
<1>4. /\ pc \in [Core -> Labels] /\ call \in [Core -> Call \cup {None}]
  BY DEF IInv, TypeOK
<1>5. pc'[c] = "lock" /\ call'[c] \in Call
  BY <1>1, <1>2, <1>4
<1>6. \A d \in Core : d # c => pc'[d] = pc[d] /\ MyBucket(d)' = MyBucket(d) /\ call'[d] = call[d]
  BY <1>1, <1>2, <1>4 DEF MyBucket
<1>7. LocksInv'
  BY <1>2, <1>5, <1>6 DEF IInv, LocksInv, Held
<1>8. CursorsInv'
  <2> SUFFICES ASSUME NEW d \in Core, pc'[d] \in Walking PROVE CursorOK(d)'
    BY DEF CursorsInv
  <2>1. d # c
    BY <1>5 DEF Walking
  <2>2. MyChain(d)' = MyChain(d) /\ cur'[d] = cur[d] /\ pc'[d] = pc[d]
    BY <1>2, <1>6, <2>1 DEF MyChain
  <2> QED BY <2>2 DEF IInv, CursorsInv, CursorOK
<1>9. ChainsInv'
  BY <1>2 DEF IInv, ChainsInv
<1> QED BY <1>3, <1>7, <1>8, <1>9 DEF IInv

(* The lock of a chain is taken by the core that finds it free.            *)
LEMMA AcquireKeeps ==
    ASSUME IInv, NEW c \in Core, Acquire(c)
    PROVE  IInv'
<1>1. /\ pc[c] = "lock" /\ lock[MyBucket(c)] = None
      /\ lock' = [lock EXCEPT ![MyBucket(c)] = c]
      /\ pc' = [pc EXCEPT ![c] = "walk"]
      /\ cur' = [cur EXCEPT ![c] = 1] /\ i' = [i EXCEPT ![c] = 0]
      /\ UNCHANGED <<clock, chain, number, call, ret, asked, segv>>
  BY DEF Acquire, table
<1>2. TypeOK'
  BY <1>1 DEF IInv, TypeOK, Labels
<1>3. /\ MyBucket(c) \in Bucket /\ Len(MyChain(c)) \in Nat /\ MyChain(c) \in Seq(NamesNode)
      /\ call[c] \in Call
  BY <1>1, CallFacts DEF IInv
<1>4. /\ pc \in [Core -> Labels] /\ lock \in [Bucket -> Core \cup {None}] /\ cur \in [Core -> Nat]
  BY DEF IInv, TypeOK
<1>5. \A d \in Core : MyBucket(d)' = MyBucket(d) /\ MyChain(d)' = MyChain(d)
  BY <1>1 DEF MyBucket, MyChain
<1>6. LocksInv'
  <2> SUFFICES ASSUME NEW d \in Core
               PROVE  /\ pc'[d] # "idle" => call'[d] \in Call
                      /\ pc'[d] \in Held => lock'[MyBucket(d)'] = d
    BY DEF LocksInv
  <2>1. CASE d = c
    BY <1>1, <1>3, <1>4, <1>5, <2>1
  <2>2. CASE d # c
    <3>1. pc'[d] = pc[d] /\ call'[d] = call[d]
      BY <1>1, <1>4, <2>2
    <3>2. ASSUME pc[d] \in Held PROVE lock'[MyBucket(d)] = d
      <4>1. lock[MyBucket(d)] = d /\ d # None
        BY <3>2, TableAssumption DEF IInv, LocksInv
      <4>2. MyBucket(d) \in Bucket
        BY <3>2, CallFacts DEF IInv, Held
      <4> QED BY <1>1, <1>4, <4>1, <4>2
    <3> QED BY <1>5, <3>1, <3>2 DEF IInv, LocksInv
  <2> QED BY <2>1, <2>2
<1>7. CursorsInv'
  <2> SUFFICES ASSUME NEW d \in Core, pc'[d] \in Walking PROVE CursorOK(d)'
    BY DEF CursorsInv
  <2>1. CASE d = c
    <3>1. cur'[d] = 1 /\ pc'[d] = "walk"
      BY <1>1, <1>4, <2>1
    <3>2. MyChain(d) = << >> \/ 1 \in 1 .. Len(MyChain(d))
      BY <1>3, <2>1, EmptySeq
    <3> QED BY <1>5, <3>1, <3>2 DEF CursorOK
  <2>2. CASE d # c
    <3>1. pc'[d] = pc[d] /\ cur'[d] = cur[d]
      BY <1>1, <1>4, <2>2
    <3> QED BY <1>5, <3>1 DEF IInv, CursorsInv, CursorOK
  <2> QED BY <2>1, <2>2
<1>8. ChainsInv'
  BY <1>1 DEF IInv, ChainsInv
<1> QED BY <1>2, <1>6, <1>7, <1>8 DEF IInv

(* The core that gives the lock back leaves a chain of nodes with users.   *)
LEMMA ReleaseKeeps ==
    ASSUME IInv, NEW c \in Core, Release(c)
    PROVE  IInv'
<1>1. /\ pc[c] = "unlock"
      /\ lock' = [lock EXCEPT ![MyBucket(c)] = None]
      /\ pc' = [pc EXCEPT ![c] = "idle"]
      /\ call' = [call EXCEPT ![c] = None]
      /\ cur' = [cur EXCEPT ![c] = 1] /\ i' = [i EXCEPT ![c] = 0] /\ ret' = [ret EXCEPT ![c] = 0]
      /\ UNCHANGED <<clock, chain, number, asked, segv>>
  BY DEF Release, table
<1>2. TypeOK'
  <2>1. /\ clock' \in Nat /\ chain' \in [Bucket -> Seq(NamesNode)] /\ number' \in [Bucket -> Int]
        /\ asked' \in [Name -> [User -> Nat \cup {Never}]] /\ segv' \in BOOLEAN
    BY <1>1 DEF IInv, TypeOK
  <2>2. lock' \in [Bucket -> Core \cup {None}] /\ pc' \in [Core -> Labels]
    BY <1>1 DEF IInv, TypeOK, Labels
  <2>3. call' \in [Core -> Call \cup {None}]
    BY <1>1 DEF IInv, TypeOK
  <2>4. cur' \in [Core -> Nat] /\ i' \in [Core -> Nat] /\ ret' \in [Core -> Int]
    BY <1>1 DEF IInv, TypeOK
  <2> QED BY <2>1, <2>2, <2>3, <2>4 DEF TypeOK
<1>3. /\ pc \in [Core -> Labels] /\ lock \in [Bucket -> Core \cup {None}]
      /\ cur \in [Core -> Nat] /\ call \in [Core -> Call \cup {None}]
  BY DEF IInv, TypeOK
<1>4. pc'[c] = "idle"
  BY <1>1, <1>3
<1>5. ASSUME NEW d \in Core, d # c
      PROVE  /\ pc'[d] = pc[d] /\ call'[d] = call[d] /\ cur'[d] = cur[d]
             /\ MyBucket(d)' = MyBucket(d) /\ MyChain(d)' = MyChain(d)
  BY <1>1, <1>3, <1>5 DEF MyBucket, MyChain
<1>6. LocksInv'
  <2> SUFFICES ASSUME NEW d \in Core
               PROVE  /\ pc'[d] # "idle" => call'[d] \in Call
                      /\ pc'[d] \in Held => lock'[MyBucket(d)'] = d
    BY DEF LocksInv
  <2>1. CASE d = c
    BY <1>4, <2>1 DEF Held
  <2>2. CASE d # c
    <3>1. ASSUME pc[d] \in Held PROVE lock'[MyBucket(d)] = d
      <4>1. MyBucket(d) # MyBucket(c) /\ MyBucket(d) \in Bucket
        BY <1>1, <2>2, <3>1, Exclusion, CallFacts DEF IInv, Held
      <4> QED BY <1>1, <1>3, <3>1, <4>1 DEF IInv, LocksInv
    <3> QED BY <1>5, <2>2, <3>1 DEF IInv, LocksInv
  <2> QED BY <2>1, <2>2
<1>7. CursorsInv'
  <2> SUFFICES ASSUME NEW d \in Core, pc'[d] \in Walking PROVE CursorOK(d)'
    BY DEF CursorsInv
  <2>1. d # c
    BY <1>4 DEF Walking
  <2> QED BY <1>5, <2>1 DEF IInv, CursorsInv, CursorOK
<1>8. ChainsInv'
  BY <1>1 DEF IInv, ChainsInv
<1> QED BY <1>2, <1>6, <1>7, <1>8 DEF IInv

-----------------------------------------------------------------------------
(* The steps with the mutex: the types of what changes, the core's own     *)
(* cursor and its own chain are left to show.                              *)
LEMMA HeldStep ==
    ASSUME IInv, NEW c \in Core, pc[c] \in Held, UNCHANGED <<clock, lock, call>>,
           \A d \in Core : d # c => pc'[d] = pc[d] /\ cur'[d] = cur[d],
           \A b \in Bucket : b # MyBucket(c) => chain'[b] = chain[b],
           pc' \in [Core -> Labels], cur' \in [Core -> Nat], i' \in [Core -> Nat],
           chain' \in [Bucket -> Seq(NamesNode)], number' \in [Bucket -> Int],
           ret' \in [Core -> Int], asked' \in [Name -> [User -> Nat \cup {Never}]],
           segv' \in BOOLEAN,
           ChainsInv', pc'[c] \in Walking => CursorOK(c)'
    PROVE  IInv'
<1>1. TypeOK'
  <2>1. clock' \in Nat
    BY DEF IInv, TypeOK
  <2>2. lock' \in [Bucket -> Core \cup {None}] /\ call' \in [Core -> Call \cup {None}]
    BY DEF IInv, TypeOK
  <2> QED BY <2>1, <2>2 DEF TypeOK
<1>2. LocksInv'
  BY LocksStay DEF IInv
<1>3. CursorsInv'
  <2> SUFFICES ASSUME NEW d \in Core, pc'[d] \in Walking PROVE CursorOK(d)'
    BY DEF CursorsInv
  <2>1. CASE d = c
    BY <2>1
  <2>2. CASE d # c
    BY <2>2, OthersStay DEF IInv
  <2> QED BY <2>1, <2>2
<1> QED BY <1>1, <1>2, <1>3 DEF IInv

(* The types that most steps leave alone.                                  *)
LEMMA RestStays ==
    ASSUME IInv, UNCHANGED <<ret, asked, segv>>
    PROVE  /\ ret' \in [Core -> Int] /\ asked' \in [Name -> [User -> Nat \cup {Never}]]
           /\ segv' \in BOOLEAN
BY DEF IInv, TypeOK

(* A step that moves neither the cursor nor the chain.                     *)
LEMMA LabelStep ==
    ASSUME IInv, NEW c \in Core, pc[c] = "walk", NEW l \in {"found", "missing"},
           pc' = [pc EXCEPT ![c] = l],
           UNCHANGED <<clock, chain, number, lock, call, cur, i, ret, asked, segv>>,
           l = "found" => cur[c] \in 1 .. Len(MyChain(c))
    PROVE  IInv'
<1>1. /\ pc \in [Core -> Labels] /\ cur' \in [Core -> Nat] /\ i' \in [Core -> Nat]
      /\ chain' \in [Bucket -> Seq(NamesNode)] /\ number' \in [Bucket -> Int]
  BY DEF IInv, TypeOK
<1>2. pc' \in [Core -> Labels] /\ pc'[c] = l /\ \A d \in Core : d # c => pc'[d] = pc[d]
  BY <1>1 DEF Labels
<1>3. ChainsInv'
  BY DEF IInv, ChainsInv
<1>4. CursorOK(c)'
  <2>1. MyChain(c)' = MyChain(c)
    BY DEF MyChain, MyBucket
  <2>2. CursorOK(c)
    BY DEF IInv, CursorsInv, Walking
  <2> QED BY <1>2, <2>1, <2>2 DEF CursorOK
<1> QED BY <1>1, <1>2, <1>3, <1>4, RestStays, HeldStep DEF Held

(* Reading a node's name changes nothing.                                  *)
LEMMA MatchKeeps ==
    ASSUME IInv, NEW c \in Core, Match(c)
    PROVE  IInv'
<1>1. InLoop(c) /\ pc[c] = "walk"
  BY DEF Match, InLoop
<1>2. cur[c] \in 1 .. Len(MyChain(c))
  BY <1>1, InLoopFacts
<1>3. /\ pc' = [pc EXCEPT ![c] = "found"]
      /\ UNCHANGED <<clock, chain, number, lock, call, cur, i, ret, asked, segv>>
  BY DEF Match, table, walk
<1> QED BY <1>1, <1>2, <1>3, LabelStep

(* Nor does reaching the end of the chain.                                 *)
LEMMA NotFoundKeeps ==
    ASSUME IInv, NEW c \in Core, EndOfChain(c) \/ LoopExit(c)
    PROVE  IInv'
<1>1. pc[c] = "walk"
  BY DEF EndOfChain, LoopExit, InLoop
<1>2. /\ pc' = [pc EXCEPT ![c] = "missing"]
      /\ UNCHANGED <<clock, chain, number, lock, call, cur, i, ret, asked, segv>>
  BY DEF EndOfChain, LoopExit, table, walk
<1> QED BY <1>1, <1>2, LabelStep

(* Going on, the core stays within the chain it has locked.                *)
LEMMA AdvanceKeeps ==
    ASSUME IInv, NEW c \in Core, Advance(c)
    PROVE  IInv'
<1>1. /\ InLoop(c) /\ HasNext(c) /\ pc[c] = "walk"
      /\ cur' = [cur EXCEPT ![c] = @ + 1] /\ i' = [i EXCEPT ![c] = @ + 1]
      /\ UNCHANGED <<clock, chain, number, lock, pc, call, ret, asked, segv>>
  BY DEF Advance, PassOver, InLoop, table
<1>2. /\ pc' \in [Core -> Labels] /\ cur \in [Core -> Nat] /\ i \in [Core -> Nat]
      /\ chain' \in [Bucket -> Seq(NamesNode)] /\ number' \in [Bucket -> Int]
  BY <1>1 DEF IInv, TypeOK
<1>3. /\ cur' \in [Core -> Nat] /\ i' \in [Core -> Nat] /\ cur'[c] = cur[c] + 1
      /\ \A d \in Core : d # c => cur'[d] = cur[d]
  BY <1>1, <1>2
<1>4. ChainsInv'
  BY <1>1 DEF IInv, ChainsInv
<1>5. CursorOK(c)'
  <2>1. MyChain(c)' = MyChain(c)
    BY <1>1 DEF MyChain, MyBucket
  <2>2. cur[c] \in 1 .. Len(MyChain(c)) /\ cur[c] < Len(MyChain(c)) /\ Len(MyChain(c)) \in Nat
    BY <1>1, InLoopFacts, CallFacts DEF HasNext, IInv
  <2> QED BY <1>3, <2>1, <2>2 DEF CursorOK
<1> QED BY <1>1, <1>2, <1>3, <1>4, <1>5, RestStays, HeldStep DEF Held

(* A node that still has users stays, with its queue cleaned.              *)
LEMMA CleanKeepKeeps ==
    ASSUME IInv, NEW c \in Core, CleanKeep(c)
    PROVE  IInv'
<1> DEFINE b == MyBucket(c)
           s == [chain[b] EXCEPT ![cur[c]].queue = Cleaned(c)]
<1>1. /\ InLoop(c) /\ HasNext(c) /\ pc[c] = "walk" /\ ~ segv /\ Cleaned(c).n_entry > 0
      /\ chain' = [chain EXCEPT ![b][cur[c]].queue = Cleaned(c)]
      /\ cur' = [cur EXCEPT ![c] = @ + 1] /\ i' = [i EXCEPT ![c] = @ + 1]
      /\ UNCHANGED <<clock, number, lock, pc, call, ret, asked, segv>>
  BY DEF CleanKeep, PassOver, InLoop
<1>2. /\ pc' \in [Core -> Labels] /\ cur \in [Core -> Nat] /\ i \in [Core -> Nat]
      /\ chain \in [Bucket -> Seq(NamesNode)] /\ number' \in [Bucket -> Int]
  BY <1>1 DEF IInv, TypeOK
<1>3. /\ cur' \in [Core -> Nat] /\ i' \in [Core -> Nat] /\ cur'[c] = cur[c] + 1
      /\ \A d \in Core : d # c => cur'[d] = cur[d]
  BY <1>1, <1>2
<1>4. /\ b \in Bucket /\ MyChain(c) = chain[b] /\ Len(chain[b]) \in Nat
      /\ chain[b] \in Seq(NamesNode) /\ call[c].time \in Nat /\ call[c].k \in Setting
  BY <1>1, CallFacts DEF IInv, MyChain
<1>5. /\ cur[c] \in 1 .. Len(chain[b]) /\ cur[c] < Len(chain[b])
      /\ QueueOK(MyNode(c).queue)
  BY <1>1, <1>4, InLoopFacts DEF HasNext
<1>6. QueueOK(Cleaned(c)) /\ Cleaned(c) \in Queue
  BY <1>4, <1>5, CleanedOK
<1>7. NodesOK(chain[b], FALSE) /\ CountOK(chain[b], number[b])
  BY <1>1, <1>4 DEF IInv, ChainsInv, NodesOK
<1>8. s \in Seq(NamesNode) /\ Len(s) = Len(chain[b]) /\ NodesOK(s, FALSE)
  <2>1. s \in Seq(NamesNode) /\ Len(s) = Len(chain[b])
    BY <1>4, <1>5, <1>6, ReplacedAt
  <2>2. NodesOK(s, FALSE)
    BY <1>1, <1>4, <1>5, <1>6, <1>7, QueueReplaced
  <2> QED BY <2>1, <2>2
<1>9. chain' = [chain EXCEPT ![b] = s]
  BY <1>1, <1>2, <1>4
<1> HIDE DEF s, b
<1>10. CountOK(s, number'[b])
  <2>1. s = << >> <=> chain[b] = << >>
    BY <1>4, <1>8, EmptySeq
  <2> QED BY <1>1, <1>7, <1>8, <2>1 DEF CountOK
<1>11. NodesOK(s, segv') /\ segv' \in BOOLEAN
  <2>1. segv' \in BOOLEAN
    BY <1>1, RestStays
  <2>2. NodesOK(s, segv')
    BY <1>8 DEF NodesOK
  <2> QED BY <2>1, <2>2
<1>12. chain' \in [Bucket -> Seq(NamesNode)] /\ ChainsInv'
  BY <1>1, <1>4, <1>8, <1>9, <1>10, <1>11, ChainChanged DEF IInv
<1>13. \A a \in Bucket : a # b => chain'[a] = chain[a]
  BY <1>2, <1>9
<1>14. CursorOK(c)'
  <2>1. MyChain(c)' = s
    BY <1>1, <1>2, <1>4, <1>9, Zenon DEF MyChain, MyBucket, b
  <2> QED BY <1>3, <1>4, <1>5, <1>8, <2>1 DEF CursorOK
<1> QED BY <1>1, <1>2, <1>3, <1>12, <1>13, <1>14, RestStays, HeldStep DEF Held, b

(* A node without users is unlinked and the others keep their order.       *)
LEMMA CleanRemoveKeeps ==
    ASSUME IInv, NEW c \in Core, CleanRemove(c)
    PROVE  IInv'
<1> DEFINE b == MyBucket(c)
           old == chain[b]
           s == SubSeq(old, 1, cur[c] - 1) \o SubSeq(old, cur[c] + 1, Len(old))
<1>1. /\ InLoop(c) /\ HasNext(c) /\ pc[c] = "walk" /\ ~ segv /\ i[c] # 0 /\ i[c] < number[b]
      /\ chain' = [chain EXCEPT ![b] = SubSeq(@, 1, cur[c] - 1) \o SubSeq(@, cur[c] + 1, Len(@))]
      /\ number' = [number EXCEPT ![b] = @ - 1]
      /\ i' = [i EXCEPT ![c] = @ + 1]
      /\ UNCHANGED <<clock, lock, pc, call, cur, ret, asked, segv>>
  BY DEF CleanRemove, PassOver, InLoop
<1>2. /\ pc' \in [Core -> Labels] /\ cur' \in [Core -> Nat] /\ i \in [Core -> Nat]
      /\ chain \in [Bucket -> Seq(NamesNode)] /\ number \in [Bucket -> Int]
  BY <1>1 DEF IInv, TypeOK
<1>3. /\ b \in Bucket /\ MyChain(c) = old /\ Len(old) \in Nat /\ old \in Seq(NamesNode)
  BY <1>1, CallFacts DEF IInv, MyChain
<1>4. i' \in [Core -> Nat] /\ number' \in [Bucket -> Int]
  <2>1. i' \in [Core -> Nat]
    BY <1>1, <1>2
  <2>2. number' \in [Bucket -> Int]
    BY <1>1, <1>2, <1>3, SMTT(60)
  <2> QED BY <2>1, <2>2
<1>5. cur[c] \in 1 .. Len(old) /\ cur[c] < Len(old)
  BY <1>1, <1>3, InLoopFacts DEF HasNext
<1>6. NodesOK(old, FALSE) /\ CountOK(old, number[b])
  BY <1>1, <1>3 DEF IInv, ChainsInv, NodesOK
<1>7. s \in Seq(NamesNode) /\ Len(s) = Len(old) - 1 /\ NodesOK(s, FALSE)
  BY <1>3, <1>5, <1>6, NodeRemoved
<1>8. chain' = [chain EXCEPT ![b] = s]
  BY <1>1, <1>2, <1>3
<1> HIDE DEF s, old, b
<1>9. CountOK(s, number'[b])
  <2>1. number'[b] = number[b] - 1 /\ number[b] \in Int /\ i[c] \in Nat
    BY <1>1, <1>2, <1>3
  <2>2. number'[b] # 0 /\ number'[b] >= Len(s)
    BY <1>1, <1>3, <1>6, <1>7, <2>1 DEF CountOK
  <2>3. s # << >>
    BY <1>3, <1>5, <1>7
  <2> QED BY <2>2, <2>3 DEF CountOK
<1>10. NodesOK(s, segv') /\ segv' \in BOOLEAN /\ \A a \in Bucket : a # b => number'[a] = number[a]
  <2>1. segv' \in BOOLEAN
    BY <1>1, RestStays
  <2>2. NodesOK(s, segv')
    BY <1>7 DEF NodesOK
  <2>3. \A a \in Bucket : a # b => number'[a] = number[a]
    BY <1>1, <1>2
  <2> QED BY <2>1, <2>2, <2>3
<1>11. chain' \in [Bucket -> Seq(NamesNode)] /\ ChainsInv'
  BY <1>1, <1>3, <1>7, <1>8, <1>9, <1>10, ChainChanged DEF IInv
<1>12. \A a \in Bucket : a # b => chain'[a] = chain[a]
  BY <1>2, <1>8
<1>13. CursorOK(c)'
  <2>1. MyChain(c)' = s
    BY <1>1, <1>2, <1>3, <1>8, Zenon DEF MyChain, MyBucket, b
  <2> QED BY <1>1, <1>3, <1>5, <1>7, <2>1 DEF CursorOK
<1> QED BY <1>1, <1>2, <1>4, <1>11, <1>12, <1>13, RestStays, HeldStep DEF Held, b

-----------------------------------------------------------------------------
(* table_add returns n, and the bucket's chain is s.                       *)
LEMMA AnswerStep ==
    ASSUME IInv, ~ segv, NEW c \in Core, pc[c] \in {"found", "missing"},
           NEW s \in Seq(NamesNode), NEW n \in Int, Answer(c, s, n),
           segv' \in BOOLEAN, NodesOK(s, segv'), number' \in [Bucket -> Int],
           CountOK(s, number'[MyBucket(c)]),
           \A a \in Bucket : a # MyBucket(c) => number'[a] = number[a]
    PROVE  IInv'
<1>1. /\ chain' = [chain EXCEPT ![MyBucket(c)] = s]
      /\ ret' = [ret EXCEPT ![c] = n] /\ pc' = [pc EXCEPT ![c] = "unlock"]
      /\ asked' = [asked EXCEPT ![call[c].name][call[c].user] = call[c].time]
      /\ UNCHANGED <<clock, lock, call, cur, i>>
  BY DEF Answer, RecordAsk, walk
<1>2. /\ chain \in [Bucket -> Seq(NamesNode)] /\ pc \in [Core -> Labels]
      /\ cur' \in [Core -> Nat] /\ i' \in [Core -> Nat] /\ ret \in [Core -> Int]
      /\ asked \in [Name -> [User -> Nat \cup {Never}]]
  BY <1>1 DEF IInv, TypeOK
<1>3. pc[c] # "idle" /\ pc[c] \in Held
  BY DEF Held
<1>4. /\ MyBucket(c) \in Bucket /\ call[c].name \in Name /\ call[c].user \in User
      /\ call[c].time \in Nat
  BY <1>3, CallFacts DEF IInv
<1>5. /\ pc' \in [Core -> Labels] /\ pc'[c] = "unlock"
      /\ \A d \in Core : d # c => pc'[d] = pc[d] /\ cur'[d] = cur[d]
  BY <1>1, <1>2 DEF Labels
<1>6. ret' \in [Core -> Int]
  BY <1>1, <1>2
<1>7. asked' \in [Name -> [User -> Nat \cup {Never}]]
  BY <1>1, <1>2, <1>4
<1>8. chain' \in [Bucket -> Seq(NamesNode)] /\ ChainsInv'
  BY <1>1, <1>4, ChainChanged DEF IInv
<1>9. \A b \in Bucket : b # MyBucket(c) => chain'[b] = chain[b]
  BY <1>1, <1>2
<1>10. pc'[c] \notin Walking
  BY <1>5 DEF Walking
<1> QED BY <1>1, <1>2, <1>3, <1>5, <1>6, <1>7, <1>8, <1>9, <1>10, HeldStep

(* What a core at found or missing sees of its bucket.                     *)
LEMMA BucketFacts ==
    ASSUME IInv, ~ segv, NEW c \in Core, pc[c] \in {"found", "missing"}
    PROVE  /\ NodesOK(MyChain(c), FALSE) /\ CountOK(MyChain(c), number[MyBucket(c)])
           /\ number \in [Bucket -> Int] /\ number[MyBucket(c)] \in Int /\ CursorOK(c)
<1>1. MyBucket(c) \in Bucket /\ pc[c] \in Walking
  BY CallFacts DEF IInv, Walking
<1>2. NodesOK(MyChain(c), segv) /\ CountOK(MyChain(c), number[MyBucket(c)])
  BY <1>1 DEF IInv, ChainsInv, MyChain
<1>3. NodesOK(MyChain(c), FALSE)
  BY <1>2 DEF NodesOK
<1>4. number \in [Bucket -> Int]
  BY DEF IInv, TypeOK
<1>5. CursorOK(c)
  BY <1>1 DEF IInv, CursorsInv
<1> QED BY <1>1, <1>2, <1>3, <1>4, <1>5

(* The asker goes into the queue of the name's node.                       *)
LEMMA FoundKeeps ==
    ASSUME IInv, NEW c \in Core, Found(c)
    PROVE  IInv'
<1>1. PICK q \in Referenced(c, MyNode(c).queue) :
        /\ Answer(c, [MyChain(c) EXCEPT ![cur[c]].queue = q], q.n_entry)
        /\ segv' = TailIsNull(q)
  BY DEF Found
<1>2. ~ segv /\ pc[c] = "found" /\ number' = number
  BY DEF Found
<1>3. /\ MyChain(c) \in Seq(NamesNode) /\ Len(MyChain(c)) \in Nat /\ MyBucket(c) \in Bucket
      /\ Slot0(c) \in Slot /\ call[c].time \in Nat /\ call[c].k \in Setting
  BY <1>2, CallFacts DEF IInv
<1>4. NodesOK(MyChain(c), FALSE) /\ CountOK(MyChain(c), number[MyBucket(c)]) /\ CursorOK(c)
  BY <1>2, BucketFacts
<1>5. cur[c] \in 1 .. Len(MyChain(c))
  BY <1>2, <1>4 DEF CursorOK
<1>6. QueueOK(MyNode(c).queue)
  BY <1>4, <1>5 DEF NodesOK, MyNode
<1>7. QueueOK(q) /\ q \in Queue /\ q.n_entry \in Int /\ (TailIsNull(q) \/ q.n_entry > 0)
  BY <1>3, <1>6, ReferencedOK
<1>8. segv' \in BOOLEAN /\ (segv' \/ q.n_entry > 0)
  BY <1>1, <1>7 DEF TailIsNull
<1> DEFINE s == [MyChain(c) EXCEPT ![cur[c]].queue = q]
<1>9. s \in Seq(NamesNode) /\ Len(s) = Len(MyChain(c)) /\ NodesOK(s, segv')
  <2>1. s \in Seq(NamesNode) /\ Len(s) = Len(MyChain(c))
    BY <1>3, <1>5, <1>7, ReplacedAt, ZenonT(60)
  <2>2. NodesOK(s, segv')
    BY <1>3, <1>4, <1>5, <1>7, <1>8, QueueReplaced
  <2> QED BY <2>1, <2>2
<1>10. Answer(c, s, q.n_entry)
  BY <1>1
<1> HIDE DEF s
<1>11. CountOK(s, number'[MyBucket(c)])
  <2>1. s = << >> <=> MyChain(c) = << >>
    BY <1>3, <1>9, EmptySeq
  <2> QED BY <1>2, <1>4, <1>9, <2>1 DEF CountOK
<1>12. number' \in [Bucket -> Int]
  BY <1>2 DEF IInv, TypeOK
<1> QED BY <1>2, <1>7, <1>8, <1>9, <1>10, <1>11, <1>12, AnswerStep

(* A name's first asker makes a chain of one node.                         *)
LEMMA CreateFirstKeeps ==
    ASSUME IInv, NEW c \in Core, CreateFirst(c)
    PROVE  IInv'
<1>1. PICK q \in Referenced(c, EmptyQueue) :
        /\ Answer(c, <<[name |-> call[c].name, queue |-> q]>>, q.n_entry)
        /\ segv' = TailIsNull(q)
  BY DEF CreateFirst
<1>2. /\ ~ segv /\ pc[c] = "missing" /\ number[MyBucket(c)] = 0
      /\ number' = [number EXCEPT ![MyBucket(c)] = @ + 1]
  BY DEF CreateFirst
<1>3. /\ MyBucket(c) \in Bucket /\ call[c].name \in Name
      /\ Slot0(c) \in Slot /\ call[c].time \in Nat /\ call[c].k \in Setting
  BY <1>2, CallFacts DEF IInv
<1>4. QueueOK(q) /\ q \in Queue /\ q.n_entry \in Int /\ (TailIsNull(q) \/ q.n_entry > 0)
  BY <1>3, EmptyQueueOK, ReferencedOK
<1>5. segv' \in BOOLEAN /\ (segv' \/ q.n_entry > 0)
  BY <1>1, <1>4 DEF TailIsNull
<1> DEFINE e == [name |-> call[c].name, queue |-> q]
<1>6. e \in NamesNode /\ e.queue = q
  BY <1>3, <1>4 DEF NamesNode
<1>7. Answer(c, <<e>>, q.n_entry)
  BY <1>1
<1> HIDE DEF e
<1>8. <<e>> \in Seq(NamesNode) /\ Len(<<e>>) = 1 /\ <<e>> # << >> /\ <<e>>[1] = e
  BY <1>6
<1>9. NodesOK(<<e>>, segv')
  BY <1>4, <1>5, <1>6, <1>8 DEF NodesOK
<1>10. /\ number' \in [Bucket -> Int] /\ number'[MyBucket(c)] = 1
       /\ \A a \in Bucket : a # MyBucket(c) => number'[a] = number[a]
  <2>1. number \in [Bucket -> Int]
    BY <1>2, BucketFacts
  <2> QED BY <1>2, <1>3, <2>1
<1>11. CountOK(<<e>>, number'[MyBucket(c)])
  BY <1>8, <1>10 DEF CountOK
<1> QED BY <1>2, <1>4, <1>5, <1>7, <1>8, <1>9, <1>10, <1>11, AnswerStep

(* Or a node behind the last.                                              *)
LEMMA CreateAppendKeeps ==
    ASSUME IInv, NEW c \in Core, CreateAppend(c)
    PROVE  IInv'
<1> DEFINE v(q) == Append(SubSeq(MyChain(c), 1, cur[c]), [name |-> call[c].name, queue |-> q])
<1>1. PICK q \in Referenced(c, EmptyQueue) :
        Answer(c, v(q), q.n_entry) /\ segv' = TailIsNull(q)
  BY DEF CreateAppend
<1>2. /\ ~ segv /\ pc[c] = "missing" /\ number[MyBucket(c)] # 0
      /\ number' = [number EXCEPT ![MyBucket(c)] = @ + 1]
  BY DEF CreateAppend
<1>3. /\ MyBucket(c) \in Bucket /\ call[c].name \in Name
      /\ MyChain(c) \in Seq(NamesNode) /\ Len(MyChain(c)) \in Nat
      /\ Slot0(c) \in Slot /\ call[c].time \in Nat /\ call[c].k \in Setting
  BY <1>2, CallFacts DEF IInv
<1>4. QueueOK(q) /\ q \in Queue /\ q.n_entry \in Int /\ (TailIsNull(q) \/ q.n_entry > 0)
  BY <1>3, EmptyQueueOK, ReferencedOK
<1>5. segv' \in BOOLEAN /\ (segv' \/ q.n_entry > 0)
  BY <1>1, <1>4 DEF TailIsNull
<1>6. /\ NodesOK(MyChain(c), FALSE) /\ CountOK(MyChain(c), number[MyBucket(c)])
      /\ number \in [Bucket -> Int] /\ number[MyBucket(c)] \in Int /\ CursorOK(c)
  BY <1>2, BucketFacts
<1>7. cur[c] \in 1 .. Len(MyChain(c))
  BY <1>2, <1>6 DEF CountOK, CursorOK
<1>8. [name |-> call[c].name, queue |-> q] \in NamesNode
  BY <1>3, <1>4 DEF NamesNode
<1>9. v(q) \in Seq(NamesNode) /\ Len(v(q)) = cur[c] + 1 /\ NodesOK(v(q), segv')
  <2>1. cur[c] \in 0 .. Len(MyChain(c))
    BY <1>7
  <2>2. v(q) \in Seq(NamesNode) /\ Len(v(q)) = cur[c] + 1
    BY <1>3, <1>8, <2>1, AppendedAt
  <2>3. NodesOK(v(q), segv')
    BY <1>3, <1>4, <1>5, <1>6, <1>8, <2>1, NodeAppended
  <2> QED BY <2>2, <2>3
<1> HIDE DEF v
<1>10. /\ number' \in [Bucket -> Int] /\ number'[MyBucket(c)] = number[MyBucket(c)] + 1
      /\ \A a \in Bucket : a # MyBucket(c) => number'[a] = number[a]
  BY <1>2, <1>3, <1>6
<1>11. CountOK(v(q), number'[MyBucket(c)])
  <2>1. v(q) # << >>
    BY <1>7, <1>9
  <2> QED BY <1>3, <1>6, <1>7, <1>9, <1>10, <2>1 DEF CountOK
<1> QED BY <1>1, <1>2, <1>4, <1>5, <1>9, <1>10, <1>11, AnswerStep

(* Without memory for a node nothing is kept.                              *)
LEMMA CreateFailsKeeps ==
    ASSUME IInv, NEW c \in Core, CreateFails(c)
    PROVE  IInv'
<1>1. ~ segv /\ pc[c] = "missing" /\ Answer(c, MyChain(c), 0) /\ UNCHANGED <<number, segv>>
  BY DEF CreateFails
<1>2. MyChain(c) \in Seq(NamesNode) /\ MyBucket(c) \in Bucket
  BY <1>1, CallFacts DEF IInv
<1>3. /\ NodesOK(MyChain(c), FALSE) /\ CountOK(MyChain(c), number[MyBucket(c)])
      /\ number \in [Bucket -> Int]
  BY <1>1, BucketFacts
<1>4. NodesOK(MyChain(c), segv')
  BY <1>3 DEF NodesOK
<1>5. segv' \in BOOLEAN
  BY <1>1 DEF IInv, TypeOK
<1> QED BY <1>1, <1>2, <1>3, <1>4, <1>5, AnswerStep

-----------------------------------------------------------------------------
(* The invariant is inductive.                                             *)
LEMMA NextKeeps == IInv /\ [Next]_vars => IInv'
<1> SUFFICES ASSUME IInv, [Next]_vars PROVE IInv'
  OBVIOUS
<1>1. CASE Tick
  BY <1>1, TickKeeps
<1>2. CASE \E c \in Core : Arrive(c) \/ Acquire(c) \/ Holding(c)
  <2>1. PICK c \in Core : Arrive(c) \/ Acquire(c) \/ Holding(c)
    BY <1>2
  <2>2. CASE Arrive(c)
    BY <2>2, ArriveKeeps
  <2>3. CASE Acquire(c)
    BY <2>3, AcquireKeeps
  <2>4. CASE Match(c)
    BY <2>4, MatchKeeps
  <2>5. CASE EndOfChain(c) \/ LoopExit(c)
    BY <2>5, NotFoundKeeps
  <2>6. CASE Advance(c)
    BY <2>6, AdvanceKeeps
  <2>7. CASE CleanKeep(c)
    BY <2>7, CleanKeepKeeps
  <2>8. CASE CleanRemove(c)
    BY <2>8, CleanRemoveKeeps
  <2>9. CASE Found(c)
    BY <2>9, FoundKeeps
  <2>10. CASE CreateFirst(c)
    BY <2>10, CreateFirstKeeps
  <2>11. CASE CreateAppend(c)
    BY <2>11, CreateAppendKeeps
  <2>12. CASE CreateFails(c)
    BY <2>12, CreateFailsKeeps
  <2>13. CASE Release(c)
    BY <2>13, ReleaseKeeps
  <2> QED BY <2>1, <2>2, <2>3, <2>4, <2>5, <2>6, <2>7, <2>8, <2>9, <2>10, <2>11, <2>12, <2>13
          DEF Holding
<1>3. CASE UNCHANGED vars
  <2>1. UNCHANGED <<clock, chain, number, lock, pc, call, cur, i, ret, asked, segv>>
    BY <1>3 DEF vars
  <2>2. TypeOK'
    BY <2>1 DEF IInv, TypeOK
  <2>3. LocksInv' /\ CursorsInv' /\ ChainsInv'
    BY <2>1 DEF IInv, LocksInv, CursorsInv, ChainsInv, CursorOK, MyBucket, MyChain
  <2> QED BY <2>2, <2>3 DEF IInv
<1> QED BY <1>1, <1>2, <1>3 DEF Next

(* The inductive invariant holds in every reachable state, whatever the    *)
(* cores' interleaving and whichever mallocs fail.                         *)
THEOREM TableInvariance == Spec => []IInv
BY InitIInv, NextKeeps, PTL DEF Spec

(* The table, the cores' calls and the history keep their types.           *)
THEOREM TableTypes == Spec => []TypeOK
<1>1. IInv => TypeOK
  BY DEF IInv
<1> QED BY <1>1, TableInvariance, PTL

(* table_add's curr_name is a node of the chain as long as the core uses   *)
(* it: the mutex keeps every other core's cleaning walk away.              *)
THEOREM CursorsLive == Spec => []CurrNameIsLive
<1>1. IInv => CurrNameIsLive
  <2> SUFFICES ASSUME IInv, NEW c \in Core, pc[c] \in {"walk", "found", "missing"}
               PROVE  \/ cur[c] \in DOMAIN MyChain(c)
                      \/ MyChain(c) = << >> /\ pc[c] # "found"
    BY DEF CurrNameIsLive
  <2>1. CursorOK(c)
    BY DEF IInv, CursorsInv, Walking
  <2>2. DOMAIN MyChain(c) = 1 .. Len(MyChain(c))
    BY CallFacts DEF IInv
  <2> QED BY <2>1, <2>2 DEF CursorOK
<1> QED BY <1>1, TableInvariance, PTL

(* Every node of the table has a consistent, non-empty queue, unless the   *)
(* process died on a failing malloc.                                       *)
THEOREM NodesStayConsistent == Spec => []NodesConsistent
<1>1. IInv => NodesConsistent
  <2> SUFFICES ASSUME IInv, ~ segv, NEW b \in Bucket, NEW j \in DOMAIN chain[b]
               PROVE  QueueOK(chain[b][j].queue) /\ chain[b][j].queue.n_entry > 0
    BY DEF NodesConsistent
  <2>1. chain[b] \in Seq(NamesNode)
    BY DEF IInv, TypeOK
  <2>2. j \in 1 .. Len(chain[b])
    BY <2>1
  <2> QED BY <2>2 DEF IInv, ChainsInv, NodesOK
<1> QED BY <1>1, TableInvariance, PTL

(* bitMap.number covers the chain: a walk bounded by it reaches every node *)
(* that no cleaning walk has moved, and 0 means an unused bucket.          *)
THEOREM NumberBounds == Spec => []NumberCoversChain
<1>1. IInv => NumberCoversChain
  BY DEF IInv, ChainsInv, CountOK, NumberCoversChain
<1> QED BY <1>1, TableInvariance, PTL

-----------------------------------------------------------------------------
(* The refinement of AlphaAnon.                                            *)

(* The cells of client_list whose user asked for the name, by history h.   *)
Known(h, n) == {ClientHash[u] : u \in {v \in User : h[n][v] # Never}}

Lists(q, S) == \A j \in 1..Len(q.lru) : q.lru[j].slot \in S

(* Every client in the queue of a name asked for the name.                 *)
ListedAsked ==
    \A b \in Bucket : \A j \in 1..Len(chain[b]) :
        Lists(chain[b][j].queue, Known(asked, chain[b][j].name))

(* A core that has found a node found the one of its name.                 *)
FoundOwnName == \A c \in Core : pc[c] = "found" => MyNode(c).name = call[c].name

AskedInv == ListedAsked /\ FoundOwnName

-----------------------------------------------------------------------------
(* Queues.                                                                 *)

(* referencePage adds at most the client it was called for.                *)
LEMMA ReferencedLists ==
    ASSUME NEW q, QueueOK(q), NEW c \in Core, Slot0(c) \in Slot,
           call[c].time \in Nat, call[c].k \in Setting,
           NEW r \in Referenced(c, q), NEW S, Lists(q, S), Slot0(c) \in S
    PROVE  Lists(r, S)
<1> DEFINE s == Slot0(c)
           t == call[c].time
           k == call[c].k
           w == Touch(q, s, t)
<1>1. QueueOK(w) /\ Lists(w, S)
  <2>1. /\ QueueOK(w) /\ Len(w.lru) \in Nat
        /\ w.lru[1] = [slot |-> s, stamp |-> t]
        /\ \A j \in 2..Len(w.lru) : Origin(q, s, j) \in 1..Len(q.lru)
                                    /\ w.lru[j] = q.lru[Origin(q, s, j)]
    <3>1. QueueOK(w)
      BY TouchFacts
    <3>2. Len(w.lru) \in Nat
      BY <3>1, QueueFacts
    <3> QED BY <3>1, <3>2, TouchFacts
  <2> HIDE DEF w, s
  <2>2. \A j \in 1..Len(w.lru) : w.lru[j].slot \in S
    <3> TAKE j \in 1..Len(w.lru)
    <3>1. CASE j = 1
      BY <2>1, <3>1 DEF s
    <3>2. CASE j # 1
      <4>1. j \in 2..Len(w.lru)
        BY <2>1, <3>2
      <4> QED BY <2>1, <4>1 DEF Lists
    <3> QED BY <3>1, <3>2
  <2> QED BY <2>1, <2>2 DEF Lists
<1>2. ASSUME NEW v, QueueOK(v), Lists(v, S) PROVE Lists(Settle(v, t, k), S)
  <2> DEFINE x == Settle(v, t, k)
  <2>1. /\ Len(x.lru) <= Len(v.lru) /\ QueueOK(x)
        /\ \A j \in 1..Len(x.lru) : x.lru[j] = v.lru[j]
    BY <1>2, SettleFacts
  <2> HIDE DEF x
  <2>2. Len(x.lru) \in Nat /\ Len(v.lru) \in Nat
    BY <1>2, <2>1, QueueFacts
  <2>3. Lists(x, S)
    BY <1>2, <2>1, <2>2 DEF Lists
  <2> QED BY <2>3 DEF x
<1>3. r = Settle(w, t, k) \/ r = Settle(IF q.active[s] THEN w ELSE q, t, k)
  BY DEF Referenced, ReferencePage, ReferencePageNoMemory, Touch
<1> HIDE DEF w
<1>4. CASE q.active[s] \/ r = Settle(w, t, k)
  BY <1>1, <1>2, <1>3, <1>4
<1>5. CASE ~ q.active[s] /\ r = Settle(IF q.active[s] THEN w ELSE q, t, k)
  BY <1>2, <1>5
<1> QED BY <1>3, <1>4, <1>5

(* Cleaning a queue lists nobody new.                                      *)
LEMMA CleanedLists ==
    ASSUME NEW c \in Core, QueueOK(MyNode(c).queue), call[c].time \in Nat, call[c].k \in Setting,
           NEW S, Lists(MyNode(c).queue, S)
    PROVE  Lists(Cleaned(c), S)
<1> DEFINE q == MyNode(c).queue
           x == Prune(q, call[c].time, call[c].k)
           n == Kept(q, call[c].time, call[c].k)
<1>1. Len(x.lru) = n /\ n \in 0..Len(q.lru) /\ \A j \in 1..n : x.lru[j] = q.lru[j]
  BY PruneFacts
<1>2. Len(q.lru) \in Nat
  BY QueueFacts
<1>3. Cleaned(c) = x \/ Cleaned(c) = q
  BY DEF Cleaned
<1> HIDE DEF q, x, n
<1>4. Lists(x, S) /\ Lists(q, S)
  BY <1>1, <1>2 DEF Lists, q
<1> QED BY <1>3, <1>4

(* An empty queue lists nobody.                                            *)
LEMMA EmptyLists == \A S : Lists(EmptyQueue, S)
<1>1. Len(EmptyQueue.lru) = 0
  BY DEF EmptyQueue
<1> QED BY <1>1 DEF Lists

(* A queue of clients that asked for a name counts no more than the users  *)
(* that did: each entry has a client of its own.                           *)
LEMMA CountedAskers ==
    ASSUME NEW q, QueueOK(q), NEW A, IsFiniteSet(A), Lists(q, {ClientHash[u] : u \in A})
    PROVE  q.n_entry <= Cardinality(A) /\ Cardinality(A) \in Nat
<1> DEFINE n == Len(q.lru)
           f == [j \in 1..n |-> CHOOSE u \in A : ClientHash[u] = q.lru[j].slot]
<1>1. n \in Nat /\ q.n_entry = n /\ \A j, l \in 1..n : q.lru[j].slot = q.lru[l].slot => j = l
  BY QueueFacts
<1>2. \A j \in 1..n : f[j] \in A /\ ClientHash[f[j]] = q.lru[j].slot
  <2> TAKE j \in 1..n
  <2>1. \E u \in A : ClientHash[u] = q.lru[j].slot
    BY DEF Lists
  <2> QED BY <2>1
<1>3. f \in [1..n -> A]
  BY <1>2
<1> HIDE DEF f, n
<1>4. \A j, l \in 1..n : f[j] = f[l] => j = l
  BY <1>1, <1>2
<1>5. f \in Injection(1..n, A)
  BY <1>3, <1>4 DEF Injection, IsInjective
<1>6. Cardinality(1..n) <= Cardinality(A)
  BY <1>5, FS_Injection
<1>7. Cardinality(1..n) = n
  <2>1. 1 \in Int /\ n \in Int
    BY <1>1
  <2>2. Cardinality(1..n) = IF 1 > n THEN 0 ELSE n - 1 + 1
    BY ONLY <2>1, FS_Interval, Zenon
  <2> QED BY <1>1, <2>2
<1>8. Cardinality(A) \in Nat
  BY FS_CardinalityType
<1> QED BY <1>1, <1>6, <1>7, <1>8

-----------------------------------------------------------------------------
(* The history.                                                            *)

(* Answering a call adds its user to the askers of its name.               *)
LEMMA RecordFacts ==
    ASSUME TypeOK, LocksInv, NEW c \in Core, pc[c] # "idle", RecordAsk(c)
    PROVE  \A n \in Name : Askers(n)' = IF n = call[c].name THEN Askers(n) \cup {call[c].user}
                                                           ELSE Askers(n)
<1>1. call[c].name \in Name /\ call[c].user \in User /\ call[c].time \in Nat
  BY CallFacts
<1>2. asked \in [Name -> [User -> Nat \cup {Never}]]
  BY DEF TypeOK
<1> DEFINE nm == call[c].name
           us == call[c].user
           t  == call[c].time
<1>3. asked' = [asked EXCEPT ![nm] = [asked[nm] EXCEPT ![us] = t]]
  BY DEF RecordAsk
<1>4. asked'[nm] = [asked[nm] EXCEPT ![us] = t] /\ asked[nm] \in [User -> Nat \cup {Never}]
  BY <1>1, <1>2, <1>3
<1>5. \A u \in User : asked'[nm][u] = IF u = us THEN t ELSE asked[nm][u]
  BY <1>1, <1>4
<1>6. t # Never
  BY <1>1 DEF Never
<1>7. \A n \in Name : n # nm => asked'[n] = asked[n]
  BY <1>2, <1>3
<1> HIDE DEF nm, us, t
<1>8. ASSUME NEW n \in Name, n = nm PROVE Askers(n)' = Askers(n) \cup {us}
  BY <1>1, <1>5, <1>6, <1>8 DEF Askers, us
<1>9. ASSUME NEW n \in Name, n # nm PROVE Askers(n)' = Askers(n)
  BY <1>7, <1>9 DEF Askers
<1> QED BY <1>8, <1>9 DEF nm, us

(* Recording a question adds its asker to the name's and takes none away.  *)
LEMMA KnownFacts ==
    ASSUME TypeOK, LocksInv, NEW c \in Core, pc[c] # "idle", RecordAsk(c)
    PROVE  /\ \A n \in Name : Known(asked, n) \subseteq Known(asked', n)
           /\ Slot0(c) \in Known(asked', call[c].name)
<1>1. /\ \A n \in Name : Askers(n)' = IF n = call[c].name THEN Askers(n) \cup {call[c].user}
                                                        ELSE Askers(n)
      /\ call[c].name \in Name
  BY RecordFacts, CallFacts
<1>2. \A n \in Name : /\ Known(asked', n) = {ClientHash[u] : u \in Askers(n)'}
                      /\ Known(asked, n) = {ClientHash[u] : u \in Askers(n)}
  BY DEF Known, Askers
<1>3. call[c].user \in Askers(call[c].name) \cup {call[c].user}
  OBVIOUS
<1> QED BY <1>1, <1>2, <1>3 DEF Slot0

-----------------------------------------------------------------------------
(* AlphaAnon counts as the table does.                                     *)
LEMMA SameCardinality == \A S : Promise!Cardinality(S) = Cardinality(S)
  BY DEF Promise!Cardinality, Cardinality

(* How a step keeps AskedInv.                                              *)

(* The chain of one bucket becomes s.                                      *)
LEMMA ListedChanged ==
    ASSUME ListedAsked, TypeOK, NEW b \in Bucket, NEW s \in Seq(NamesNode),
           chain' = [chain EXCEPT ![b] = s],
           \A n \in Name : Known(asked, n) \subseteq Known(asked', n),
           \A j \in 1..Len(s) : Lists(s[j].queue, Known(asked', s[j].name))
    PROVE  ListedAsked'
<1>1. chain \in [Bucket -> Seq(NamesNode)]
  BY DEF TypeOK
<1>2. \A a \in Bucket : chain'[a] = IF a = b THEN s ELSE chain[a]
  BY <1>1
<1>3. ASSUME NEW a \in Bucket, NEW j \in 1..Len(chain'[a])
      PROVE  Lists(chain'[a][j].queue, Known(asked', chain'[a][j].name))
  <2>1. CASE a = b
    BY <1>2, <1>3, <2>1
  <2>2. CASE a # b
    <3>1. chain'[a] = chain[a] /\ j \in 1..Len(chain[a])
      BY <1>2, <1>3, <2>2
    <3>2. chain[a][j] \in NamesNode
      BY <1>1, <3>1, ElementOfSeq
    <3>3. chain[a][j].name \in Name
      BY <3>2 DEF NamesNode
    <3>4. Lists(chain[a][j].queue, Known(asked, chain[a][j].name))
      BY <3>1 DEF ListedAsked
    <3>5. Known(asked, chain[a][j].name) \subseteq Known(asked', chain[a][j].name)
      BY <3>3
    <3> QED BY <3>1, <3>4, <3>5 DEF Lists
  <2> QED BY <2>1, <2>2
<1> QED BY <1>3 DEF ListedAsked

(* The other cores that found their nodes are in other buckets.            *)
LEMMA FoundStays ==
    ASSUME IInv, FoundOwnName, NEW c \in Core, pc[c] \in Held, UNCHANGED call,
           \A d \in Core : d # c => pc'[d] = pc[d] /\ cur'[d] = cur[d],
           \A b \in Bucket : b # MyBucket(c) => chain'[b] = chain[b],
           pc'[c] # "found"
    PROVE  FoundOwnName'
<1> SUFFICES ASSUME NEW d \in Core, pc'[d] = "found"
             PROVE  MyNode(d)' = MyNode(d) /\ pc[d] = "found"
  BY DEF FoundOwnName
<1>1. d # c /\ pc[d] = "found" /\ cur'[d] = cur[d]
  OBVIOUS
<1>2. MyBucket(d) # MyBucket(c) /\ MyBucket(d) \in Bucket
  BY <1>1, Exclusion, CallFacts DEF IInv, Held
<1>3. MyBucket(d)' = MyBucket(d)
  BY DEF MyBucket
<1> QED BY <1>1, <1>2, <1>3 DEF MyNode, MyChain

-----------------------------------------------------------------------------
(* What a step is for AlphaAnon.                                           *)

PAskers  == [n \in Name |-> Askers(n)]
PVerdict == [c \in Core |-> Verdict(c)]

(* No answer, no verdict gone: a stutter.                                  *)
LEMMA Stutters ==
    ASSUME UNCHANGED asked, \A c \in Core : Verdict(c)' = Verdict(c)
    PROVE  UNCHANGED Promise!vars
<1>1. PAskers' = PAskers
  BY DEF PAskers, Askers
<1>2. PVerdict' = PVerdict
  BY DEF PVerdict
<1> QED BY <1>1, <1>2 DEF Promise!vars, PAskers, PVerdict

(* A core that neither enters nor leaves the label "unlock".               *)
LEMMA VerdictStays ==
    ASSUME NEW c \in Core, UNCHANGED ret, (pc[c] = "unlock") = (pc'[c] = "unlock"),
           pc[c] = "unlock" => call'[c] = call[c]
    PROVE  Verdict(c)' = Verdict(c)
<1>1. CASE pc[c] = "unlock"
  BY <1>1 DEF Verdict
<1>2. CASE pc[c] # "unlock"
  BY <1>2 DEF Verdict
<1> QED BY <1>1, <1>2
(* An answer that lists only askers keeps AskedInv, and is an Ask if it    *)
(* counts no more than the askers, the new one included.                   *)
LEMMA AnswerAsks ==
    ASSUME IsFiniteSet(User), IInv, AskedInv, NEW c \in Core, pc[c] \in {"found", "missing"},
           NEW s \in Seq(NamesNode), NEW n \in Int, Answer(c, s, n),
           \A j \in 1..Len(s) : Lists(s[j].queue, Known(asked', s[j].name)),
           n <= Cardinality(Askers(call[c].name) \cup {call[c].user})
    PROVE  AskedInv' /\ Promise!Next
<1> DEFINE nm == call[c].name
           us == call[c].user
           k  == call[c].k
<1>1. /\ chain' = [chain EXCEPT ![MyBucket(c)] = s]
      /\ ret' = [ret EXCEPT ![c] = n] /\ pc' = [pc EXCEPT ![c] = "unlock"]
      /\ RecordAsk(c)
      /\ UNCHANGED <<clock, lock, call, cur, i>>
  BY DEF Answer, walk
<1>2. /\ chain \in [Bucket -> Seq(NamesNode)] /\ pc \in [Core -> Labels]
      /\ ret \in [Core -> Int] /\ TypeOK /\ LocksInv /\ FoundOwnName /\ ListedAsked
  BY DEF IInv, TypeOK, AskedInv
<1>3. /\ pc[c] # "idle" /\ pc[c] \in Held /\ nm \in Name /\ us \in User /\ k \in Setting
      /\ MyBucket(c) \in Bucket
  BY <1>2, CallFacts DEF Held
<1>4. /\ pc'[c] = "unlock" /\ ret'[c] = n
      /\ \A d \in Core : d # c => pc'[d] = pc[d] /\ cur'[d] = cur[d] /\ ret'[d] = ret[d]
  BY <1>1, <1>2
<1>5. \A b \in Bucket : b # MyBucket(c) => chain'[b] = chain[b]
  BY <1>1, <1>2
<1>6. ListedAsked'
  <2>1. \A m \in Name : Known(asked, m) \subseteq Known(asked', m)
    BY <1>1, <1>2, <1>3, KnownFacts
  <2> QED BY <1>1, <1>2, <1>3, <2>1, ListedChanged
<1>7. FoundOwnName'
  BY <1>1, <1>2, <1>3, <1>4, <1>5, FoundStays
<1>8. \A m \in Name : Askers(m)' = IF m = nm THEN Askers(m) \cup {us} ELSE Askers(m)
  BY <1>1, <1>2, <1>3, RecordFacts
<1>9. PAskers' = [PAskers EXCEPT ![nm] = @ \cup {us}]
  <2>1. PAskers' = [m \in Name |-> Askers(m)']
    BY DEF PAskers
  <2>2. [PAskers EXCEPT ![nm] = @ \cup {us}]
        = [m \in Name |-> IF m = nm THEN Askers(m) \cup {us} ELSE Askers(m)]
    BY <1>3 DEF PAskers
  <2> HIDE DEF nm, us
  <2> QED BY <1>8, <2>1, <2>2
<1> DEFINE v == [k |-> k, pass |-> ~ (n < k.alpha)]
<1>10. Verdict(c) = {} /\ Verdict(c)' = {v}
  <2>1. Verdict(c) = {}
    BY DEF Verdict
  <2>2. Verdict(c)' = {v}
    BY <1>1, <1>4 DEF Verdict
  <2> QED BY <2>1, <2>2
<1>11. ASSUME NEW d \in Core, d # c PROVE Verdict(d)' = Verdict(d)
  <2>1. pc'[d] = pc[d] /\ ret'[d] = ret[d] /\ call' = call
    BY <1>1, <1>4, <1>11
  <2>2. CASE pc[d] = "unlock"
    BY <2>1, <2>2 DEF Verdict
  <2>3. CASE pc[d] # "unlock"
    BY <2>1, <2>3 DEF Verdict
  <2> QED BY <2>2, <2>3
<1> HIDE DEF v
<1>12. PVerdict[c] = {} /\ PVerdict' = [PVerdict EXCEPT ![c] = {v}]
  <2>1. PVerdict' = [d \in Core |-> Verdict(d)']
    BY DEF PVerdict
  <2>2. [PVerdict EXCEPT ![c] = {v}] = [d \in Core |-> IF d = c THEN {v} ELSE Verdict(d)]
    BY DEF PVerdict
  <2> QED BY <1>10, <1>11, <2>1, <2>2 DEF PVerdict
<1>13. v \in Promise!Verdict
  BY <1>3 DEF v, Promise!Verdict
<1>14. v.pass => Cardinality(PAskers'[nm]) >= v.k.alpha
  <2>1. PAskers'[nm] = Askers(nm) \cup {us}
    <3>1. nm \in DOMAIN PAskers /\ PAskers[nm] = Askers(nm)
      BY <1>3 DEF PAskers
    <3> HIDE DEF nm, us
    <3> QED BY <1>9, <3>1
  <2>2. IsFiniteSet(Askers(nm) \cup {us})
    <3>1. Askers(nm) \cup {us} \in SUBSET User
      BY <1>3 DEF Askers
    <3> QED BY <3>1, FS_Subset
  <2>3. Cardinality(Askers(nm) \cup {us}) \in Nat
    BY <2>2, FS_CardinalityType
  <2>4. k.alpha \in Nat /\ v.k = k
    BY <1>3, QueueAssumption DEF v
  <2>5. v.pass => ~ (n < k.alpha)
    BY DEF v
  <2> HIDE DEF nm, us, k
  <2>6. n <= Cardinality(Askers(nm) \cup {us})
    BY DEF nm, us
  <2> QED BY <2>1, <2>3, <2>4, <2>5, <2>6
<1>15. Promise!Ask(c, nm, us, v)
  <2> HIDE DEF nm, us
  <2> SUFFICES /\ PVerdict[c] = {}
               /\ PAskers' = [PAskers EXCEPT ![nm] = @ \cup {us}]
               /\ v.pass => Cardinality(PAskers'[nm]) >= v.k.alpha
               /\ PVerdict' = [PVerdict EXCEPT ![c] = {v}]
    BY SameCardinality DEF Promise!Ask, PAskers, PVerdict
  <2> QED BY <1>9, <1>12, <1>14
<1>16. Promise!Next
  BY <1>3, <1>13, <1>15 DEF Promise!Next
<1> QED BY <1>6, <1>7, <1>16 DEF AskedInv

(* A verdict that is about to be applied is applied.                       *)
LEMMA ReleaseApplies ==
    ASSUME IInv, AskedInv, NEW c \in Core, Release(c)
    PROVE  AskedInv' /\ Promise!Next
<1>1. /\ pc[c] = "unlock" /\ pc' = [pc EXCEPT ![c] = "idle"]
      /\ call' = [call EXCEPT ![c] = None]
      /\ cur' = [cur EXCEPT ![c] = 1] /\ ret' = [ret EXCEPT ![c] = 0]
      /\ UNCHANGED <<chain, asked>>
  BY DEF Release, table
<1>2. /\ pc \in [Core -> Labels] /\ call \in [Core -> Call \cup {None}]
      /\ cur \in [Core -> Nat] /\ ret \in [Core -> Int]
  BY DEF IInv, TypeOK
<1>3. /\ pc'[c] = "idle"
      /\ \A d \in Core : d # c => /\ pc'[d] = pc[d] /\ call'[d] = call[d]
                                  /\ cur'[d] = cur[d] /\ ret'[d] = ret[d]
  BY <1>1, <1>2
<1>4. ListedAsked'
  BY <1>1 DEF AskedInv, ListedAsked
<1>5. FoundOwnName'
  <2> SUFFICES ASSUME NEW d \in Core, pc'[d] = "found"
               PROVE  MyNode(d)'.name = call'[d].name
    BY DEF FoundOwnName
  <2>1. d # c
    BY <1>3
  <2> QED BY <1>1, <1>3, <2>1 DEF AskedInv, FoundOwnName, MyNode, MyChain, MyBucket
<1>6. Verdict(c) # {} /\ Verdict(c)' = {}
  BY <1>1, <1>3 DEF Verdict
<1>7. ASSUME NEW d \in Core, d # c PROVE Verdict(d)' = Verdict(d)
  BY <1>3, <1>7 DEF Verdict
<1>8. PVerdict[c] # {} /\ PVerdict' = [PVerdict EXCEPT ![c] = {}]
  <2>1. PVerdict' = [d \in Core |-> Verdict(d)']
    BY DEF PVerdict
  <2>2. [PVerdict EXCEPT ![c] = {}] = [d \in Core |-> IF d = c THEN {} ELSE Verdict(d)]
    BY DEF PVerdict
  <2> QED BY <1>6, <1>7, <2>1, <2>2 DEF PVerdict
<1>9. PAskers' = PAskers
  BY <1>1 DEF PAskers, Askers
<1>10. Promise!Apply(c)
  BY <1>8, <1>9, Zenon DEF Promise!Apply, PAskers, PVerdict
<1>11. Promise!Next
  BY <1>10 DEF Promise!Next
<1> QED BY <1>4, <1>5, <1>11 DEF AskedInv
(* referencePage leaves the node of the call's name with a queue of        *)
(* askers, the caller included, that counts no more than there are.        *)
LEMMA ReferencedAnswer ==
    ASSUME IsFiniteSet(User), IInv, NEW c \in Core, pc[c] # "idle", RecordAsk(c),
           NEW q, QueueOK(q), Lists(q, Known(asked, call[c].name)), NEW r \in Referenced(c, q)
    PROVE  /\ Lists(r, Known(asked', call[c].name))
           /\ r.n_entry <= Cardinality(Askers(call[c].name) \cup {call[c].user})
<1> DEFINE nm == call[c].name
           A  == Askers(nm) \cup {call[c].user}
<1>1. /\ nm \in Name /\ call[c].user \in User /\ Slot0(c) \in Slot
      /\ call[c].time \in Nat /\ call[c].k \in Setting
  BY CallFacts DEF IInv
<1>2. Known(asked, nm) \subseteq Known(asked', nm) /\ Slot0(c) \in Known(asked', nm)
  BY <1>1, KnownFacts DEF IInv
<1>3. Lists(q, Known(asked', nm))
  BY <1>2 DEF Lists
<1>4. Lists(r, Known(asked', nm)) /\ QueueOK(r)
  BY <1>1, <1>2, <1>3, ReferencedLists, ReferencedOK
<1>6. Known(asked', nm) = {ClientHash[u] : u \in A}
  <2>1. \A m \in Name : Known(asked', m) = {ClientHash[u] : u \in Askers(m)'}
    BY DEF Known, Askers
  <2>2. Known(asked', nm) = {ClientHash[u] : u \in {v \in User : asked'[nm][v] # Never}}
    BY DEF Known
  <2>3. \A m \in Name : Askers(m)' = {v \in User : asked'[m][v] # Never}
    BY DEF Askers
  <2>4. \A m \in Name : Askers(m)' = IF m = nm THEN A ELSE Askers(m)
    BY <1>1, RecordFacts DEF IInv
  <2> HIDE DEF nm, A
  <2> QED BY <1>1, <2>2, <2>3, <2>4 DEF nm
<1>7. IsFiniteSet(A)
  <2>1. A \in SUBSET User
    BY <1>1 DEF Askers
  <2> QED BY <2>1, FS_Subset
<1>8. r.n_entry <= Cardinality(A)
  <2> HIDE DEF A, nm
  <2> QED BY <1>4, <1>6, <1>7, CountedAskers
<1> QED BY <1>4, <1>8

(* A call that finds its name's node asks for the name, once; it passes    *)
(* only if enough have asked.                                              *)
LEMMA FoundAsks ==
    ASSUME IsFiniteSet(User), IInv, AskedInv, NEW c \in Core, Found(c)
    PROVE  AskedInv' /\ Promise!Next
<1>1. PICK q \in Referenced(c, MyNode(c).queue) :
        Answer(c, [MyChain(c) EXCEPT ![cur[c]].queue = q], q.n_entry)
  BY DEF Found
<1>2. ~ segv /\ pc[c] = "found" /\ RecordAsk(c)
  BY <1>1 DEF Found, Answer
<1>3. /\ MyChain(c) \in Seq(NamesNode) /\ Len(MyChain(c)) \in Nat /\ MyBucket(c) \in Bucket
      /\ Slot0(c) \in Slot /\ call[c].time \in Nat /\ call[c].k \in Setting
  BY <1>2, CallFacts DEF IInv
<1>4. NodesOK(MyChain(c), FALSE) /\ cur[c] \in 1 .. Len(MyChain(c))
  BY <1>2, BucketFacts DEF CursorOK
<1>5. QueueOK(MyNode(c).queue)
  BY <1>4 DEF NodesOK, MyNode
<1>6. MyNode(c).name = call[c].name
  BY <1>2 DEF AskedInv, FoundOwnName
<1>7. \A j \in 1..Len(MyChain(c)) : Lists(MyChain(c)[j].queue, Known(asked, MyChain(c)[j].name))
  BY <1>3 DEF AskedInv, ListedAsked, MyChain
<1>8. Lists(MyNode(c).queue, Known(asked, call[c].name))
  BY <1>4, <1>6, <1>7 DEF MyNode
<1>9. /\ Lists(q, Known(asked', call[c].name))
      /\ q.n_entry <= Cardinality(Askers(call[c].name) \cup {call[c].user})
  BY <1>2, <1>5, <1>8, ReferencedAnswer
<1>10. q \in Queue /\ q.n_entry \in Int
  BY <1>3, <1>5, ReferencedOK
<1> DEFINE s == [MyChain(c) EXCEPT ![cur[c]].queue = q]
<1>11. /\ s \in Seq(NamesNode) /\ Len(s) = Len(MyChain(c))
       /\ \A j \in 1 .. Len(s) :
              s[j] = IF j = cur[c] THEN [name |-> MyNode(c).name, queue |-> q] ELSE MyChain(c)[j]
  BY <1>3, <1>4, <1>10, ReplacedAt DEF MyNode
<1>12. Answer(c, s, q.n_entry)
  BY <1>1
<1> HIDE DEF s
<1>13. ASSUME NEW j \in 1..Len(s) PROVE Lists(s[j].queue, Known(asked', s[j].name))
  <2>1. CASE j = cur[c]
    BY <1>6, <1>9, <1>11, <2>1
  <2>2. CASE j # cur[c]
    <3>1. s[j] = MyChain(c)[j] /\ j \in 1..Len(MyChain(c))
      BY <1>11, <2>2
    <3>2. MyChain(c)[j] \in NamesNode
      BY <1>3, <3>1, ElementOfSeq
    <3>3. MyChain(c)[j].name \in Name
      BY <3>2 DEF NamesNode
    <3>4. Known(asked, MyChain(c)[j].name) \subseteq Known(asked', MyChain(c)[j].name)
      BY <1>2, <3>3, KnownFacts DEF IInv
    <3> QED BY <1>7, <3>1, <3>4 DEF Lists
  <2> QED BY <2>1, <2>2
<1> QED BY <1>2, <1>9, <1>10, <1>11, <1>12, <1>13, AnswerAsks

(* So does one that makes the first node of a chain.                       *)
LEMMA CreateFirstAsks ==
    ASSUME IsFiniteSet(User), IInv, AskedInv, NEW c \in Core, CreateFirst(c)
    PROVE  AskedInv' /\ Promise!Next
<1>1. PICK q \in Referenced(c, EmptyQueue) :
        Answer(c, <<[name |-> call[c].name, queue |-> q]>>, q.n_entry)
  BY DEF CreateFirst
<1>2. pc[c] = "missing" /\ RecordAsk(c)
  BY <1>1 DEF CreateFirst, Answer
<1>3. /\ call[c].name \in Name
      /\ Slot0(c) \in Slot /\ call[c].time \in Nat /\ call[c].k \in Setting
  BY <1>2, CallFacts DEF IInv
<1>4. /\ Lists(q, Known(asked', call[c].name))
      /\ q.n_entry <= Cardinality(Askers(call[c].name) \cup {call[c].user})
  BY <1>2, EmptyQueueOK, EmptyLists, ReferencedAnswer
<1>5. q \in Queue /\ q.n_entry \in Int
  BY <1>3, EmptyQueueOK, ReferencedOK
<1> DEFINE e == [name |-> call[c].name, queue |-> q]
<1>6. e \in NamesNode /\ e.queue = q /\ e.name = call[c].name
  BY <1>3, <1>5 DEF NamesNode
<1>7. Answer(c, <<e>>, q.n_entry)
  BY <1>1
<1> HIDE DEF e
<1>8. <<e>> \in Seq(NamesNode) /\ Len(<<e>>) = 1 /\ <<e>>[1] = e
  BY <1>6
<1>9. \A j \in 1..Len(<<e>>) : Lists(<<e>>[j].queue, Known(asked', <<e>>[j].name))
  BY <1>4, <1>6, <1>8
<1> QED BY <1>2, <1>4, <1>5, <1>7, <1>8, <1>9, AnswerAsks

(* So does one that appends a node.                                        *)
LEMMA CreateAppendAsks ==
    ASSUME IsFiniteSet(User), IInv, AskedInv, NEW c \in Core, CreateAppend(c)
    PROVE  AskedInv' /\ Promise!Next
<1> DEFINE v(q) == Append(SubSeq(MyChain(c), 1, cur[c]), [name |-> call[c].name, queue |-> q])
<1>1. PICK q \in Referenced(c, EmptyQueue) : Answer(c, v(q), q.n_entry)
  BY DEF CreateAppend
<1>2. ~ segv /\ pc[c] = "missing" /\ RecordAsk(c) /\ number[MyBucket(c)] # 0
  BY <1>1 DEF CreateAppend, Answer
<1>3. /\ call[c].name \in Name /\ MyChain(c) \in Seq(NamesNode) /\ Len(MyChain(c)) \in Nat
      /\ Slot0(c) \in Slot /\ call[c].time \in Nat /\ call[c].k \in Setting
      /\ MyBucket(c) \in Bucket
  BY <1>2, CallFacts DEF IInv
<1>4. /\ Lists(q, Known(asked', call[c].name))
      /\ q.n_entry <= Cardinality(Askers(call[c].name) \cup {call[c].user})
  BY <1>2, EmptyQueueOK, EmptyLists, ReferencedAnswer
<1>5. q \in Queue /\ q.n_entry \in Int
  BY <1>3, EmptyQueueOK, ReferencedOK
<1>6. cur[c] \in 1 .. Len(MyChain(c))
  BY <1>2, BucketFacts DEF CountOK, CursorOK
<1> DEFINE e == [name |-> call[c].name, queue |-> q]
           s == v(q)
<1>7. e \in NamesNode /\ e.queue = q /\ e.name = call[c].name
  BY <1>3, <1>5 DEF NamesNode
<1>8. /\ s \in Seq(NamesNode) /\ Len(s) = cur[c] + 1 /\ s[cur[c] + 1] = e
      /\ \A j \in 1..cur[c] : s[j] = MyChain(c)[j]
  <2>1. cur[c] \in 0 .. Len(MyChain(c))
    BY <1>6
  <2> QED BY <1>3, <1>7, <2>1, AppendedAt
<1>9. Answer(c, s, q.n_entry)
  BY <1>1
<1>10. \A j \in 1..Len(MyChain(c)) :
           Lists(MyChain(c)[j].queue, Known(asked, MyChain(c)[j].name))
  BY <1>3 DEF AskedInv, ListedAsked, MyChain
<1> HIDE DEF s, e, v
<1>11. ASSUME NEW j \in 1..Len(s) PROVE Lists(s[j].queue, Known(asked', s[j].name))
  <2>1. CASE j = cur[c] + 1
    BY <1>4, <1>7, <1>8, <2>1
  <2>2. CASE j # cur[c] + 1
    <3>1. s[j] = MyChain(c)[j] /\ j \in 1..Len(MyChain(c))
      BY <1>3, <1>6, <1>8, <2>2
    <3>2. MyChain(c)[j] \in NamesNode
      BY <1>3, <3>1, ElementOfSeq
    <3>3. MyChain(c)[j].name \in Name
      BY <3>2 DEF NamesNode
    <3>4. Known(asked, MyChain(c)[j].name) \subseteq Known(asked', MyChain(c)[j].name)
      BY <1>2, <3>3, KnownFacts DEF IInv
    <3> QED BY <1>10, <3>1, <3>4 DEF Lists
  <2> QED BY <2>1, <2>2
<1> QED BY <1>2, <1>4, <1>5, <1>8, <1>9, <1>11, AnswerAsks

(* So does one that has no memory for a node, whose name does not pass.    *)
LEMMA CreateFailsAsks ==
    ASSUME IsFiniteSet(User), IInv, AskedInv, NEW c \in Core, CreateFails(c)
    PROVE  AskedInv' /\ Promise!Next
<1>1. pc[c] = "missing" /\ Answer(c, MyChain(c), 0) /\ RecordAsk(c)
  BY DEF CreateFails, Answer
<1>2. /\ MyChain(c) \in Seq(NamesNode) /\ MyBucket(c) \in Bucket /\ call[c].user \in User
  BY <1>1, CallFacts DEF IInv
<1>3. ASSUME NEW j \in 1..Len(MyChain(c))
      PROVE  Lists(MyChain(c)[j].queue, Known(asked', MyChain(c)[j].name))
  <2>1. MyChain(c)[j] \in NamesNode
    BY <1>2, ElementOfSeq
  <2>2. MyChain(c)[j].name \in Name
    BY <2>1 DEF NamesNode
  <2>3. Known(asked, MyChain(c)[j].name) \subseteq Known(asked', MyChain(c)[j].name)
    BY <1>1, <2>2, KnownFacts DEF IInv
  <2>4. Lists(MyChain(c)[j].queue, Known(asked, MyChain(c)[j].name))
    BY <1>2 DEF AskedInv, ListedAsked, MyChain
  <2> QED BY <2>3, <2>4 DEF Lists
<1>4. 0 <= Cardinality(Askers(call[c].name) \cup {call[c].user})
  <2> DEFINE A == Askers(call[c].name) \cup {call[c].user}
  <2>1. A \in SUBSET User
    BY <1>2 DEF Askers
  <2> HIDE DEF A
  <2>2. IsFiniteSet(A)
    BY <2>1, FS_Subset
  <2>3. Cardinality(A) \in Nat
    BY <2>2, FS_CardinalityType
  <2> QED BY <2>3 DEF A
<1>5. pc[c] \in {"found", "missing"} /\ 0 \in Int /\ Answer(c, MyChain(c), 0)
  BY <1>1
<1> DEFINE s == MyChain(c)
<1>6. /\ s \in Seq(NamesNode) /\ Answer(c, s, 0)
      /\ \A j \in 1..Len(s) : Lists(s[j].queue, Known(asked', s[j].name))
  BY <1>2, <1>3, <1>5
<1> HIDE DEF s
<1> QED BY <1>4, <1>5, <1>6, AnswerAsks
-----------------------------------------------------------------------------
(* The steps that answer nothing.                                          *)

(* Nothing that AskedInv depends on changes, but a core may have found its *)
(* node, or turned to another call.                                        *)
LEMMA TableUntouched ==
    ASSUME IInv, AskedInv, NEW c \in Core, UNCHANGED <<chain, asked, ret>>,
           \A d \in Core : d # c => pc'[d] = pc[d] /\ cur'[d] = cur[d] /\ call'[d] = call[d],
           pc[c] # "unlock", pc'[c] # "unlock",
           pc'[c] = "found" => MyNode(c)'.name = call'[c].name
    PROVE  AskedInv' /\ UNCHANGED Promise!vars
<1>1. ListedAsked'
  BY DEF AskedInv, ListedAsked
<1>2. FoundOwnName'
  <2> SUFFICES ASSUME NEW d \in Core, pc'[d] = "found", d # c
               PROVE  MyNode(d)'.name = call'[d].name
    BY DEF FoundOwnName
  <2>1. MyNode(d).name = call[d].name
    BY DEF AskedInv, FoundOwnName
  <2>2. MyNode(d)' = MyNode(d)
    BY DEF MyNode, MyChain, MyBucket
  <2> QED BY <2>1, <2>2
<1>3. ASSUME NEW d \in Core PROVE Verdict(d)' = Verdict(d)
  <2>1. CASE d = c
    BY <2>1, VerdictStays
  <2>2. CASE d # c
    <3>1. pc'[d] = pc[d] /\ call'[d] = call[d]
      BY <2>2
    <3> QED BY <3>1, VerdictStays
  <2> QED BY <2>1, <2>2
<1>4. UNCHANGED Promise!vars
  BY <1>3, Stutters
<1> QED BY <1>1, <1>2, <1>4 DEF AskedInv

(* One bucket's chain changes under its mutex, and lists no new client.    *)
LEMMA BucketCleaned ==
    ASSUME IInv, AskedInv, NEW c \in Core, pc[c] = "walk", UNCHANGED <<pc, call, asked, ret>>,
           \A d \in Core : d # c => cur'[d] = cur[d],
           NEW s \in Seq(NamesNode), chain' = [chain EXCEPT ![MyBucket(c)] = s],
           \A j \in 1..Len(s) : Lists(s[j].queue, Known(asked, s[j].name))
    PROVE  AskedInv' /\ UNCHANGED Promise!vars
<1>1. MyBucket(c) \in Bucket /\ chain \in [Bucket -> Seq(NamesNode)] /\ TypeOK
  BY CallFacts DEF IInv, TypeOK
<1>2. ListedAsked'
  BY <1>1, ListedChanged DEF AskedInv
<1>3. \A b \in Bucket : b # MyBucket(c) => chain'[b] = chain[b]
  BY <1>1
<1>4. FoundOwnName'
  <2>1. pc[c] \in Held /\ pc'[c] # "found" /\ \A d \in Core : pc'[d] = pc[d]
    BY DEF Held
  <2> QED BY <1>3, <2>1, FoundStays DEF AskedInv
<1>5. \A d \in Core : Verdict(d)' = Verdict(d)
  BY DEF Verdict
<1> QED BY <1>2, <1>4, <1>5, Stutters DEF AskedInv

(* The walk along the chain is no step of the promise.                     *)
LEMMA WalkStutters ==
    ASSUME IInv, AskedInv, NEW c \in Core,
           Arrive(c) \/ Acquire(c) \/ Match(c) \/ EndOfChain(c) \/ LoopExit(c) \/ Advance(c)
    PROVE  AskedInv' /\ UNCHANGED Promise!vars
<1>1. /\ pc \in [Core -> Labels] /\ call \in [Core -> Call \cup {None}] /\ cur \in [Core -> Nat]
  BY DEF IInv, TypeOK
<1>2. UNCHANGED <<chain, asked, ret>> /\ pc[c] # "unlock"
  BY DEF Arrive, Acquire, Match, EndOfChain, LoopExit, Advance, PassOver, InLoop, table
<1>3. \A d \in Core : d # c => pc'[d] = pc[d] /\ cur'[d] = cur[d] /\ call'[d] = call[d]
  <2>1. CASE Arrive(c)
    BY <1>1, <2>1 DEF Arrive, walk
  <2>2. CASE Acquire(c)
    BY <1>1, <2>2 DEF Acquire
  <2>3. CASE Match(c)
    BY <1>1, <2>3 DEF Match, walk
  <2>4. CASE EndOfChain(c)
    BY <1>1, <2>4 DEF EndOfChain, walk
  <2>5. CASE LoopExit(c)
    BY <1>1, <2>5 DEF LoopExit, walk
  <2>6. CASE Advance(c)
    BY <1>1, <2>6 DEF Advance
  <2> QED BY <2>1, <2>2, <2>3, <2>4, <2>5, <2>6
<1>4. pc'[c] # "unlock"
  BY <1>1 DEF Arrive, Acquire, Match, EndOfChain, LoopExit, Advance, PassOver, InLoop
<1>5. pc'[c] = "found" => MyNode(c)'.name = call'[c].name
  <2>1. CASE Match(c)
    <3>1. MyNode(c).name = call[c].name /\ UNCHANGED <<chain, call, cur>>
      BY <2>1 DEF Match, table, walk
    <3>2. MyNode(c)' = MyNode(c)
      BY <3>1 DEF MyNode, MyChain, MyBucket
    <3> QED BY <3>1, <3>2
  <2>2. CASE Arrive(c) \/ Acquire(c) \/ EndOfChain(c) \/ LoopExit(c) \/ Advance(c)
    BY <1>1, <2>2 DEF Arrive, Acquire, EndOfChain, LoopExit, Advance, PassOver, InLoop
  <2> QED BY <2>1, <2>2
<1> QED BY <1>2, <1>3, <1>4, <1>5, TableUntouched

(* Cleaning a queue is none either: the promise forgets nobody.            *)
LEMMA CleanKeepStutters ==
    ASSUME IInv, AskedInv, NEW c \in Core, CleanKeep(c)
    PROVE  AskedInv' /\ UNCHANGED Promise!vars
<1>1. /\ InLoop(c) /\ pc[c] = "walk" /\ cur' = [cur EXCEPT ![c] = @ + 1]
      /\ chain' = [chain EXCEPT ![MyBucket(c)][cur[c]].queue = Cleaned(c)]
      /\ UNCHANGED <<pc, call, asked, ret>>
  BY DEF CleanKeep, PassOver, InLoop
<1>2. /\ MyBucket(c) \in Bucket /\ MyChain(c) \in Seq(NamesNode)
      /\ call[c].time \in Nat /\ call[c].k \in Setting
      /\ chain \in [Bucket -> Seq(NamesNode)] /\ cur \in [Core -> Nat]
  BY <1>1, CallFacts DEF IInv, TypeOK
<1>3. cur[c] \in 1..Len(MyChain(c)) /\ QueueOK(MyNode(c).queue)
  BY <1>1, InLoopFacts
<1>4. Cleaned(c) \in Queue
  BY <1>2, <1>3, CleanedOK
<1>5. \A j \in 1..Len(MyChain(c)) :
          Lists(MyChain(c)[j].queue, Known(asked, MyChain(c)[j].name))
  BY <1>2 DEF AskedInv, ListedAsked, MyChain
<1>6. Lists(Cleaned(c), Known(asked, MyNode(c).name))
  <2>1. Lists(MyNode(c).queue, Known(asked, MyNode(c).name))
    BY <1>3, <1>5 DEF MyNode
  <2> QED BY <1>2, <1>3, <2>1, CleanedLists
<1> DEFINE s == [MyChain(c) EXCEPT ![cur[c]].queue = Cleaned(c)]
<1>7. /\ s \in Seq(NamesNode) /\ Len(s) = Len(MyChain(c))
      /\ \A j \in 1 .. Len(s) : s[j] = IF j = cur[c]
                                       THEN [name |-> MyNode(c).name, queue |-> Cleaned(c)]
                                       ELSE MyChain(c)[j]
  BY <1>2, <1>3, <1>4, ReplacedAt, SMTT(60) DEF MyNode
<1>8. chain' = [chain EXCEPT ![MyBucket(c)] = s]
  BY <1>1, <1>2 DEF MyChain
<1> HIDE DEF s
<1>9. \A j \in 1..Len(s) : Lists(s[j].queue, Known(asked, s[j].name))
  <2> TAKE j \in 1..Len(s)
  <2>1. CASE j = cur[c]
    BY <1>6, <1>7, <2>1
  <2>2. CASE j # cur[c]
    BY <1>5, <1>7, <2>2
  <2> QED BY <2>1, <2>2
<1>10. \A d \in Core : d # c => cur'[d] = cur[d]
  BY <1>1, <1>2
<1> QED BY <1>1, <1>7, <1>8, <1>9, <1>10, BucketCleaned

(* Nor is removing a node.                                                 *)
LEMMA CleanRemoveStutters ==
    ASSUME IInv, AskedInv, NEW c \in Core, CleanRemove(c)
    PROVE  AskedInv' /\ UNCHANGED Promise!vars
<1>1. /\ InLoop(c) /\ pc[c] = "walk" /\ ~ segv
      /\ chain' = [chain EXCEPT ![MyBucket(c)] =
                     SubSeq(@, 1, cur[c] - 1) \o SubSeq(@, cur[c] + 1, Len(@))]
      /\ UNCHANGED <<pc, call, cur, asked, ret>>
  BY DEF CleanRemove, PassOver, InLoop
<1> DEFINE old == MyChain(c)
           s == SubSeq(old, 1, cur[c] - 1) \o SubSeq(old, cur[c] + 1, Len(old))
<1>2. /\ MyBucket(c) \in Bucket /\ old \in Seq(NamesNode) /\ chain \in [Bucket -> Seq(NamesNode)]
  BY <1>1, CallFacts DEF IInv, TypeOK
<1>3. cur[c] \in 1..Len(old)
  BY <1>1, InLoopFacts
<1>4. NodesOK(old, FALSE)
  BY <1>1, <1>2 DEF IInv, ChainsInv, NodesOK, MyChain
<1>5. s \in Seq(NamesNode) /\ \A j \in 1..Len(s) : \E l \in 1..Len(old) : s[j] = old[l]
  BY <1>2, <1>3, <1>4, NodeRemoved
<1>6. chain' = [chain EXCEPT ![MyBucket(c)] = s]
  BY <1>1, <1>2 DEF MyChain
<1>7. \A j \in 1..Len(old) : Lists(old[j].queue, Known(asked, old[j].name))
  BY <1>2 DEF AskedInv, ListedAsked, MyChain
<1> HIDE DEF s, old
<1>8. \A j \in 1..Len(s) : Lists(s[j].queue, Known(asked, s[j].name))
  BY <1>5, <1>7
<1> QED BY <1>1, <1>5, <1>6, <1>8, BucketCleaned

-----------------------------------------------------------------------------
(* Nobody has asked in the beginning, here and in the promise.             *)
LEMMA InitAsked == Init => AskedInv /\ Promise!Init
<1> SUFFICES ASSUME Init PROVE AskedInv /\ Promise!Init
  OBVIOUS
<1>1. \A b \in Bucket : Len(chain[b]) = 0
  BY DEF Init
<1>2. \A c \in Core : pc[c] = "idle"
  BY DEF Init
<1>3. \A n \in Name : Askers(n) = {}
  BY DEF Init, Askers
<1>4. \A c \in Core : Verdict(c) = {}
  BY <1>2 DEF Verdict
<1>5. Promise!Init
  BY <1>3, <1>4 DEF Promise!Init
<1>6. AskedInv
  BY <1>1, <1>2 DEF AskedInv, ListedAsked, FoundOwnName
<1> QED BY <1>5, <1>6

(* Every step of the table is a step of the promise, or none.              *)
LEMMA StepAsked ==
    ASSUME IsFiniteSet(User), IInv, AskedInv, [Next]_vars
    PROVE  AskedInv' /\ [Promise!Next]_(Promise!vars)
<1>1. CASE Tick
  <2>1. UNCHANGED <<chain, asked, ret, pc, cur, call>>
    BY <1>1 DEF Tick, table, walk
  <2>2. AskedInv'
    BY <2>1 DEF AskedInv, ListedAsked, FoundOwnName, MyNode, MyChain, MyBucket
  <2>3. \A d \in Core : Verdict(d)' = Verdict(d)
    BY <2>1 DEF Verdict
  <2> QED BY <2>1, <2>2, <2>3, Stutters
<1>2. CASE UNCHANGED vars
  <2>1. UNCHANGED <<chain, asked, ret, pc, cur, call>>
    BY <1>2 DEF vars
  <2>2. AskedInv'
    BY <2>1 DEF AskedInv, ListedAsked, FoundOwnName, MyNode, MyChain, MyBucket
  <2>3. \A d \in Core : Verdict(d)' = Verdict(d)
    BY <2>1 DEF Verdict
  <2> QED BY <2>1, <2>2, <2>3, Stutters
<1>3. ASSUME NEW c \in Core, Arrive(c) \/ Acquire(c) \/ Holding(c)
      PROVE  AskedInv' /\ [Promise!Next]_(Promise!vars)
  <2>1. CASE Arrive(c) \/ Acquire(c) \/ Match(c) \/ EndOfChain(c) \/ LoopExit(c) \/ Advance(c)
    BY <2>1, WalkStutters
  <2>2. CASE CleanKeep(c)
    BY <2>2, CleanKeepStutters
  <2>3. CASE CleanRemove(c)
    BY <2>3, CleanRemoveStutters
  <2>4. CASE Found(c)
    BY <2>4, FoundAsks
  <2>5. CASE CreateFirst(c)
    BY <2>5, CreateFirstAsks
  <2>6. CASE CreateAppend(c)
    BY <2>6, CreateAppendAsks
  <2>7. CASE CreateFails(c)
    BY <2>7, CreateFailsAsks
  <2>8. CASE Release(c)
    BY <2>8, ReleaseApplies
  <2> QED BY <1>3, <2>1, <2>2, <2>3, <2>4, <2>5, <2>6, <2>7, <2>8 DEF Holding
<1> QED BY <1>1, <1>2, <1>3 DEF Next

(* Every client in the queue of a name asked for that name.                *)
THEOREM ListedClientsAsked == IsFiniteSet(User) /\ Spec => [](IInv /\ AskedInv)
<1>1. IsFiniteSet(User) /\ Init => IInv /\ AskedInv
  BY InitIInv, InitAsked
<1>2. IsFiniteSet(User) /\ IInv /\ AskedInv /\ [Next]_vars => (IInv /\ AskedInv)'
  BY NextKeeps, StepAsked
<1>3. IsFiniteSet(User) => []IsFiniteSet(User)
  <2>1. IsFiniteSet(User) => IsFiniteSet(User)'
    OBVIOUS
  <2> QED BY <2>1, PTL
<1> QED BY <1>1, <1>2, <1>3, PTL DEF Spec

(* src/README.md:82: the table implements AlphaAnon. A name passes in      *)
(* clear only if at least alpha distinct users asked for it, whatever the  *)
(* hashes, the interleaving of the cores, the cleaning and the mallocs.    *)
THEOREM PromiseKept == IsFiniteSet(User) /\ Spec => KeepsPromise
<1>1. Init => Promise!Init
  BY InitAsked
<1>2. IsFiniteSet(User) /\ IInv /\ AskedInv /\ [Next]_vars => [Promise!Next]_(Promise!vars)
  BY StepAsked
<1>3. IsFiniteSet(User) => []IsFiniteSet(User)
  <2>1. IsFiniteSet(User) => IsFiniteSet(User)'
    OBVIOUS
  <2> QED BY <2>1, PTL
<1> QED BY <1>1, <1>2, <1>3, ListedClientsAsked, PTL DEF Spec, KeepsPromise, Promise!Spec

-----------------------------------------------------------------------------
(* No asker is forgotten: what the queue of a name in a bucket of its own  *)
(* keeps, with mallocs that succeed.                                       *)

(* The users with a cell of their own whose last call, by history h, is    *)
(* not older at time t than any delta.                                     *)
AllFresh(h, t) ==
    {u \in Uncollided : h[u] # Never /\ \A k \in Setting : h[u] >= t - k.delta}

(* Each of them is listed with the stamp of that call.                     *)
Remembers(q, h, t) ==
    \A u \in AllFresh(h, t) :
        \E j \in 1..Len(q.lru) : q.lru[j].slot = ClientHash[u] /\ q.lru[j].stamp = h[u]

(* A name in a bucket of its own has one node from its first call on.      *)
OwnChain(n) ==
    IF chain[NameHash[n]] = << >> THEN \A u \in User : asked[n][u] = Never
    ELSE /\ Len(chain[NameHash[n]]) = 1
         /\ chain[NameHash[n]][1].name = n
         /\ Remembers(chain[NameHash[n]][1].queue, asked[n], clock)

(* The walk in such a bucket ends where it starts.                         *)
OwnCore(c) ==
    /\ pc[c] = "walk" => i[c] = 0
    /\ pc[c] = "missing" => MyChain(c) = << >>
    /\ pc[c] = "unlock" => MyChain(c) # << >> /\ ret[c] = MyChain(c)[1].queue.n_entry

CallsPast == \A c \in Core : pc[c] # "idle" => call[c].time <= clock

ChainsKept == \A n \in Name : InOwnBucket(n) => OwnChain(n)

CoresKept == \A c \in Core : pc[c] # "idle" /\ InOwnBucket(call[c].name) => OwnCore(c)

KeptInv == CallsPast /\ ChainsKept /\ CoresKept

(* referencePage forgets no fresh client: the caller goes to the head, the *)
(* others keep their stamps, and prune drops only what is older than the   *)
(* delta of the call, which is not made in the future.                     *)
LEMMA ReferenceRemembers ==
    ASSUME NEW q, QueueOK(q), NEW u0 \in User, NEW t \in Nat, NEW k \in Setting, NEW now \in Nat,
           t <= now, NEW h \in [User -> Nat \cup {Never}], Remembers(q, h, now)
    PROVE  Remembers(ReferencePage(q, ClientHash[u0], t, k), [h EXCEPT ![u0] = t], now)
<1> DEFINE s == ClientHash[u0]
           w == Touch(q, s, t)
           v == Settle(w, t, k)
           g == [h EXCEPT ![u0] = t]
<1>1. s \in Slot /\ k.delta \in Nat
  BY TableAssumption, QueueAssumption
<1>2. QueueOK(w) /\ Len(w.lru) >= 1 /\ w.lru[1] = [slot |-> s, stamp |-> t]
  BY <1>1, TouchFacts
<1>3. \A j \in 2..Len(w.lru) : Origin(q, s, j) \in 1..Len(q.lru) /\ w.lru[j] = q.lru[Origin(q, s, j)]
  BY <1>1, TouchFacts, ZenonT(60)
<1>4. Slots(q) \subseteq Slots(w)
  BY <1>1, TouchFacts
<1>5. Len(w.lru) \in Nat /\ Slots(w) = {w.lru[j].slot : j \in 1..Len(w.lru)}
  BY <1>2, QueueFacts
<1>6. \A j, l \in 1..Len(w.lru) : w.lru[j].slot = w.lru[l].slot => j = l
  BY <1>2, QueueFacts
<1>7. Slots(q) = {q.lru[j].slot : j \in 1..Len(q.lru)}
  BY QueueFacts
<1>8. \A j, l \in 1..Len(q.lru) : q.lru[j].slot = q.lru[l].slot => j = l
  BY QueueFacts
<1>9. QueueOK(v) /\ Len(v.lru) <= Len(w.lru) /\ \A j \in 1..Len(v.lru) : v.lru[j] = w.lru[j]
  BY <1>2, SettleFacts
<1>10. \A x \in Slots(w) \ Slots(v) :
         \E j \in 1..Len(w.lru) : w.lru[j].slot = x /\ w.lru[j].stamp < t - k.delta
  BY <1>2, SettleFacts
<1>11. Len(v.lru) \in Nat /\ Slots(v) = {v.lru[j].slot : j \in 1..Len(v.lru)}
  BY <1>9, QueueFacts
<1>12. ReferencePage(q, s, t, k) = v
  BY DEF ReferencePage
<1> HIDE DEF s, w, v
<1> SUFFICES ASSUME NEW u \in AllFresh(g, now)
             PROVE  \E j \in 1..Len(v.lru) : v.lru[j].slot = ClientHash[u] /\ v.lru[j].stamp = g[u]
  BY <1>12 DEF Remembers, s
<1>13. u \in User /\ u \in Uncollided /\ g[u] # Never /\ g[u] >= now - k.delta /\ g[u] \in Nat
  <2>1. g \in [User -> Nat \cup {Never}]
    OBVIOUS
  <2> QED BY <2>1 DEF AllFresh, Uncollided
<1>14. PICK l \in 1..Len(w.lru) : w.lru[l].slot = ClientHash[u] /\ w.lru[l].stamp = g[u]
  <2>1. CASE u = u0
    <3>1. g[u] = t /\ 1 \in 1..Len(w.lru)
      BY <1>2, <1>5, <2>1
    <3> QED BY <1>2, <2>1, <3>1 DEF s
  <2>2. CASE u # u0
    <3>1. g[u] = h[u] /\ u \in AllFresh(h, now)
      BY <1>13, <2>2 DEF AllFresh
    <3>2. PICK j \in 1..Len(q.lru) : q.lru[j].slot = ClientHash[u] /\ q.lru[j].stamp = h[u]
      BY <3>1 DEF Remembers
    <3>3. ClientHash[u] # s
      BY <1>13, <2>2 DEF Uncollided, s
    <3>4. ClientHash[u] \in Slots(w)
      BY <1>4, <1>7, <3>2
    <3>5. PICK l \in 1..Len(w.lru) : w.lru[l].slot = ClientHash[u]
      BY <1>5, <3>4
    <3>6. l \in 2..Len(w.lru)
      BY <1>2, <1>5, <3>3, <3>5
    <3>7. w.lru[l] = q.lru[Origin(q, s, l)] /\ Origin(q, s, l) \in 1..Len(q.lru)
      BY <1>3, <3>6
    <3>8. Origin(q, s, l) = j
      BY <1>8, <3>2, <3>5, <3>7
    <3> QED BY <3>1, <3>2, <3>5, <3>7, <3>8
  <2> QED BY <2>1, <2>2
<1>15. ClientHash[u] \in Slots(v)
  <2> SUFFICES ASSUME ClientHash[u] \notin Slots(v) PROVE FALSE
    OBVIOUS
  <2>1. ClientHash[u] \in Slots(w)
    BY <1>5, <1>14
  <2>2. PICK j \in 1..Len(w.lru) : w.lru[j].slot = ClientHash[u] /\ w.lru[j].stamp < t - k.delta
    BY <1>10, <2>1
  <2>3. j = l
    BY <1>6, <1>14, <2>2
  <2> QED BY <1>1, <1>13, <1>14, <2>2, <2>3
<1>16. PICK m \in 1..Len(v.lru) : v.lru[m].slot = ClientHash[u]
  BY <1>11, <1>15
<1>17. m \in 1..Len(w.lru) /\ v.lru[m] = w.lru[m]
  BY <1>5, <1>9, <1>11
<1>18. m = l
  BY <1>6, <1>14, <1>16, <1>17
<1> QED BY <1>14, <1>16, <1>17, <1>18

(* The counter covers the fresh users: they are in different entries.      *)
LEMMA RememberedCounted ==
    ASSUME IsFiniteSet(User), NEW q, QueueOK(q), NEW h, NEW t, Remembers(q, h, t)
    PROVE  q.n_entry >= Cardinality(AllFresh(h, t))
<1> DEFINE F == AllFresh(h, t)
           at(u) == CHOOSE j \in 1..Len(q.lru) : q.lru[j].slot = ClientHash[u]
           f == [u \in F |-> at(u)]
<1>1. Len(q.lru) \in Nat /\ q.n_entry = Len(q.lru)
  BY QueueFacts
<1>2. \A u \in F : at(u) \in 1..Len(q.lru) /\ q.lru[at(u)].slot = ClientHash[u]
  <2> TAKE u \in F
  <2>1. \E j \in 1..Len(q.lru) : q.lru[j].slot = ClientHash[u]
    BY DEF Remembers
  <2> QED BY <2>1
<1>3. F \subseteq Uncollided /\ F \subseteq User
  BY DEF AllFresh, Uncollided
<1> HIDE DEF F, at
<1>4. f \in [F -> 1..Len(q.lru)] /\ \A u \in F : q.lru[f[u]].slot = ClientHash[u]
  BY <1>2
<1> HIDE DEF f
<1>5. \A u, v \in F : f[u] = f[v] => u = v
  BY <1>3, <1>4 DEF Uncollided
<1>6. f \in Injection(F, 1..Len(q.lru))
  BY <1>4, <1>5 DEF Injection, IsInjective
<1>7. IsFiniteSet(1..Len(q.lru)) /\ Cardinality(1..Len(q.lru)) = Len(q.lru)
  <2>1. 1 \in Int /\ Len(q.lru) \in Int
    BY <1>1
  <2>2. /\ IsFiniteSet(1..Len(q.lru))
        /\ Cardinality(1..Len(q.lru)) = IF 1 > Len(q.lru) THEN 0 ELSE Len(q.lru) - 1 + 1
    BY ONLY <2>1, FS_Interval, Zenon
  <2> QED BY <1>1, <2>2
<1>8. Cardinality(F) <= Cardinality(1..Len(q.lru))
  BY <1>6, <1>7, FS_Injection
<1>9. Cardinality(F) \in Nat
  BY <1>3, FS_Subset, FS_CardinalityType
<1> QED BY <1>1, <1>7, <1>8, <1>9 DEF F

(* What time does: fewer users are fresh.                                  *)
LEMMA FreshShrink ==
    ASSUME NEW q, NEW h, NEW t \in Nat, Remembers(q, h, t),
           \A u \in User : h[u] \in Nat \cup {Never}
    PROVE  Remembers(q, h, t + 1)
<1>1. \A k \in Setting : k.delta \in Nat
  BY QueueAssumption
<1>2. AllFresh(h, t + 1) \subseteq AllFresh(h, t)
  <2> SUFFICES ASSUME NEW u \in AllFresh(h, t + 1) PROVE u \in AllFresh(h, t)
    OBVIOUS
  <2>1. u \in Uncollided /\ u \in User /\ h[u] # Never /\ \A k \in Setting : h[u] >= (t + 1) - k.delta
    BY DEF AllFresh, Uncollided
  <2>2. h[u] \in Nat
    BY <2>1
  <2>3. \A k \in Setting : h[u] >= t - k.delta
    BY <1>1, <2>1, <2>2
  <2> QED BY <2>1, <2>3 DEF AllFresh
<1> QED BY <1>2 DEF Remembers

(* The names whose bucket a step leaves alone.                             *)
LEMMA ChainElsewhere ==
    ASSUME NEW n \in Name, OwnChain(n), UNCHANGED clock, asked'[n] = asked[n],
           chain'[NameHash[n]] = chain[NameHash[n]]
    PROVE  OwnChain(n)'
BY DEF OwnChain

(* The cores that a step of core c leaves alone: one with a mutex has that *)
(* of another bucket.                                                      *)
LEMMA CoreElsewhere ==
    ASSUME TypeOK, LocksInv, CoresKept, NEW c \in Core, NEW d \in Core, d # c,
           pc'[d] = pc[d], call'[d] = call[d], i'[d] = i[d], ret'[d] = ret[d],
           UNCHANGED chain
             \/ (pc[c] \in Held /\ \A b \in Bucket : b # MyBucket(c) => chain'[b] = chain[b]),
           pc'[d] # "idle", InOwnBucket(call'[d].name)
    PROVE  OwnCore(d)'
<1>1. OwnCore(d)
  BY DEF CoresKept
<1>2. CASE pc[d] \in Held
  <2>1. MyBucket(d)' = MyBucket(d) /\ MyBucket(d) \in Bucket
    BY CallFacts DEF MyBucket
  <2>2. MyChain(d)' = MyChain(d)
    <3>1. CASE UNCHANGED chain
      BY <2>1, <3>1 DEF MyChain
    <3>2. CASE pc[c] \in Held /\ \A b \in Bucket : b # MyBucket(c) => chain'[b] = chain[b]
      <4>1. MyBucket(c) # MyBucket(d)
        BY <1>2, <3>2, Exclusion
      <4> QED BY <2>1, <3>2, <4>1 DEF MyChain
    <3> QED BY <3>1, <3>2
  <2> QED BY <1>1, <2>2 DEF OwnCore
<1>3. CASE pc[d] \notin Held
  BY <1>3 DEF OwnCore, Held
<1> QED BY <1>2, <1>3

(* A step that leaves the chains and the history: what is left to show is  *)
(* what becomes of the core.                                               *)
LEMMA QuietKept ==
    ASSUME IInv, KeptInv, NEW c \in Core, UNCHANGED <<clock, chain, asked>>,
           \A d \in Core : d # c => /\ pc'[d] = pc[d] /\ call'[d] = call[d]
                                    /\ i'[d] = i[d] /\ ret'[d] = ret[d],
           pc'[c] # "idle" => call'[c].time <= clock,
           pc'[c] # "idle" /\ InOwnBucket(call'[c].name) => OwnCore(c)'
    PROVE  KeptInv'
<1>1. CallsPast'
  BY DEF KeptInv, CallsPast
<1>2. ChainsKept'
  BY ChainElsewhere DEF KeptInv, ChainsKept
<1>3. CoresKept'
  <2> SUFFICES ASSUME NEW d \in Core, pc'[d] # "idle", InOwnBucket(call'[d].name)
               PROVE  OwnCore(d)'
    BY DEF CoresKept, InOwnBucket
  <2>1. CASE d = c
    BY <2>1
  <2>2. CASE d # c
    BY <2>2, CoreElsewhere DEF IInv, KeptInv
  <2> QED BY <2>1, <2>2
<1> QED BY <1>1, <1>2, <1>3 DEF KeptInv

(* In a bucket of its own a core never meets another name's node.          *)
LEMMA NoOtherName ==
    ASSUME IInv, KeptInv, NEW c \in Core, InLoop(c), InOwnBucket(call[c].name)
    PROVE  MyNode(c).name = call[c].name
<1>1. cur[c] \in 1 .. Len(MyChain(c)) /\ call[c].name \in Name
  <2>1. pc[c] # "idle"
    BY DEF InLoop
  <2> QED BY <2>1, InLoopFacts, CallFacts DEF IInv
<1>2. OwnChain(call[c].name) /\ MyChain(c) = chain[NameHash[call[c].name]]
  BY <1>1 DEF KeptInv, ChainsKept, MyChain, MyBucket
<1>3. MyChain(c) # << >>
  BY <1>1
<1>4. Len(MyChain(c)) = 1 /\ MyChain(c)[1].name = call[c].name
  BY <1>2, <1>3, Zenon DEF OwnChain
<1> QED BY <1>1, <1>4 DEF MyNode

(* The steps without the mutex, and those of the walk that change only the *)
(* core's place.                                                           *)
LEMMA PlaceKept ==
    ASSUME IInv, KeptInv, NEW c \in Core,
           \/ Arrive(c) \/ Acquire(c) \/ Match(c) \/ EndOfChain(c) \/ LoopExit(c)
           \/ Advance(c) \/ Release(c)
    PROVE  KeptInv'
<1> USE DEF IInv, TypeOK
<1>1. /\ UNCHANGED <<clock, chain, asked>>
      /\ \A d \in Core : d # c => /\ pc'[d] = pc[d] /\ call'[d] = call[d]
                                  /\ i'[d] = i[d] /\ ret'[d] = ret[d]
  BY DEF Arrive, Acquire, Match, EndOfChain, LoopExit, Advance, Release, PassOver, table, walk
<1>2. CASE Arrive(c)
  <2>1. PICK n \in Name, u \in User, k \in Setting, clean \in BOOLEAN :
          call' = [call EXCEPT ![c] =
                    [name |-> n, user |-> u, time |-> clock, k |-> k, clean |-> clean]]
    BY <1>2 DEF Arrive
  <2>2. pc'[c] = "lock" /\ call'[c].time = clock /\ clock \in Nat
    BY <1>2, <2>1 DEF Arrive
  <2>3. OwnCore(c)' /\ call'[c].time <= clock
    BY <2>2 DEF OwnCore
  <2> QED BY <1>1, <2>3, QuietKept
<1>3. CASE Acquire(c)
  <2>1. pc[c] = "lock" /\ pc'[c] = "walk" /\ i'[c] = 0 /\ call' = call
    BY <1>3 DEF Acquire
  <2> QED BY <1>1, <2>1, QuietKept DEF OwnCore, KeptInv, CallsPast
<1>4. CASE Match(c)
  <2>1. pc[c] = "walk" /\ pc'[c] = "found" /\ call' = call
    BY <1>4 DEF Match, InLoop
  <2> QED BY <1>1, <2>1, QuietKept DEF OwnCore, KeptInv, CallsPast
<1>5. CASE EndOfChain(c)
  <2>1. pc[c] = "walk" /\ pc'[c] = "missing" /\ call' = call /\ ~ InOwnBucket(call[c].name)
    BY <1>5, NoOtherName DEF EndOfChain, InLoop
  <2> QED BY <1>1, <2>1, QuietKept DEF KeptInv, CallsPast
<1>6. CASE LoopExit(c)
  <2>1. /\ pc[c] = "walk" /\ pc'[c] = "missing" /\ call' = call /\ MyChain(c)' = MyChain(c)
        /\ i[c] >= number[MyBucket(c)]
    BY <1>6 DEF LoopExit, MyChain, MyBucket, table
  <2>2. ASSUME InOwnBucket(call[c].name) PROVE MyChain(c) = << >>
    <3>1. i[c] = 0 /\ MyBucket(c) \in Bucket
      BY <2>1, <2>2, CallFacts DEF KeptInv, CoresKept, OwnCore
    <3>2. CountOK(MyChain(c), number[MyBucket(c)]) /\ number[MyBucket(c)] \in Int
      BY <3>1 DEF ChainsInv, MyChain
    <3>3. Len(MyChain(c)) \in Nat
      BY <2>1, CallFacts
    <3> QED BY <2>1, <3>1, <3>2, <3>3 DEF CountOK
  <2> QED BY <1>1, <2>1, <2>2, QuietKept DEF OwnCore, KeptInv, CallsPast
<1>7. CASE Advance(c)
  <2>1. pc[c] = "walk" /\ pc' = pc /\ call' = call /\ ~ InOwnBucket(call[c].name)
    BY <1>7, NoOtherName DEF Advance, PassOver, InLoop
  <2> QED BY <1>1, <2>1, QuietKept DEF KeptInv, CallsPast
<1>8. CASE Release(c)
  <2>1. pc'[c] = "idle"
    BY <1>8 DEF Release
  <2> QED BY <1>1, <2>1, QuietKept
<1> QED BY <1>2, <1>3, <1>4, <1>5, <1>6, <1>7, <1>8

(* Cleaning happens in buckets of several names.                           *)
LEMMA CleanKept ==
    ASSUME IInv, KeptInv, NEW c \in Core, CleanKeep(c) \/ CleanRemove(c)
    PROVE  KeptInv'
<1>1. pc[c] = "walk" /\ ~ InOwnBucket(call[c].name)
  BY NoOtherName, Zenon DEF CleanKeep, CleanRemove, PassOver, InLoop
<1>2. /\ UNCHANGED <<clock, asked, pc, call, ret>>
      /\ \A b \in Bucket : b # MyBucket(c) => chain'[b] = chain[b]
      /\ \A d \in Core : d # c => i'[d] = i[d]
  BY DEF CleanKeep, CleanRemove, IInv, TypeOK
<1>3. CallsPast'
  BY <1>2 DEF KeptInv, CallsPast
<1>4. ChainsKept'
  <2> SUFFICES ASSUME NEW n \in Name, InOwnBucket(n) PROVE OwnChain(n)'
    BY DEF ChainsKept, InOwnBucket
  <2>1. NameHash[n] \in Bucket /\ call[c].name \in Name
    BY <1>1, TableAssumption, CallFacts DEF IInv
  <2>2. NameHash[n] # MyBucket(c)
    BY <1>1, <2>1 DEF InOwnBucket, MyBucket
  <2> QED BY <1>2, <2>1, <2>2, ChainElsewhere DEF KeptInv, ChainsKept
<1>5. CoresKept'
  <2> SUFFICES ASSUME NEW d \in Core, pc'[d] # "idle", InOwnBucket(call'[d].name)
               PROVE  OwnCore(d)'
    BY DEF CoresKept, InOwnBucket
  <2>1. d # c
    BY <1>1, <1>2
  <2> QED BY <1>1, <1>2, <2>1, CoreElsewhere DEF IInv, KeptInv, Held
<1> QED BY <1>3, <1>4, <1>5 DEF KeptInv

(* What an answer leaves: the other buckets, and in a bucket of its own    *)
(* the name's one node, whose counter is returned.                         *)
LEMMA AnswerKept ==
    ASSUME IInv, KeptInv, NEW c \in Core, pc[c] \in {"found", "missing"},
           NEW s \in Seq(NamesNode), NEW n \in Int, Answer(c, s, n),
           InOwnBucket(call[c].name) =>
             /\ Len(s) = 1 /\ s[1].name = call[c].name /\ n = s[1].queue.n_entry
             /\ Remembers(s[1].queue, asked'[call[c].name], clock)
    PROVE  KeptInv'
<1> DEFINE nm == call[c].name
<1>1. /\ nm \in Name /\ call[c].user \in User /\ call[c].time \in Nat
      /\ MyBucket(c) \in Bucket /\ MyBucket(c) = NameHash[nm] /\ NameHash \in [Name -> Bucket]
  BY CallFacts, TableAssumption DEF IInv, MyBucket
<1>2. /\ chain \in [Bucket -> Seq(NamesNode)] /\ pc \in [Core -> Labels]
      /\ ret \in [Core -> Int] /\ asked \in [Name -> [User -> Nat \cup {Never}]]
  BY DEF IInv, TypeOK
<1>3. /\ chain' = [chain EXCEPT ![MyBucket(c)] = s]
      /\ ret' = [ret EXCEPT ![c] = n] /\ pc' = [pc EXCEPT ![c] = "unlock"]
      /\ asked' = [asked EXCEPT ![nm][call[c].user] = call[c].time]
      /\ UNCHANGED <<clock, lock, call, cur, i>>
  BY DEF Answer, RecordAsk, walk
<1>4. chain'[MyBucket(c)] = s /\ \A b \in Bucket : b # MyBucket(c) => chain'[b] = chain[b]
  BY <1>1, <1>2, <1>3
<1>5. \A m \in Name : m # nm => asked'[m] = asked[m]
  BY <1>2, <1>3
<1>6. /\ ret'[c] = n /\ pc'[c] = "unlock"
      /\ \A d \in Core : d # c => ret'[d] = ret[d] /\ pc'[d] = pc[d]
  BY <1>2, <1>3
<1>7. CallsPast'
  BY <1>3, <1>6 DEF KeptInv, CallsPast
<1>8. Len(s) = 1 => s # << >>
  BY EmptySeq
<1>9. ChainsKept'
  <2> SUFFICES ASSUME NEW m \in Name, InOwnBucket(m) PROVE OwnChain(m)'
    BY DEF ChainsKept, InOwnBucket
  <2>1. CASE m = nm
    <3>1. chain'[NameHash[m]] = s
      BY <1>1, <1>4, <2>1
    <3>2. /\ Len(s) = 1 /\ s[1].name = m
          /\ Remembers(s[1].queue, asked'[m], clock) /\ clock' = clock
      BY <1>3, <2>1
    <3> QED BY <1>8, <3>1, <3>2 DEF OwnChain
  <2>2. CASE m # nm
    <3>1. NameHash[m] \in Bucket /\ NameHash[m] # MyBucket(c)
      BY <1>1, <2>2 DEF InOwnBucket
    <3>2. OwnChain(m) /\ asked'[m] = asked[m] /\ clock' = clock
      BY <1>3, <1>5, <2>2 DEF KeptInv, ChainsKept
    <3> QED BY <1>4, <3>1, <3>2, ChainElsewhere
  <2> QED BY <2>1, <2>2
<1>10. CoresKept'
  <2> SUFFICES ASSUME NEW d \in Core, pc'[d] # "idle", InOwnBucket(call'[d].name)
               PROVE  OwnCore(d)'
    BY DEF CoresKept, InOwnBucket
  <2>1. CASE d = c
    <3>1. call'[c].name = nm /\ MyChain(c)' = s
      BY <1>1, <1>3, <1>4 DEF MyChain, MyBucket
    <3>2. Len(s) = 1 /\ n = s[1].queue.n_entry
      BY <2>1, <3>1
    <3> QED BY <1>6, <1>8, <2>1, <3>1, <3>2 DEF OwnCore
  <2>2. CASE d # c
    <3>1. pc[c] \in Held
      BY DEF Held
    <3> QED BY <1>3, <1>4, <1>6, <2>2, <3>1, CoreElsewhere DEF IInv, KeptInv
  <2> QED BY <2>1, <2>2
<1> QED BY <1>7, <1>9, <1>10 DEF KeptInv

(* The queue of an answer, when malloc gives newlru its memory.            *)
LEMMA ReferencedRemembers ==
    ASSUME IInv, KeptInv, ~ MayFail, NEW c \in Core, pc[c] \in {"found", "missing"}, RecordAsk(c),
           NEW q, QueueOK(q), Remembers(q, asked[call[c].name], clock), NEW r \in Referenced(c, q)
    PROVE  Remembers(r, asked'[call[c].name], clock)
<1>1. /\ call[c].name \in Name /\ call[c].user \in User
      /\ call[c].time \in Nat /\ call[c].k \in Setting
  BY CallFacts DEF IInv
<1>2. call[c].time <= clock /\ clock \in Nat /\ asked \in [Name -> [User -> Nat \cup {Never}]]
  BY DEF KeptInv, CallsPast, IInv, TypeOK
<1>3. r = ReferencePage(q, ClientHash[call[c].user], call[c].time, call[c].k)
  BY DEF Referenced, Slot0
<1> DEFINE h == asked[call[c].name]
<1>4. h \in [User -> Nat \cup {Never}] /\ Remembers(q, h, clock)
  BY <1>1, <1>2
<1>5. asked'[call[c].name] = [h EXCEPT ![call[c].user] = call[c].time]
  BY <1>1, <1>2 DEF RecordAsk
<1>6. Remembers(ReferencePage(q, ClientHash[call[c].user], call[c].time, call[c].k),
                [h EXCEPT ![call[c].user] = call[c].time], clock)
  <2> HIDE DEF h
  <2> QED BY <1>1, <1>2, <1>4, ReferenceRemembers
<1> QED BY <1>3, <1>5, <1>6

(* A reference in a node that was found loses no fresh asker.              *)
LEMMA FoundKept ==
    ASSUME IInv, AskedInv, KeptInv, ~ MayFail, NEW c \in Core, Found(c)
    PROVE  KeptInv'
<1>1. PICK q \in Referenced(c, MyNode(c).queue) :
        Answer(c, [MyChain(c) EXCEPT ![cur[c]].queue = q], q.n_entry)
  BY DEF Found
<1>2. ~ segv /\ pc[c] = "found" /\ RecordAsk(c)
  BY <1>1 DEF Found, Answer
<1>3. /\ MyChain(c) \in Seq(NamesNode) /\ Len(MyChain(c)) \in Nat
      /\ Slot0(c) \in Slot /\ call[c].time \in Nat /\ call[c].k \in Setting
      /\ call[c].name \in Name
  BY <1>2, CallFacts DEF IInv
<1>4. NodesOK(MyChain(c), FALSE) /\ cur[c] \in 1 .. Len(MyChain(c))
  BY <1>2, BucketFacts DEF CursorOK
<1>5. QueueOK(MyNode(c).queue)
  BY <1>4 DEF NodesOK, MyNode
<1>6. q \in Queue /\ q.n_entry \in Int
  BY <1>3, <1>5, ReferencedOK
<1> DEFINE s == [MyChain(c) EXCEPT ![cur[c]].queue = q]
<1>7. s \in Seq(NamesNode) /\ Len(s) = Len(MyChain(c))
  BY <1>3, <1>4, <1>6, ReplacedAt, ZenonT(60)
<1>8. s[cur[c]] = [name |-> MyChain(c)[cur[c]].name, queue |-> q]
  BY <1>3, <1>4, <1>6, ReplacedAt, SMTT(60)
<1>9. Answer(c, s, q.n_entry)
  BY <1>1
<1> HIDE DEF s
<1>10. ASSUME InOwnBucket(call[c].name)
       PROVE  /\ Len(s) = 1 /\ s[1].name = call[c].name /\ q.n_entry = s[1].queue.n_entry
              /\ Remembers(s[1].queue, asked'[call[c].name], clock)
  <2>1. OwnChain(call[c].name) /\ MyChain(c) = chain[NameHash[call[c].name]] /\ MyChain(c) # << >>
    BY <1>3, <1>4, <1>10 DEF KeptInv, ChainsKept, MyChain, MyBucket
  <2>2. /\ Len(MyChain(c)) = 1 /\ MyChain(c)[1].name = call[c].name
        /\ Remembers(MyChain(c)[1].queue, asked[call[c].name], clock)
    BY <2>1, Zenon DEF OwnChain
  <2>3. cur[c] = 1 /\ MyNode(c) = MyChain(c)[1]
    BY <1>4, <2>2 DEF MyNode
  <2>4. Remembers(q, asked'[call[c].name], clock)
    BY <1>2, <1>5, <2>2, <2>3, ReferencedRemembers
  <2> QED BY <1>7, <1>8, <2>2, <2>3, <2>4
<1> QED BY <1>2, <1>6, <1>7, <1>9, <1>10, AnswerKept

(* The first node of a bucket keeps its asker.                             *)
LEMMA CreateFirstKept ==
    ASSUME IInv, KeptInv, ~ MayFail, NEW c \in Core, CreateFirst(c)
    PROVE  KeptInv'
<1>1. PICK q \in Referenced(c, EmptyQueue) :
        Answer(c, <<[name |-> call[c].name, queue |-> q]>>, q.n_entry)
  BY DEF CreateFirst
<1>2. pc[c] = "missing" /\ RecordAsk(c)
  BY <1>1 DEF CreateFirst, Answer
<1>3. /\ call[c].name \in Name
      /\ Slot0(c) \in Slot /\ call[c].time \in Nat /\ call[c].k \in Setting
  BY <1>2, CallFacts DEF IInv
<1>4. q \in Queue /\ q.n_entry \in Int
  BY <1>3, EmptyQueueOK, ReferencedOK
<1> DEFINE e == [name |-> call[c].name, queue |-> q]
<1>5. e \in NamesNode /\ e.queue = q /\ e.name = call[c].name
  BY <1>3, <1>4 DEF NamesNode
<1>6. Answer(c, <<e>>, q.n_entry)
  BY <1>1
<1> HIDE DEF e
<1>7. <<e>> \in Seq(NamesNode) /\ Len(<<e>>) = 1 /\ <<e>>[1] = e
  BY <1>5
<1>8. ASSUME InOwnBucket(call[c].name) PROVE Remembers(q, asked'[call[c].name], clock)
  <2>1. OwnChain(call[c].name) /\ MyChain(c) = << >> /\ MyChain(c) = chain[NameHash[call[c].name]]
    BY <1>2, <1>3, <1>8 DEF KeptInv, ChainsKept, CoresKept, OwnCore, MyChain, MyBucket
  <2>2. \A u \in User : asked[call[c].name][u] = Never
    BY <2>1 DEF OwnChain
  <2>3. Remembers(EmptyQueue, asked[call[c].name], clock)
    BY <2>2 DEF Remembers, AllFresh, Uncollided
  <2> QED BY <1>2, <2>3, EmptyQueueOK, ReferencedRemembers
<1> QED BY <1>2, <1>4, <1>5, <1>6, <1>7, <1>8, AnswerKept

(* A bucket with a counter has a chain, so the bucket is shared.           *)
LEMMA CreateAppendKept ==
    ASSUME IInv, KeptInv, NEW c \in Core, CreateAppend(c)
    PROVE  KeptInv'
<1> DEFINE v(q) == Append(SubSeq(MyChain(c), 1, cur[c]), [name |-> call[c].name, queue |-> q])
<1>1. PICK q \in Referenced(c, EmptyQueue) : Answer(c, v(q), q.n_entry)
  BY DEF CreateAppend
<1>2. ~ segv /\ pc[c] = "missing" /\ number[MyBucket(c)] # 0
  BY <1>1 DEF CreateAppend
<1>3. /\ call[c].name \in Name /\ MyChain(c) \in Seq(NamesNode) /\ Len(MyChain(c)) \in Nat
      /\ Slot0(c) \in Slot /\ call[c].time \in Nat /\ call[c].k \in Setting
  BY <1>2, CallFacts DEF IInv
<1>4. q \in Queue /\ q.n_entry \in Int
  BY <1>3, EmptyQueueOK, ReferencedOK
<1>5. cur[c] \in 1 .. Len(MyChain(c)) /\ MyChain(c) # << >>
  BY <1>2, BucketFacts DEF CountOK, CursorOK
<1>6. [name |-> call[c].name, queue |-> q] \in NamesNode
  BY <1>3, <1>4 DEF NamesNode
<1>7. v(q) \in Seq(NamesNode)
  <2>1. cur[c] \in 0 .. Len(MyChain(c))
    BY <1>5
  <2> QED BY <1>3, <1>6, <2>1, AppendedAt
<1> HIDE DEF v
<1>8. ~ InOwnBucket(call[c].name)
  BY <1>2, <1>5 DEF KeptInv, CoresKept, OwnCore
<1> QED BY <1>1, <1>2, <1>4, <1>7, <1>8, AnswerKept

(* Time passing forgets nobody.                                            *)
LEMMA TickKept ==
    ASSUME IInv, KeptInv, Tick
    PROVE  KeptInv'
<1>1. /\ UNCHANGED <<chain, pc, call, i, ret, asked>> /\ clock' = clock + 1 /\ clock \in Nat
      /\ asked \in [Name -> [User -> Nat \cup {Never}]]
  BY DEF Tick, table, walk, IInv, TypeOK
<1>2. CallsPast'
  <2> SUFFICES ASSUME NEW d \in Core, pc[d] # "idle" PROVE call[d].time <= clock + 1
    BY <1>1 DEF CallsPast
  <2>1. call[d].time \in Nat /\ call[d].time <= clock
    BY CallFacts DEF IInv, KeptInv, CallsPast
  <2> QED BY <1>1, <2>1
<1>3. ChainsKept'
  <2> SUFFICES ASSUME NEW n \in Name, InOwnBucket(n) PROVE OwnChain(n)'
    BY DEF ChainsKept, InOwnBucket
  <2>1. OwnChain(n)
    BY DEF KeptInv, ChainsKept
  <2>2. CASE chain[NameHash[n]] = << >>
    BY <1>1, <2>1, <2>2 DEF OwnChain
  <2>3. CASE chain[NameHash[n]] # << >>
    <3>1. Remembers(chain[NameHash[n]][1].queue, asked[n], clock)
      BY <2>1, <2>3 DEF OwnChain
    <3>2. Remembers(chain[NameHash[n]][1].queue, asked[n], clock + 1)
      BY <1>1, <3>1, FreshShrink
    <3> QED BY <1>1, <2>1, <2>3, <3>2 DEF OwnChain
  <2> QED BY <2>2, <2>3
<1>4. CoresKept'
  BY <1>1 DEF KeptInv, CoresKept, OwnCore, MyChain, MyBucket, InOwnBucket
<1> QED BY <1>2, <1>3, <1>4 DEF KeptInv

(* At the start nobody asked.                                              *)
LEMMA InitKept == Init => KeptInv
<1> SUFFICES ASSUME Init PROVE KeptInv
  OBVIOUS
<1>1. \A b \in Bucket : chain[b] = << >>
  BY DEF Init
<1>2. \A c \in Core : pc[c] = "idle"
  BY DEF Init
<1>3. \A n \in Name : \A u \in User : asked[n][u] = Never
  BY DEF Init
<1>4. \A n \in Name : NameHash[n] \in Bucket
  BY TableAssumption
<1>5. ChainsKept
  BY <1>1, <1>3, <1>4 DEF ChainsKept, OwnChain
<1> QED BY <1>2, <1>5 DEF KeptInv, CallsPast, CoresKept

(* Every step keeps the fresh askers, if malloc does not fail.             *)
LEMMA NextKept ==
    ASSUME ~ MayFail, IInv, AskedInv, KeptInv, [Next]_vars
    PROVE  KeptInv'
<1>1. CASE Tick
  BY <1>1, TickKept
<1>2. CASE UNCHANGED vars
  <2>1. clock' = clock /\ chain' = chain /\ pc' = pc /\ call' = call /\ i' = i /\ ret' = ret /\ asked' = asked
    BY <1>2 DEF vars, table, walk
  <2>2. CallsPast'
    <3>1. CallsPast
      BY DEF KeptInv
    <3> QED BY ONLY <2>1, <3>1, Zenon DEF CallsPast
  <2>3. ChainsKept'
    <3>1. ChainsKept
      BY DEF KeptInv
    <3>2. ASSUME NEW n \in Name, InOwnBucket(n) PROVE OwnChain(n)'
      <4>1. OwnChain(n)
        BY <3>1, <3>2, Zenon DEF ChainsKept
      <4> QED BY ONLY <2>1, <4>1, Zenon DEF OwnChain, Remembers, AllFresh
    <3> QED BY ONLY <3>2, Zenon DEF ChainsKept, InOwnBucket
  <2>4. CoresKept'
    <3>1. CoresKept
      BY DEF KeptInv
    <3> QED BY ONLY <2>1, <3>1 DEF CoresKept, OwnCore, MyChain, MyBucket, InOwnBucket
  <2> QED BY <2>2, <2>3, <2>4 DEF KeptInv
<1>3. ASSUME NEW c \in Core, Arrive(c) \/ Acquire(c) \/ Holding(c)
      PROVE  KeptInv'
  <2>1. CASE Arrive(c) \/ Acquire(c) \/ Match(c) \/ EndOfChain(c) \/ LoopExit(c) \/ Advance(c)
             \/ Release(c)
    BY <2>1, PlaceKept
  <2>2. CASE CleanKeep(c) \/ CleanRemove(c)
    BY <2>2, CleanKept
  <2>3. CASE Found(c)
    BY <2>3, FoundKept
  <2>4. CASE CreateFirst(c)
    BY <2>4, CreateFirstKept
  <2>5. CASE CreateAppend(c)
    BY <2>5, CreateAppendKept
  <2>6. CASE CreateFails(c)
    BY <2>6 DEF CreateFails
  <2> QED BY <1>3, <2>1, <2>2, <2>3, <2>4, <2>5, <2>6 DEF Holding
<1> QED BY <1>1, <1>2, <1>3 DEF Next

(* What the queue keeps is what the verdict counts.                        *)
LEMMA KeptCounts ==
    ASSUME IsFiniteSet(User), IInv, KeptInv
    PROVE  NoAskerForgotten
<1> SUFFICES ASSUME NEW c \in Core, pc[c] = "unlock", InOwnBucket(call[c].name)
             PROVE  ret[c] >= Cardinality({u \in Uncollided :
                      \A k \in Setting : u \in FreshAskers(call[c].name, clock, k.delta)})
  BY DEF NoAskerForgotten
<1> DEFINE nm == call[c].name
           F == {u \in Uncollided : \A k \in Setting : u \in FreshAskers(nm, clock, k.delta)}
           q == MyChain(c)[1].queue
<1>1. /\ nm \in Name /\ call[c].k \in Setting /\ MyBucket(c) \in Bucket
      /\ MyChain(c) = chain[NameHash[nm]]
  BY CallFacts DEF IInv, MyChain, MyBucket
<1>2. MyChain(c) # << >> /\ ret[c] = q.n_entry
  BY DEF KeptInv, CoresKept, OwnCore
<1>3. Len(MyChain(c)) = 1 /\ Remembers(q, asked[nm], clock)
  BY <1>1, <1>2 DEF KeptInv, ChainsKept, OwnChain
<1>4. QueueOK(q)
  <2>1. NodesOK(MyChain(c), segv)
    BY <1>1 DEF IInv, ChainsInv, MyChain
  <2> QED BY <1>3, <2>1 DEF NodesOK
<1>5. F = AllFresh(asked[nm], clock)
  BY <1>1 DEF AllFresh, FreshAskers, Uncollided
<1>6. q.n_entry >= Cardinality(AllFresh(asked[nm], clock))
  BY <1>3, <1>4, RememberedCounted
<1> QED BY <1>2, <1>5, <1>6

(* table_add: while mallocs succeed, the number returned for a name in a   *)
(* bucket of its own counts every user with a cell of its own that asked   *)
(* within every delta: cleaning, pruning and reordering lose none of them. *)
THEOREM AskersKept == ~ MayFail /\ IsFiniteSet(User) /\ Spec => []NoAskerForgotten
<1>1. Init => KeptInv
  BY InitKept
<1>2. ~ MayFail /\ (IInv /\ AskedInv) /\ KeptInv /\ [Next]_vars => KeptInv'
  BY NextKept
<1>3. IsFiniteSet(User) /\ (IInv /\ AskedInv) /\ KeptInv => NoAskerForgotten
  BY KeptCounts
<1>4. IsFiniteSet(User) => []IsFiniteSet(User)
  <2>1. IsFiniteSet(User) => IsFiniteSet(User)'
    OBVIOUS
  <2> QED BY <2>1, PTL
<1>5. ~ MayFail => []~ MayFail
  <2>1. ~ MayFail => (~ MayFail)'
    OBVIOUS
  <2> QED BY <2>1, PTL
<1> QED BY <1>1, <1>2, <1>3, <1>4, <1>5, ListedClientsAsked, PTL DEF Spec

=============================================================================
