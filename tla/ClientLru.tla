----------------------------- MODULE ClientLru -----------------------------
(***************************************************************************)
(* The life of one client queue (src/src/lru.c) under the calls table_add  *)
(* (src/src/proto_mng.c) makes on it: referencePage for the client of each *)
(* packet that carries the name, and prune when the walk of another name   *)
(* passes over the node. The calls are serialised by the bucket's mutex,   *)
(* but process_packet reads the clock before the mutex is taken, so the    *)
(* time stamp of a call may be up to MaxSkew seconds behind.               *)
(*                                                                         *)
(* A queue that prune empties belongs to a node table_add frees; the next  *)
(* reference then works on a new node. Both are EmptyQueue here.           *)
(***************************************************************************)
EXTENDS ClientQueue

CONSTANTS
    MaxSkew,  \* the seconds a core may wait between its clock read and the lock
    MaxTime   \* bound on the clock

ASSUME LruAssumption == MaxSkew \in Nat /\ MaxTime \in Nat

VARIABLES
    queue,   \* the names node's list, flags and counter
    clock,   \* CLOCK_MONOTONIC_COARSE, in seconds
    lastAsk  \* history: the stamp of each client's last reference, or Never

vars == <<queue, clock, lastAsk>>

Never == -1

(* The stamps a call made now may carry.                                   *)
Stamps == {t \in (clock - MaxSkew)..clock : t >= 0}

TypeOK ==
    /\ queue \in Queue
    /\ clock \in Nat
    /\ lastAsk \in [Slot -> Nat \cup {Never}]

Init ==
    /\ queue = EmptyQueue
    /\ clock = 0
    /\ lastAsk = [s \in Slot |-> Never]

Tick ==
    /\ clock < MaxTime
    /\ clock' = clock + 1
    /\ UNCHANGED <<queue, lastAsk>>

Reference(s, t, k) ==
    /\ queue' = ReferencePage(queue, s, t, k)
    /\ lastAsk' = [lastAsk EXCEPT ![s] = t]
    /\ UNCHANGED clock

(* table_add prunes a node it walks over only when n_entry > 0.            *)
WalkPrune(t, k) ==
    /\ queue.n_entry > 0
    /\ queue' = Prune(queue, t, k)
    /\ UNCHANGED <<clock, lastAsk>>

Next ==
    \/ Tick
    \/ \E s \in Slot, t \in Stamps, k \in Setting : Reference(s, t, k)
    \/ \E t \in Stamps, k \in Setting : WalkPrune(t, k)

Spec == Init /\ [][Next]_vars

-----------------------------------------------------------------------------
(* The pointer list, the active flags and n_entry of a node never          *)
(* disagree, through enqueueing, moving to the front and pruning.          *)
QueueConsistent == QueueOK(queue)

(* An entry carries the stamp of its client's last reference: moving a     *)
(* node to the front refreshes it (lru.c:178, 181).                        *)
StampIsLastAsk ==
    \A i \in DOMAIN queue.lru : queue.lru[i].stamp = lastAsk[queue.lru[i].slot]

(* The list is sorted by time only up to the skew of the clock reads; this *)
(* is all that prune, which stops at the first fresh entry, can rely on.   *)
SortedWithinSkew == OrderedWithin(queue, MaxSkew)

(* No client that asked within the delta of every interface is dropped     *)
(* from the count, however pruning and moves interleave: prune checks      *)
(* every entry it frees.                                                   *)
NoFreshClientForgotten ==
    \A s \in Slot :
        /\ lastAsk[s] # Never
        /\ \A k \in Setting : lastAsk[s] >= clock - k.delta
        => queue.active[s]

(* When referencePage leaves more than alpha clients counted, all of them  *)
(* asked within delta (plus the skew) of this reference. With alpha or     *)
(* fewer nothing is pruned and this is not so, see NameTable.              *)
FreshAboveAlpha ==
    [][\A s \in Slot, t \in Stamps, k \in Setting :
         Reference(s, t, k) /\ queue'.n_entry > k.alpha =>
             \A i \in DOMAIN queue'.lru :
                 queue'.lru[i].stamp >= t - k.delta - MaxSkew]_vars

(* referencePage never leaves its queue empty, so its read of tail->       *)
(* timestamp (lru.c:186) is defined: the node just stamped is never stale. *)
ReferenceKeepsItsClient ==
    [][\A s \in Slot, t \in Stamps, k \in Setting :
         Reference(s, t, k) => queue'.active[s] /\ ~ TailIsNull(queue')]_vars

=============================================================================
