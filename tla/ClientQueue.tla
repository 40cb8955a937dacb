---------------------------- MODULE ClientQueue ----------------------------
(***************************************************************************)
(* The LRU queue of the clients that asked for one name (src/src/lru.c).   *)
(*                                                                         *)
(* Every names node of the name table owns a doubly linked list of         *)
(* struct lru (head = most recent), an array client_list of MAX_CLIENT     *)
(* cells with an active flag and a pointer into the list, and the counter  *)
(* n_entry that table_add returns as the number of users of the name.      *)
(* A queue is a record of the three:                                       *)
(*   lru     the list, head first, as a sequence of [slot, stamp]          *)
(*   active  client_list[slot].active                                      *)
(*   n_entry the counter                                                   *)
(* lru_ptr is the position of the slot in lru. The other fields of struct  *)
(* client (addresses, ports, last_seen) and oldest are written and never   *)
(* read; only the read of tail->timestamp that computes oldest matters     *)
(* (TailIsNull). LruList models the list with its pointers.                *)
(***************************************************************************)
EXTENDS Integers, Sequences, FiniteSetsExt

CONSTANTS
    Slot,    \* the indices of client_list: the values of getHashClient
    Setting  \* the pairs (alpha, delta) of the ini file's interfaces, in seconds

ASSUME QueueAssumption == Setting \subseteq [alpha : Nat, delta : Nat]

Entry == [slot : Slot, stamp : Nat]

Queue == [lru : Seq(Entry), active : [Slot -> BOOLEAN], n_entry : Int]

EmptyQueue == [lru |-> << >>, active |-> [s \in Slot |-> FALSE], n_entry |-> 0]

Slots(q) == {q.lru[i].slot : i \in DOMAIN q.lru}

-----------------------------------------------------------------------------
(* Definitions marked "Slip" are errors a maintainer could make in the     *)
(* definition that follows them; no specification uses them. The runs put  *)
(* each in the place of the right one to show which property notices.      *)

(* Slip: the new node goes behind the tail.                                *)
EnqueueLast(q, s, t) ==
    [lru     |-> Append(q.lru, [slot |-> s, stamp |-> t]),
     active  |-> [q.active EXCEPT ![s] = TRUE],
     n_entry |-> q.n_entry + 1]

(* newlru and Enqueue: a node for a client that is not in the list becomes *)
(* its head; when n_entry is 0, whatever head and tail hold is forgotten.  *)
Enqueue(q, s, t) ==
    LET node == [slot |-> s, stamp |-> t]
    IN  [lru     |-> IF q.n_entry = 0 THEN <<node>> ELSE <<node>> \o q.lru,
         active  |-> [q.active EXCEPT ![s] = TRUE],
         n_entry |-> q.n_entry + 1]

Position(q, s) == CHOOSE i \in DOMAIN q.lru : q.lru[i].slot = s

(* Slip: the moved node keeps its old stamp.                               *)
MoveUnstamped(q, s, t) ==
    LET p == Position(q, s)
    IN  [q EXCEPT !.lru = [i \in 1..Len(q.lru) |->
            IF i = 1 THEN q.lru[p] ELSE IF i <= p THEN q.lru[i - 1] ELSE q.lru[i]]]

(* The relinking of referencePage: the client's node is unlinked, put      *)
(* before the head and stamped; at the head it is only stamped.            *)
MoveToFront(q, s, t) ==
    LET p == Position(q, s)
    IN  [lru     |-> [i \in 1..Len(q.lru) |->
                        IF i = 1 THEN [slot |-> s, stamp |-> t]
                        ELSE IF i <= p THEN q.lru[i - 1] ELSE q.lru[i]],
         active  |-> q.active,
         n_entry |-> q.n_entry]

(* Slip: an entry exactly delta seconds old is stale too.                  *)
StaleInclusive(q, i, t, k) == q.lru[i].stamp <= t - k.delta

(* The entry at position i is older than delta seconds at time t.          *)
Stale(q, i, t, k) == q.lru[i].stamp < t - k.delta

(* prune eats the list from the tail until it meets an entry that is not   *)
(* stale: what stays is the prefix that ends at the last such entry.       *)
Kept(q, t, k) == Max({0} \cup {i \in 1..Len(q.lru) : ~ Stale(q, i, t, k)})

(* Slip: the client_list cells of freed nodes stay active.                 *)
PruneKeepsFlags(q, t, k) ==
    LET n == Kept(q, t, k)
    IN  [q EXCEPT !.lru = SubSeq(@, 1, n), !.n_entry = @ - (Len(q.lru) - n)]

Prune(q, t, k) ==
    LET n    == Kept(q, t, k)
        gone == {q.lru[i].slot : i \in (n + 1)..Len(q.lru)}
    IN  [lru     |-> SubSeq(q.lru, 1, n),
         active  |-> [s \in Slot |-> q.active[s] /\ s \notin gone],
         n_entry |-> q.n_entry - (Len(q.lru) - n)]

(* Slip: the active flag is not consulted.                                 *)
TouchAlwaysEnqueues(q, s, t) == Enqueue(q, s, t)

(* referencePage up to its pruning.                                        *)
Touch(q, s, t) ==
    IF q.active[s] THEN MoveToFront(q, s, t) ELSE Enqueue(q, s, t)

(* Slip: pruning starts one client too late.                               *)
SettleLate(q, t, k) == IF q.n_entry > k.alpha + 1 THEN Prune(q, t, k) ELSE q

(* "if(queue->n_entry > k_anon) prune(...)"                                *)
Settle(q, t, k) == IF q.n_entry > k.alpha THEN Prune(q, t, k) ELSE q

ReferencePage(q, s, t, k) == Settle(Touch(q, s, t), t, k)

(* referencePage when newlru's malloc fails: Enqueue returns silently.     *)
ReferencePageNoMemory(q, s, t, k) ==
    Settle(IF q.active[s] THEN MoveToFront(q, s, t) ELSE q, t, k)

(* queue->tail is NULL when referencePage reads tail->timestamp.           *)
TailIsNull(q) == q.lru = << >>

-----------------------------------------------------------------------------
(* The list, the active flags and the counter tell the same story: no      *)
(* client is in the list twice, the flagged clients are those in the list, *)
(* and n_entry is their number.                                            *)
QueueOK(q) ==
    /\ q \in Queue
    /\ \A i, j \in DOMAIN q.lru : q.lru[i].slot = q.lru[j].slot => i = j
    /\ \A s \in Slot : q.active[s] <=> s \in Slots(q)
    /\ q.n_entry = Len(q.lru)

(* An entry nearer to the head is at most skew seconds older than one      *)
(* behind it.                                                              *)
OrderedWithin(q, skew) ==
    \A i, j \in DOMAIN q.lru : i < j => q.lru[i].stamp >= q.lru[j].stamp - skew

=============================================================================
