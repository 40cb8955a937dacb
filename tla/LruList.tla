------------------------------ MODULE LruList ------------------------------
(***************************************************************************)
(* src/src/lru.c at the level of its pointers: the nodes malloc returns,   *)
(* head and tail, prev and next, client_list[..].active and .lru_ptr. The  *)
(* loop of prune is one action per iteration. ClientLru is what it is      *)
(* meant to implement.                                                     *)
(*                                                                         *)
(* newlru succeeds here (Node is large enough); the failing malloc is in   *)
(* NameTable.                                                              *)
(***************************************************************************)
EXTENDS ClientQueue

CONSTANTS
    MaxSkew, MaxTime,  \* as in ClientLru
    Node,   \* the addresses malloc may return
    NULL

ASSUME NodeAssumption ==
    /\ IsFiniteSet(Node) /\ NULL \notin Node
    /\ Cardinality(Node) >= Cardinality(Slot)
    /\ MaxSkew \in Nat /\ MaxTime \in Nat

VARIABLES
    clock, lastAsk,      \* as in ClientLru
    live,                \* the nodes malloc returned and free has not seen
    prev, next, stamp, client_hash,   \* the fields of struct lru
    head, tail, n_entry,              \* the fields of struct names
    active, lru_ptr,                  \* the fields of client_list[slot]
    pc,                  \* "idle": no call; at the while of prune called by referencePage
                         \* ("prune") or by table_add's walk ("walk"); at the read of
                         \* queue->tail->timestamp ("oldest")
    call                 \* the call in progress: flow_recv.timestamp and k

list  == <<live, prev, next, stamp, client_hash, head, tail>>
table == <<n_entry, active, lru_ptr>>
vars  == <<clock, lastAsk, list, table, pc, call>>

Never   == -1

Init ==
    /\ clock = 0 /\ lastAsk = [s \in Slot |-> Never]
    /\ live = {}
    /\ prev = [n \in Node |-> NULL] /\ next = [n \in Node |-> NULL]
    /\ stamp = [n \in Node |-> Never] /\ client_hash = [n \in Node |-> NULL]
    /\ head = NULL /\ tail = NULL
    /\ n_entry = 0 /\ active = [s \in Slot |-> FALSE] /\ lru_ptr = [s \in Slot |-> NULL]
    /\ pc = "idle" /\ call = NULL

Stamps == {t \in (clock - MaxSkew)..clock : t >= 0}

Tick ==
    /\ clock < MaxTime
    /\ clock' = clock + 1
    /\ UNCHANGED <<lastAsk, list, table, pc, call>>

-----------------------------------------------------------------------------
(* Definitions marked "Slip" are used by no specification, see ClientQueue.*)

(* What every reference does besides moving nodes: the call is recorded    *)
(* and goes on to prune if the count exceeds alpha.                        *)
Begin(s, t, k) ==
    /\ pc = "idle"
    /\ call' = [now |-> t, k |-> k]
    /\ lastAsk' = [lastAsk EXCEPT ![s] = t]
    /\ pc' = IF n_entry' > k.alpha THEN "prune" ELSE "oldest"
    /\ UNCHANGED clock

(* newlru and Enqueue.                                                     *)
EnqueueNode(s, t, k) ==
    /\ ~ active[s]
    /\ \E tmp \in Node \ live :
         /\ live' = live \cup {tmp}
         /\ stamp' = [stamp EXCEPT ![tmp] = t]
         /\ client_hash' = [client_hash EXCEPT ![tmp] = s]
         /\ head' = tmp
         /\ \/ /\ n_entry = 0
               /\ tail' = tmp
               /\ prev' = [prev EXCEPT ![tmp] = NULL]
               /\ next' = [next EXCEPT ![tmp] = NULL]
            \/ /\ n_entry # 0
               /\ next' = [next EXCEPT ![tmp] = head]
               /\ prev' = [prev EXCEPT ![tmp] = NULL, ![head] = tmp]
               /\ UNCHANGED tail
         /\ active' = [active EXCEPT ![s] = TRUE]
         /\ lru_ptr' = [lru_ptr EXCEPT ![s] = tmp]
         /\ n_entry' = n_entry + 1
    /\ Begin(s, t, k)

(* Slip: the tail is not moved when the client's node was the tail.        *)
RelinkKeepsTail(s, t, k) ==
    LET me     == lru_ptr[s]
        before == prev[me]
        after  == next[me]
    IN  /\ active[s] /\ me # head
        /\ next' = [next EXCEPT ![before] = after, ![me] = head]
        /\ LET unlinked == IF after # NULL THEN [prev EXCEPT ![after] = before] ELSE prev
           IN  prev' = [unlinked EXCEPT ![me] = NULL, ![head] = me]
        /\ head' = me
        /\ stamp' = [stamp EXCEPT ![me] = t]
        /\ UNCHANGED <<live, client_hash, tail, table>>
        /\ Begin(s, t, k)

(* The client's node is not the head: it is unlinked, the tail moves if it *)
(* was the tail, and it becomes the head.                                  *)
Relink(s, t, k) ==
    LET me     == lru_ptr[s]
        before == prev[me]
        after  == next[me]
    IN  /\ active[s] /\ me # head
        /\ next' = [next EXCEPT ![before] = after, ![me] = head]
        /\ LET unlinked == IF after # NULL THEN [prev EXCEPT ![after] = before] ELSE prev
           IN  prev' = [unlinked EXCEPT ![me] = NULL, ![head] = me]
        /\ tail' = IF me = tail THEN before ELSE tail
        /\ head' = me
        /\ stamp' = [stamp EXCEPT ![me] = t]
        /\ UNCHANGED <<live, client_hash, table>>
        /\ Begin(s, t, k)

(* Slip: the head is not stamped again.                                    *)
RestampNothing(s, t, k) ==
    /\ active[s] /\ lru_ptr[s] = head
    /\ UNCHANGED <<list, table>>
    /\ Begin(s, t, k)

Restamp(s, t, k) ==
    /\ active[s] /\ lru_ptr[s] = head
    /\ stamp' = [stamp EXCEPT ![head] = t]
    /\ UNCHANGED <<live, prev, next, client_hash, head, tail, table>>
    /\ Begin(s, t, k)

(* table_add's walk prunes a node whose n_entry is positive.               *)
WalkPrune(t, k) ==
    /\ pc = "idle" /\ n_entry > 0
    /\ pc' = "walk" /\ call' = [now |-> t, k |-> k]
    /\ UNCHANGED <<clock, lastAsk, list, table>>

Goto(l) == pc' = l /\ call' = IF l = "idle" THEN NULL ELSE call

Return == Goto(IF pc = "prune" THEN "oldest" ELSE "idle")

(* One node is freed; its fields are not to be read any more.              *)
Free(tmp) ==
    LET s == client_hash[tmp]
    IN  /\ live' = live \ {tmp}
        /\ prev' = [prev EXCEPT ![tmp] = NULL]
        /\ stamp' = [stamp EXCEPT ![tmp] = Never]
        /\ client_hash' = [client_hash EXCEPT ![tmp] = NULL]
        /\ active' = [active EXCEPT ![s] = FALSE]
        /\ lru_ptr' = [lru_ptr EXCEPT ![s] = NULL]
        /\ n_entry' = n_entry - 1
        /\ UNCHANGED <<clock, lastAsk>>

StaleTail == pc \in {"prune", "walk"} /\ stamp[tail] < call.now - call.k.delta

(* Slip: no break after the last node.                                     *)
PruneLastNoBreak ==
    /\ StaleTail /\ tail = head
    /\ Free(tail)
    /\ next' = [next EXCEPT ![tail] = NULL]
    /\ head' = NULL /\ tail' = NULL
    /\ UNCHANGED <<pc, call>>

PruneLast ==
    /\ StaleTail /\ tail = head
    /\ Free(tail)
    /\ next' = [next EXCEPT ![tail] = NULL]
    /\ head' = NULL /\ tail' = NULL
    /\ Return

PruneTail ==
    /\ StaleTail /\ tail # head
    /\ Free(tail)
    /\ next' = [next EXCEPT ![prev[tail]] = NULL, ![tail] = NULL]
    /\ tail' = prev[tail]
    /\ UNCHANGED <<head, pc, call>>

(* Slip: the loop is not left at a fresh tail.                             *)
PruneStopSpins ==
    /\ pc \in {"prune", "walk"} /\ ~ StaleTail
    /\ UNCHANGED vars

PruneStop ==
    /\ pc \in {"prune", "walk"} /\ ~ StaleTail
    /\ Return
    /\ UNCHANGED <<clock, lastAsk, list, table>>

(* "queue->oldest = queue->tail->timestamp"; oldest is never read.         *)
Oldest ==
    /\ pc = "oldest"
    /\ Goto("idle")
    /\ UNCHANGED <<clock, lastAsk, list, table>>

Next ==
    \/ Tick
    \/ \E s \in Slot, t \in Stamps, k \in Setting :
         EnqueueNode(s, t, k) \/ Relink(s, t, k) \/ Restamp(s, t, k)
    \/ \E t \in Stamps, k \in Setting : WalkPrune(t, k)
    \/ PruneLast \/ PruneTail \/ PruneStop
    \/ Oldest

Spec == Init /\ [][Next]_vars

(* A core that is inside referencePage or prune runs on; nothing makes     *)
(* packets arrive.                                                         *)
FairSpec == Spec /\ WF_vars(PruneLast \/ PruneTail \/ PruneStop \/ Oldest)

-----------------------------------------------------------------------------
(* Following next from head, node by node.                                 *)
NodeAt[k \in 1..Cardinality(Node)] ==
    IF k = 1 THEN head
    ELSE IF NodeAt[k - 1] = NULL THEN NULL ELSE next[NodeAt[k - 1]]

Path ==
    LET reached == {k \in 1..Cardinality(Node) : NodeAt[k] # NULL}
    IN  [k \in reached |-> NodeAt[k]]

(* The list is well formed between any two iterations: the path from head  *)
(* ends at tail, prev is the inverse of next along it, exactly the live    *)
(* nodes are on it (nothing freed is reachable, nothing live is lost), and *)
(* each node and its client_list cell point at each other.                 *)
ListWellFormed ==
    LET n == Len(Path)
    IN  /\ IF n = 0 THEN tail = NULL ELSE Path[n] = tail /\ next[tail] = NULL
        /\ \A k \in 1..n : prev[Path[k]] = IF k = 1 THEN NULL ELSE Path[k - 1]
        /\ live = {Path[k] : k \in 1..n} /\ Cardinality(live) = n
        /\ \A s \in Slot :
             IF active[s] THEN lru_ptr[s] \in live /\ client_hash[lru_ptr[s]] = s
                          ELSE lru_ptr[s] = NULL

(* Every pointer prune and referencePage are about to follow is not NULL.  *)
NoNullDereference ==
    /\ pc \in {"prune", "walk", "oldest"} => tail # NULL
    /\ pc = "idle" /\ n_entry # 0 => head # NULL

(* The list as ClientQueue's record. While prune runs, the call counts as  *)
(* done: what it still has to free is already gone.                        *)
Walked ==
    [lru     |-> [k \in DOMAIN Path |-> [slot |-> client_hash[Path[k]], stamp |-> stamp[Path[k]]]],
     active  |-> active,
     n_entry |-> n_entry]
queue == IF pc \in {"prune", "walk"} THEN Prune(Walked, call.now, call.k) ELSE Walked

Abstract == INSTANCE ClientLru

(* The pointer code implements the sequence operations of ClientLru, one   *)
(* reference or prune at a time.                                           *)
ImplementsClientLru == Abstract!Spec

(* prune terminates and referencePage returns: the bucket's mutex, held    *)
(* during the call, can be released.                                       *)
CallsReturn == pc # "idle" ~> pc = "idle"

=============================================================================
