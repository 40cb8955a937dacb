----------------------------- MODULE NameTable -----------------------------
(***************************************************************************)
(* The name table and table_add (src/src/proto_mng.c): a hash table of     *)
(* names, each with the queue of the clients that asked for it, shared by  *)
(* all cores and protected by one mutex per bucket. table_add records one  *)
(* client for one name and returns how many clients the name counts; its   *)
(* callers (DNS, TLS, HTTP and external-IP modules) hide the name when     *)
(* that number is below the interface's alpha.                             *)
(*                                                                         *)
(* A bucket is its chain of names nodes, a sequence (the first element is  *)
(* flow_db.table[hash], the others come from malloc), and bitMap[hash].    *)
(* number. One action is one loop iteration or one branch of table_add.    *)
(* The random "probability" only decides whether the walk cleans: the      *)
(* condition 33 <= probability <= 66 is always true in C, so the third     *)
(* branch (complete clean) never runs and is not modelled.                 *)
(***************************************************************************)
EXTENDS ClientQueue

CONSTANTS
    Core,          \* the forwarding threads
    Name,          \* the names looked up
    User,          \* the source addresses
    Bucket,        \* the values of nameHash
    NameHash,      \* nameHash, in [Name -> Bucket]
    ClientHash,    \* getHashClient(.., MAX_CLIENT), in [User -> Slot]
    MayFail,       \* whether malloc may return NULL
    MaxSkew,       \* seconds between a core's clock read and its table update
    MaxTime,       \* bound on the clock
    None           \* no core, no call

ASSUME TableAssumption ==
    /\ NameHash \in [Name -> Bucket]
    /\ ClientHash \in [User -> Slot]
    /\ MayFail \in BOOLEAN
    /\ MaxSkew \in Nat /\ MaxTime \in Nat
    /\ None \notin Core

VARIABLES
    clock,   \* CLOCK_MONOTONIC_COARSE, in seconds
    chain,   \* chain[b]: the nodes of bucket b, a sequence of [name, queue]
    number,  \* bitMap[b].number
    lock,    \* bitMap[b].permission: the core that holds it, or None
    pc,      \* where each core is in table_add
    call,    \* the arguments of the core's call: flow_recv, name, k_anon, k_delta
    cur,     \* curr_name, as a position in the chain
    i,       \* the walk's loop counter
    ret,     \* the value table_add returns
    asked,   \* history: asked[n][u] is the stamp of u's last call for n, or Never
    segv     \* the process died on a NULL pointer

table  == <<chain, number>>
walk   == <<cur, i>>
vars   == <<clock, chain, number, lock, pc, call, cur, i, ret, asked, segv>>

Never == -1

NamesNode == [name : Name, queue : Queue]
Call == [name : Name, user : User, time : Nat, k : Setting, clean : BOOLEAN]

Labels == {"idle", "lock", "walk", "found", "missing", "unlock"}

TypeOK ==
    /\ clock \in Nat
    /\ chain \in [Bucket -> Seq(NamesNode)]
    /\ number \in [Bucket -> Int]
    /\ lock \in [Bucket -> Core \cup {None}]
    /\ pc \in [Core -> Labels]
    /\ call \in [Core -> Call \cup {None}]
    /\ cur \in [Core -> Nat] /\ i \in [Core -> Nat] /\ ret \in [Core -> Int]
    /\ asked \in [Name -> [User -> Nat \cup {Never}]]
    /\ segv \in BOOLEAN

Init ==
    /\ clock = 0
    /\ chain = [b \in Bucket |-> << >>] /\ number = [b \in Bucket |-> 0]
    /\ lock = [b \in Bucket |-> None]
    /\ pc = [c \in Core |-> "idle"] /\ call = [c \in Core |-> None]
    /\ cur = [c \in Core |-> 1] /\ i = [c \in Core |-> 0] /\ ret = [c \in Core |-> 0]
    /\ asked = [n \in Name |-> [u \in User |-> Never]]
    /\ segv = FALSE

-----------------------------------------------------------------------------
(* Between process_packet's clock_gettime and the update of the table a    *)
(* core may be preempted, parse the packet, or wait for the mutex.         *)
Pending(c) == pc[c] \in {"lock", "walk", "found", "missing"}

Tick ==
    /\ ~ segv
    /\ clock < MaxTime
    /\ \A c \in Core : Pending(c) => clock + 1 - call[c].time <= MaxSkew
    /\ clock' = clock + 1
    /\ UNCHANGED <<table, lock, pc, call, walk, ret, asked, segv>>

(* Slip: the stamp is a second early (definitions marked "Slip" are used   *)
(* by no specification, see ClientQueue).                                  *)
ArriveEarly(c) ==
    /\ ~ segv /\ pc[c] = "idle"
    /\ \E n \in Name, u \in User, k \in Setting, clean \in BOOLEAN :
         call' = [call EXCEPT ![c] =
                    [name |-> n, user |-> u, time |-> clock - 1, k |-> k, clean |-> clean]]
    /\ pc' = [pc EXCEPT ![c] = "lock"]
    /\ UNCHANGED <<clock, table, lock, walk, ret, asked, segv>>

(* A packet with a name arrives: the clock is read, the name found in the  *)
(* packet, and table_add draws its probability, all before the mutex.      *)
Arrive(c) ==
    /\ ~ segv /\ pc[c] = "idle"
    /\ \E n \in Name, u \in User, k \in Setting, clean \in BOOLEAN :
         call' = [call EXCEPT ![c] =
                    [name |-> n, user |-> u, time |-> clock, k |-> k, clean |-> clean]]
    /\ pc' = [pc EXCEPT ![c] = "lock"]
    /\ UNCHANGED <<clock, table, lock, walk, ret, asked, segv>>

MyBucket(c) == NameHash[call[c].name]
MyChain(c)  == chain[MyBucket(c)]
MyNode(c)   == MyChain(c)[cur[c]]

(* Slip: the mutex is not waited for.                                      *)
AcquireAtOnce(c) ==
    /\ ~ segv /\ pc[c] = "lock"
    /\ lock' = [lock EXCEPT ![MyBucket(c)] = c]
    /\ pc' = [pc EXCEPT ![c] = "walk"]
    /\ cur' = [cur EXCEPT ![c] = 1] /\ i' = [i EXCEPT ![c] = 0]
    /\ UNCHANGED <<clock, table, call, ret, asked, segv>>

Acquire(c) ==
    /\ ~ segv /\ pc[c] = "lock"
    /\ lock[MyBucket(c)] = None
    /\ lock' = [lock EXCEPT ![MyBucket(c)] = c]
    /\ pc' = [pc EXCEPT ![c] = "walk"]
    /\ cur' = [cur EXCEPT ![c] = 1] /\ i' = [i EXCEPT ![c] = 0]
    /\ UNCHANGED <<clock, table, call, ret, asked, segv>>

-----------------------------------------------------------------------------
(* The walk: for (i = 0; i < number; i++), curr_name following next.       *)
InLoop(c)   == ~ segv /\ pc[c] = "walk" /\ i[c] < number[MyBucket(c)]
HasNext(c)  == cur[c] < Len(MyChain(c))

Match(c) ==
    /\ InLoop(c)
    /\ MyNode(c).name = call[c].name
    /\ pc' = [pc EXCEPT ![c] = "found"]
    /\ UNCHANGED <<clock, table, lock, call, walk, ret, asked, segv>>

(* The last node of the chain is never cleaned: the loop breaks on it.     *)
EndOfChain(c) ==
    /\ InLoop(c)
    /\ MyNode(c).name # call[c].name /\ ~ HasNext(c)
    /\ pc' = [pc EXCEPT ![c] = "missing"]
    /\ UNCHANGED <<clock, table, lock, call, walk, ret, asked, segv>>

LoopExit(c) ==
    /\ ~ segv /\ pc[c] = "walk" /\ i[c] >= number[MyBucket(c)]
    /\ pc' = [pc EXCEPT ![c] = "missing"]
    /\ UNCHANGED <<clock, table, lock, call, walk, ret, asked, segv>>

PassOver(c) == InLoop(c) /\ MyNode(c).name # call[c].name /\ HasNext(c)

(* No clean, or the first node, which is part of the table and stays.      *)
Advance(c) ==
    /\ PassOver(c)
    /\ ~ call[c].clean \/ i[c] = 0
    /\ cur' = [cur EXCEPT ![c] = @ + 1] /\ i' = [i EXCEPT ![c] = @ + 1]
    /\ UNCHANGED <<clock, table, lock, pc, call, ret, asked, segv>>

Cleaned(c) ==
    LET q == MyNode(c).queue
    IN  IF q.n_entry > 0 THEN Prune(q, call[c].time, call[c].k) ELSE q

(* Slip: a node that prune just emptied stays in the chain.                *)
CleanKeepEmpty(c) ==
    /\ PassOver(c) /\ call[c].clean /\ i[c] # 0
    /\ chain' = [chain EXCEPT ![MyBucket(c)][cur[c]].queue = Cleaned(c)]
    /\ cur' = [cur EXCEPT ![c] = @ + 1] /\ i' = [i EXCEPT ![c] = @ + 1]
    /\ UNCHANGED <<clock, number, lock, pc, call, ret, asked, segv>>

CleanKeep(c) ==
    /\ PassOver(c) /\ call[c].clean /\ i[c] # 0
    /\ Cleaned(c).n_entry > 0
    /\ chain' = [chain EXCEPT ![MyBucket(c)][cur[c]].queue = Cleaned(c)]
    /\ cur' = [cur EXCEPT ![c] = @ + 1] /\ i' = [i EXCEPT ![c] = @ + 1]
    /\ UNCHANGED <<clock, number, lock, pc, call, ret, asked, segv>>

(* The node is unlinked and freed and the next one takes its place under   *)
(* curr_name; the counter goes down while i still goes up.                 *)
CleanRemove(c) ==
    /\ PassOver(c) /\ call[c].clean /\ i[c] # 0
    /\ Cleaned(c).n_entry <= 0
    /\ chain' = [chain EXCEPT ![MyBucket(c)] =
                   SubSeq(@, 1, cur[c] - 1) \o SubSeq(@, cur[c] + 1, Len(@))]
    /\ number' = [number EXCEPT ![MyBucket(c)] = @ - 1]
    /\ i' = [i EXCEPT ![c] = @ + 1]
    /\ UNCHANGED <<clock, lock, pc, call, cur, ret, asked, segv>>

-----------------------------------------------------------------------------
Slot0(c) == ClientHash[call[c].user]

(* referencePage on queue q, by a newlru that gets memory or, if malloc    *)
(* may fail, that does not.                                                *)
Referenced(c, q) ==
    {ReferencePage(q, Slot0(c), call[c].time, call[c].k)} \cup
    (IF MayFail THEN {ReferencePageNoMemory(q, Slot0(c), call[c].time, call[c].k)} ELSE {})

RecordAsk(c) ==
    asked' = [asked EXCEPT ![call[c].name][call[c].user] = call[c].time]

(* table_add is about to return n with its bucket changed to newChain.     *)
Answer(c, newChain, n) ==
    /\ chain' = [chain EXCEPT ![MyBucket(c)] = newChain]
    /\ ret' = [ret EXCEPT ![c] = n]
    /\ pc' = [pc EXCEPT ![c] = "unlock"]
    /\ RecordAsk(c)
    /\ UNCHANGED <<clock, lock, call, walk>>

Found(c) ==
    /\ ~ segv /\ pc[c] = "found"
    /\ \E q \in Referenced(c, MyNode(c).queue) :
         /\ Answer(c, [MyChain(c) EXCEPT ![cur[c]].queue = q], q.n_entry)
         /\ segv' = TailIsNull(q)
    /\ UNCHANGED number

(* The name becomes the first node of its bucket. Nobody sets that node's  *)
(* client_list, head and tail: they are zero, as malloc gets a table of    *)
(* this size in fresh pages from the system, and no first node is freed.   *)
CreateFirst(c) ==
    /\ ~ segv /\ pc[c] = "missing" /\ number[MyBucket(c)] = 0
    /\ \E q \in Referenced(c, EmptyQueue) :
         /\ Answer(c, <<[name |-> call[c].name, queue |-> q]>>, q.n_entry)
         /\ segv' = TailIsNull(q)
    /\ number' = [number EXCEPT ![MyBucket(c)] = @ + 1]

(* Slip: the appended node is not counted.                                 *)
AppendUncounted(c) ==
    /\ ~ segv /\ pc[c] = "missing" /\ number[MyBucket(c)] # 0
    /\ \E q \in Referenced(c, EmptyQueue) :
         /\ Answer(c, Append(SubSeq(MyChain(c), 1, cur[c]),
                             [name |-> call[c].name, queue |-> q]), q.n_entry)
         /\ segv' = TailIsNull(q)
    /\ UNCHANGED number

(* The name is appended behind curr_name: curr_name->next = newName.       *)
CreateAppend(c) ==
    /\ ~ segv /\ pc[c] = "missing" /\ number[MyBucket(c)] # 0
    /\ \E q \in Referenced(c, EmptyQueue) :
         /\ Answer(c, Append(SubSeq(MyChain(c), 1, cur[c]),
                             [name |-> call[c].name, queue |-> q]), q.n_entry)
         /\ segv' = TailIsNull(q)
    /\ number' = [number EXCEPT ![MyBucket(c)] = @ + 1]

(* Slip: a failing malloc returns 0 at once, with the mutex held.          *)
FailsHoldingMutex(c) ==
    /\ ~ segv /\ pc[c] = "missing" /\ number[MyBucket(c)] # 0
    /\ MayFail
    /\ pc' = [pc EXCEPT ![c] = "idle"]
    /\ call' = [call EXCEPT ![c] = None]
    /\ RecordAsk(c)
    /\ UNCHANGED <<clock, table, lock, walk, ret, segv>>

(* malloc returns NULL for the new node.                                   *)
CreateFails(c) ==
    /\ ~ segv /\ pc[c] = "missing" /\ number[MyBucket(c)] # 0
    /\ MayFail
    /\ Answer(c, MyChain(c), 0)
    /\ UNCHANGED <<number, segv>>

Release(c) ==
    /\ ~ segv /\ pc[c] = "unlock"
    /\ lock' = [lock EXCEPT ![MyBucket(c)] = None]
    /\ pc' = [pc EXCEPT ![c] = "idle"]
    /\ call' = [call EXCEPT ![c] = None]
    /\ cur' = [cur EXCEPT ![c] = 1] /\ i' = [i EXCEPT ![c] = 0] /\ ret' = [ret EXCEPT ![c] = 0]
    /\ UNCHANGED <<clock, table, asked, segv>>

(* The steps a core takes with the mutex in its hands.                     *)
Holding(c) ==
    \/ Match(c) \/ EndOfChain(c) \/ LoopExit(c)
    \/ Advance(c) \/ CleanKeep(c) \/ CleanRemove(c)
    \/ Found(c) \/ CreateFirst(c) \/ CreateAppend(c) \/ CreateFails(c)
    \/ Release(c)

Next == Tick \/ \E c \in Core : Arrive(c) \/ Acquire(c) \/ Holding(c)

Spec == Init /\ [][Next]_vars

(* The cores are DPDK worker threads pinned to a processor each: one that  *)
(* holds a mutex runs on. Nothing is assumed about packets arriving, nor   *)
(* about who gets a contended mutex.                                       *)
FairSpec == Spec /\ \A c \in Core : WF_vars(Holding(c))

-----------------------------------------------------------------------------
(* Properties.                                                             *)

(* Under the mutex, list, flags and counter of every node agree, and no    *)
(* node outlives its last client: a node that prune empties is unlinked in *)
(* the same step.                                                          *)
NodesConsistent ==
    segv \/ \A b \in Bucket : \A j \in DOMAIN chain[b] :
                QueueOK(chain[b][j].queue) /\ chain[b][j].queue.n_entry > 0

(* bitMap.number bounds the walk: it never falls below the length of the   *)
(* chain, however many nodes are removed on the way, and is 0 only for an  *)
(* unused bucket (which is what makes CreateFirst safe).                   *)
NumberCoversChain ==
    \A b \in Bucket : /\ number[b] >= Len(chain[b])
                      /\ number[b] = 0 <=> chain[b] = << >>

(* curr_name is a node of the chain as long as the core uses it: no other  *)
(* core frees it under its feet.                                           *)
CurrNameIsLive ==
    \A c \in Core : pc[c] \in {"walk", "found", "missing"} =>
        \/ cur[c] \in DOMAIN MyChain(c)
        \/ MyChain(c) = << >> /\ pc[c] # "found"

Askers(n) == {u \in User : asked[n][u] # Never}

(* The callers' "if (ret < k_anon)": the name is overwritten with random   *)
(* letters, or passes.                                                     *)
Verdict(c) ==
    IF pc[c] # "unlock" THEN {}
    ELSE {[k |-> call[c].k, pass |-> ~ (ret[c] < call[c].k.alpha)]}

Promise == INSTANCE AlphaAnon WITH
    askers <- [n \in Name |-> Askers(n)], verdict <- [c \in Core |-> Verdict(c)]

(* The table keeps the promise of AlphaAnon: through hashing, walking,     *)
(* cleaning and failing mallocs, on any core, a call is one Ask with a     *)
(* verdict the askers so far justify.                                      *)
KeepsPromise == Promise!Spec

FreshAskers(n, t, delta) == {u \in User : asked[n][u] # Never /\ asked[n][u] >= t - delta}

(* The users whose client_list cell is theirs alone.                       *)
Uncollided == {u \in User : \A v \in User : ClientHash[v] = ClientHash[u] => v = u}

InOwnBucket(n) == \A m \in Name : NameHash[m] = NameHash[n] => m = n

(* In a bucket of its own, a name counts every such user that asked within *)
(* the delta of every interface that shares the table.                     *)
NoAskerForgotten ==
    \A c \in Core : pc[c] = "unlock" /\ InOwnBucket(call[c].name) =>
        ret[c] >= Cardinality({u \in Uncollided :
                      \A k \in Setting : u \in FreshAskers(call[c].name, clock, k.delta)})

(* A held mutex is released, on every path through table_add and whatever  *)
(* the walk removes, unless the process dies holding it.                   *)
MutexReleased == \A b \in Bucket, c \in Core : lock[b] = c ~> lock[b] # c \/ segv

(* src/README.md:82, first half: a name is obfuscated if fewer than alpha  *)
(* users are linked to it in the delta interval.                           *)
HiddenBelowAlpha ==
    \A c \in Core : pc[c] = "unlock" =>
        (Cardinality(FreshAskers(call[c].name, call[c].time, call[c].k.delta))
             < call[c].k.alpha => ret[c] < call[c].k.alpha)

=============================================================================
