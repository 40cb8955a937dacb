----------------------------- MODULE FlowTable -----------------------------
(***************************************************************************)
(* The flow table of src/src/flow_mng.c: a hash table of the TCP and UDP   *)
(* flows with the decision taken for each, shared by all cores. It has one *)
(* mutex per bucket, held during reference_flow only: the pointer that     *)
(* reference_flow returns is used after the unlock. AnonEngine composes    *)
(* this table with the code that uses it.                                  *)
(*                                                                         *)
(* A bucket is its chain of struct table_flow, a sequence of addresses.    *)
(* The first is flow_struct.table[hash], written as the bucket itself; the *)
(* others come from malloc. malloc returning NULL is not checked by the    *)
(* code: the process dies, as it does in the garbage collection of the     *)
(* last entry of a chain (segv).                                           *)
(***************************************************************************)
EXTENDS Integers, Sequences, FiniteSets

CONSTANTS
    Core,      \* the forwarding threads
    Bucket,    \* the values of getHash, and the addresses of the static entries
    Heap,      \* the addresses malloc may return
    Tuple,     \* the 5-tuples of the packets: src, dst, in_port, out_port, protocol
    FlowHash,  \* getHash, in [Tuple -> Bucket]
    CoreOf,    \* the receive queue RSS picks, in [Tuple -> Core]
    T_OUT,     \* seconds of silence after which a flow has expired (300 in defines.h)
    MaxSkew,   \* seconds between a packet's clock read and its last table access
    MaxTime,   \* bound on the clock
    None

(* The match test of reference_flow. Addresses and ports are compared up   *)
(* to a swap, each on its own.                                             *)
Same(x, y) ==
    /\ \/ x.src = y.src /\ x.dst = y.dst
       \/ x.src = y.dst /\ x.dst = y.src
    /\ \/ x.in_port = y.in_port /\ x.out_port = y.out_port
       \/ x.out_port = y.in_port /\ x.in_port = y.out_port
    /\ x.protocol = y.protocol

(* getHash is an exclusive or and the RSS key is the symmetric one         *)
(* (traffic_anon.c:21): both give the packets of a flow the same value.    *)
ASSUME FlowAssumption ==
    /\ FlowHash \in [Tuple -> Bucket] /\ CoreOf \in [Tuple -> Core]
    /\ \A x, y \in Tuple : Same(x, y) => FlowHash[x] = FlowHash[y] /\ CoreOf[x] = CoreOf[y]
    /\ Heap \cap Bucket = {} /\ None \notin Tuple \cup Bucket \cup Heap
    /\ T_OUT \in Nat /\ MaxSkew \in Nat /\ MaxTime \in Nat

VARIABLES
    clock,   \* CLOCK_MONOTONIC_COARSE, in seconds since boot
    chain,   \* chain[b]: the addresses of the entries of bucket b
    entry,   \* entry[n]: the fields of the struct table_flow at address n
    segv,    \* the process died
    pc,      \* where each core is in multiplexer_proto
    pkt,     \* the core's packet: its tuple and the time it was handled at
    flusso   \* the pointer reference_flow returned to the core

Address == Bucket \cup Heap

(* -1: undecided, 0: passes, 1: to anonymize.                              *)
Decision == {-1, 0, 1}

(* ipv4_anon is kept as whether it holds an address drawn for this flow,   *)
(* rather than what an earlier user of the memory left there.              *)
TableFlow ==
    [tuple : Tuple \cup {None}, timestamp : Nat, toAnon : Decision, ipv4_anon : BOOLEAN]

NewEntry(x, t) == [tuple |-> x, timestamp |-> t, toAnon |-> -1, ipv4_anon |-> FALSE]

(* The table is one large malloc, which the C library takes from the       *)
(* kernel zeroed.                                                          *)
FlowTableInit ==
    /\ clock = 0
    /\ chain = [b \in Bucket |-> <<b>>]
    /\ entry = [n \in Address |-> NewEntry(None, 0)]
    /\ segv = FALSE

InUse(ch) == UNION {{ch[b][j] : j \in DOMAIN ch[b]} : b \in Bucket}

(* Slip: a flow exactly T_OUT seconds silent has expired too ("Slip": see  *)
(* ClientQueue).                                                           *)
ExpiredInclusive(n, t) == t - entry[n].timestamp >= T_OUT

Expired(n, t) == t - entry[n].timestamp > T_OUT

Matches(n, x) == entry[n].tuple # None /\ Same(entry[n].tuple, x)

-----------------------------------------------------------------------------
(* The walk of reference_flow over chain ch for tuple x at time t, gc being*)
(* "probability > 50". It stops at a match. An expired entry other than    *)
(* the first is removed, and then the entry that follows it is skipped.    *)
Removes(ch, p, x, t, gc) ==
    gc /\ p # 1 /\ Expired(ch[p], t) /\ ~ Matches(ch[p], x)

Walk(ch, x, t, gc) ==
    LET met[p \in 1..Len(ch)] ==
          \/ p = 1
          \/ /\ p > 1 /\ met[p - 1]
             /\ ~ Matches(ch[p - 1], x) /\ ~ Removes(ch, p - 1, x, t, gc)
          \/ /\ p > 2 /\ met[p - 2]
             /\ Removes(ch, p - 2, x, t, gc)
    IN  {p \in DOMAIN ch : met[p]}

(* Chain ch without the entries at the positions gone, in the same order.  *)
Unlinked(ch, gone) ==
    LET stay == DOMAIN ch \ gone
    IN  [j \in 1..Cardinality(stay) |->
            ch[CHOOSE p \in stay : Cardinality({q \in stay : q <= p}) = j]]

(* The entries after the walk has freed those at the positions gone.       *)
Swept(ch, gone) ==
    [n \in Address |-> IF \E p \in gone : ch[p] = n THEN NewEntry(None, 0) ELSE entry[n]]

(* Slip: the timestamp of a matching entry is not refreshed.               *)
FlowFoundUnstamped(c, n, swept) ==
    /\ entry' = swept
    /\ flusso' = [flusso EXCEPT ![c] = n]
    /\ UNCHANGED segv

FlowFound(c, n, swept) ==
    /\ entry' = [swept EXCEPT ![n].timestamp = pkt[c].time]
    /\ flusso' = [flusso EXCEPT ![c] = n]
    /\ UNCHANGED segv

(* A new flow is written to the entry at n: the expired first entry of the *)
(* bucket or a new one.                                                    *)
FlowWritten(c, n, swept) ==
    /\ entry' = [swept EXCEPT ![n] = NewEntry(pkt[c].tuple, pkt[c].time)]
    /\ flusso' = [flusso EXCEPT ![c] = n]
    /\ UNCHANGED segv

Dies == segv' = TRUE /\ UNCHANGED <<chain, entry, flusso>>

(* reference_flow, from the lock to the unlock, with the garbage collector *)
(* on or off.                                                              *)
Reference(c) ==
    LET x  == pkt[c].tuple
        t  == pkt[c].time
        b  == FlowHash[x]
        ch == chain[b]
    IN  \E gc \in BOOLEAN :
          LET walk  == Walk(ch, x, t, gc)
              match == {p \in walk : Matches(ch[p], x)}
              gone  == {p \in walk : Removes(ch, p, x, t, gc)}
              kept  == Unlinked(ch, gone)
              swept == Swept(ch, gone)
              first_free == gc /\ Expired(b, t)
              free  == Heap \ InUse([chain EXCEPT ![b] = kept])
          IN  IF Len(ch) \in gone THEN Dies
              ELSE \/ /\ match # {}
                      /\ chain' = [chain EXCEPT ![b] = kept]
                      /\ \E p \in match : FlowFound(c, ch[p], swept)
                   \/ /\ match = {} /\ first_free
                      /\ chain' = [chain EXCEPT ![b] = kept]
                      /\ FlowWritten(c, b, swept)
                   \/ /\ match = {} /\ ~ first_free
                      /\ \E n \in free :
                           /\ chain' = [chain EXCEPT ![b] = Append(kept, n)]
                           /\ FlowWritten(c, n, swept)
                   \/ /\ match = {} /\ ~ first_free /\ free = {}
                      /\ Dies

(* multiplexer_proto stores what a module returned, without the mutex.     *)
SetToAnon(c, flag) ==
    entry' = [entry EXCEPT ![flusso[c]].toAnon = IF flag # 0 THEN 1 ELSE 0]

=============================================================================
