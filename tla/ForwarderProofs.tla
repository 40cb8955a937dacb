-------------------------- MODULE ForwarderProofs ---------------------------
(***************************************************************************)
(* For any ports, cores, packets, bursts, rings and pools, offload or not: *)
(* main_loop neither loses a buffer nor has it in two places, what a port  *)
(* transmits was made of the packet as it came, for that port alone, and a *)
(* name that is shown was asked for often enough; a port's outputs send    *)
(* its packets in the order they came; and each pool gets its own buffers  *)
(* back while each port sends either received buffers or copies.           *)
(***************************************************************************)
EXTENDS Forwarder, SequenceTheorems, FunctionTheorems, FiniteSetTheorems, TLAPS

-----------------------------------------------------------------------------
(* Queues: what they hold, and that they hold it once.                     *)

On(q, b) == \E j \in DOMAIN q : q[j] = b
Once(q)  == \A i, j \in DOMAIN q : q[i] = q[j] => i = j

(* Append puts its element into the queue and leaves the others there.     *)
LEMMA AppendOn ==
    ASSUME NEW S, NEW q \in Seq(S), NEW e \in S
    PROVE  /\ Append(q, e) \in Seq(S)
           /\ \A b : On(Append(q, e), b) <=> On(q, b) \/ b = e
           /\ Once(q) /\ ~ On(q, e) => Once(Append(q, e))
<1> DEFINE r == Append(q, e)
<1>1. /\ r \in Seq(S) /\ Len(r) = Len(q) + 1
      /\ \A i \in 1 .. Len(q) : r[i] = q[i]
      /\ r[Len(q) + 1] = e
  BY AppendProperties
<1> HIDE DEF r
<1>2. /\ Len(q) \in Nat /\ DOMAIN q = 1 .. Len(q) /\ DOMAIN r = 1 .. Len(r)
  BY <1>1, LenProperties
<1>3. \A b : On(r, b) <=> On(q, b) \/ b = e
  BY <1>1, <1>2 DEF On
<1>4. Once(q) /\ ~ On(q, e) => Once(r)
  BY <1>1, <1>2 DEF On, Once
<1> QED BY <1>1, <1>3, <1>4 DEF r

(* Tail takes the head, and only the head, from a queue.                   *)
LEMMA TailOn ==
    ASSUME NEW S, NEW q \in Seq(S), q # << >>, Once(q)
    PROVE  /\ Head(q) \in S /\ On(q, Head(q))
           /\ Tail(q) \in Seq(S) /\ Once(Tail(q))
           /\ \A b : On(Tail(q), b) <=> On(q, b) /\ b # Head(q)
<1> DEFINE r == Tail(q)
<1>1. /\ Head(q) \in S /\ r \in Seq(S) /\ Len(r) = Len(q) - 1
      /\ \A i \in 1 .. Len(r) : r[i] = q[i + 1]
  BY ONLY q \in Seq(S), q # << >>, HeadTailProperties, Zenon
<1> HIDE DEF r
<1>2. /\ Len(q) \in Nat /\ DOMAIN q = 1 .. Len(q) /\ DOMAIN r = 1 .. Len(r) /\ Len(q) # 0
  BY <1>1, LenProperties, EmptySeq
<1>3. Head(q) = q[1] /\ 1 \in DOMAIN q
  BY <1>2
<1>4. Once(r)
  BY <1>1, <1>2, SMTT(60) DEF Once
<1>5. ASSUME NEW b, On(r, b) PROVE On(q, b) /\ b # Head(q)
  <2>1. PICK j \in 1 .. Len(r) : r[j] = b
    BY <1>2, <1>5 DEF On
  <2>2. j + 1 \in DOMAIN q /\ q[j + 1] = b /\ j + 1 # 1
    BY <1>1, <1>2, <2>1
  <2> QED BY <1>3, <2>2 DEF On, Once
<1>6. ASSUME NEW b, On(q, b), b # Head(q) PROVE On(r, b)
  <2>1. PICK j \in 1 .. Len(q) : q[j] = b
    BY <1>2, <1>6 DEF On
  <2>2. j - 1 \in DOMAIN r /\ r[j - 1] = b
    BY <1>1, <1>2, <1>3, <1>6, <2>1
  <2> QED BY <2>2 DEF On
<1>7. On(q, Head(q))
  BY <1>3 DEF On
<1> QED BY <1>1, <1>4, <1>5, <1>6, <1>7 DEF r

(* A sequence cut in two: each half has its elements, once, and they share *)
(* none.                                                                   *)
LEMMA HalvesOn ==
    ASSUME NEW S, NEW q \in Seq(S), NEW n \in Nat, n >= 1, n <= Len(q), Once(q),
           NEW t \in Seq(S), Len(t) = n, \A i \in 1 .. n : t[i] = q[i],
           NEW r \in Seq(S), Len(r) = Len(q) - n, \A i \in 1 .. Len(q) - n : r[i] = q[n + i]
    PROVE  /\ Once(t) /\ Once(r)
           /\ \A b : On(q, b) <=> On(t, b) \/ On(r, b)
           /\ \A b : ~ (On(t, b) /\ On(r, b))
<1>1. Len(q) \in Nat /\ DOMAIN q = 1 .. Len(q) /\ DOMAIN t = 1 .. n /\ DOMAIN r = 1 .. Len(q) - n
  BY LenProperties
<1>2. Once(t) /\ Once(r)
  <2>1. Once(t)
    BY <1>1 DEF Once
  <2>2. ASSUME NEW i \in 1 .. Len(q) - n, NEW j \in 1 .. Len(q) - n, r[i] = r[j] PROVE i = j
    <3>1. n + i \in DOMAIN q /\ n + j \in DOMAIN q /\ q[n + i] = q[n + j]
      BY <1>1, <2>2
    <3>2. n + i = n + j
      BY <3>1 DEF Once
    <3> QED BY <1>1, <3>2
  <2>3. Once(r)
    BY <1>1, <2>2 DEF Once
  <2> QED BY <2>1, <2>3
<1>3. ASSUME NEW b, On(q, b) PROVE On(t, b) \/ On(r, b)
  <2>1. PICK j \in 1 .. Len(q) : q[j] = b
    BY <1>1, <1>3 DEF On
  <2>2. CASE j <= n
    BY <1>1, <2>1, <2>2, SMTT(60) DEF On
  <2>3. CASE j > n
    <3>1. j - n \in 1 .. Len(q) - n /\ n + (j - n) = j
      BY <1>1, <2>1, <2>3
    <3>2. r[j - n] = b
      BY <2>1, <3>1
    <3> QED BY <1>1, <3>1, <3>2 DEF On
  <2> QED BY <1>1, <2>2, <2>3
<1>4. ASSUME NEW b, On(t, b) PROVE On(q, b)
  BY <1>1, <1>4 DEF On
<1>5. ASSUME NEW b, On(r, b) PROVE On(q, b)
  <2>1. PICK j \in 1 .. Len(q) - n : r[j] = b
    BY <1>1, <1>5 DEF On
  <2>2. n + j \in DOMAIN q /\ q[n + j] = b
    BY <1>1, <2>1
  <2> QED BY <2>2 DEF On
<1>6. ASSUME NEW b, On(t, b), On(r, b) PROVE FALSE
  <2>1. PICK i \in 1 .. n : t[i] = b
    BY <1>1, <1>6 DEF On
  <2>2. PICK j \in 1 .. Len(q) - n : r[j] = b
    BY <1>1, <1>6 DEF On
  <2>3. i \in DOMAIN q /\ n + j \in DOMAIN q /\ q[i] = q[n + j] /\ i # n + j
    BY <1>1, <2>1, <2>2
  <2> QED BY <2>3 DEF Once
<1> QED BY <1>2, <1>3, <1>4, <1>5, <1>6

(* A burst takes the first elements from a queue, each of them once.       *)
LEMMA BurstOn ==
    ASSUME NEW S, NEW q \in Seq(S), NEW n \in 1 .. Len(q), Once(q)
    PROVE  LET t == SubSeq(q, 1, n)
               r == SubSeq(q, n + 1, Len(q))
           IN  /\ t \in Seq(S) /\ Len(t) = n /\ r \in Seq(S)
               /\ Once(t) /\ Once(r)
               /\ \A b : On(q, b) <=> On(t, b) \/ On(r, b)
               /\ \A b : ~ (On(t, b) /\ On(r, b))
<1> DEFINE t == SubSeq(q, 1, n)
           r == SubSeq(q, n + 1, Len(q))
<1>1. Len(q) \in Nat /\ (\A i \in 1 .. Len(q) : q[i] \in S) /\ n \in Nat /\ n >= 1 /\ n <= Len(q)
  BY LenProperties, ElementOfSeq
<1>2. t \in Seq(S) /\ Len(t) = n /\ \A i \in 1 .. n : t[i] = q[i]
  BY <1>1, SubSeqProperties
<1>3. r \in Seq(S) /\ Len(r) = Len(q) - n
  BY <1>1, SubSeqProperties
<1>4. \A i \in 1 .. Len(q) - n : r[i] = q[n + i]
  <2>1. \A i \in 1 .. Len(q) - (n + 1) + 1 : r[i] = q[n + 1 + i - 1]
    BY <1>1, SubSeqProperties
  <2>2. TAKE i \in 1 .. Len(q) - n
  <2>3. i \in 1 .. Len(q) - (n + 1) + 1 /\ n + 1 + i - 1 = n + i
    BY <1>1
  <2> HIDE DEF r
  <2> QED BY <2>1, <2>3
<1> HIDE DEF t, r
<1>5. /\ Once(t) /\ Once(r)
      /\ \A b : On(q, b) <=> On(t, b) \/ On(r, b)
      /\ \A b : ~ (On(t, b) /\ On(r, b))
  BY <1>1, <1>2, <1>3, <1>4, HalvesOn
<1> QED BY <1>2, <1>3, <1>5 DEF t, r

-----------------------------------------------------------------------------
(* The invariant.                                                          *)

LoopTyped ==
    /\ pc \in [Core -> Labels] /\ port_cnt \in [Core -> DOMAIN InPort]
    /\ dest_cnt \in [Core -> Nat] /\ k \in [Core -> Nat]
    /\ pkts_burst \in [Core -> Seq(Buffer)] /\ copy_mbuf \in [Core -> Buffer \cup {None}]

NicTyped ==
    /\ rx \in Queues(Seq(Buffer)) /\ tx \in Queues(Seq(Buffer)) /\ done \in Queues(SUBSET Buffer)
    /\ free \in [Pool -> SUBSET Buffer]

(* Core c's counters at each label; it has a copy only on the way to a     *)
(* port that is not the last.                                              *)
InLoop(c) ==
    /\ pc[c] = "poll" => dest_cnt[c] = 1 /\ k[c] = 1 /\ pkts_burst[c] = << >>
    /\ pc[c] # "poll" => dest_cnt[c] \in 1 .. Len(Outs(c)) /\ k[c] \in 1 .. Len(pkts_burst[c])
    /\ pc[c] = "copy" => ~ IsLast(c)
    /\ copy_mbuf[c] # None <=> pc[c] \in {"process", "transmit"} /\ ~ IsLast(c)

(* The part of its burst that a core has not handed to the NIC.            *)
Live(c) == {x \in DOMAIN pkts_burst[c] : ~ (IsLast(c) /\ x < k[c])}

Listed(c, b) == \E x \in Live(c) : pkts_burst[c][x] = b

(* The holders of buffers.                                                 *)
FreeIn(pool)  == <<"free", pool, None>>
Copying(c)    == <<"copy_mbuf", None, c>>
Bursting(c)   == <<"pkts_burst", None, c>>
Waiting(p, c) == <<"rx", p, c>>
InRing(p, c)  == <<"tx", p, c>>
SentBy(p, c)  == <<"done", p, c>>

Holder ==
    {FreeIn(pool) : pool \in Pool} \cup {Copying(c) : c \in Core} \cup {Bursting(c) : c \in Core}
    \cup ({"rx", "tx", "done"} \X Port \X Core)

(* Buffer b is where h is, and nowhere else.                               *)
IsAt(b, h) ==
    /\ \A pool \in Pool : b \in free[pool] <=> h = FreeIn(pool)
    /\ \A c \in Core : copy_mbuf[c] = b <=> h = Copying(c)
    /\ \A c \in Core : Listed(c, b) <=> h = Bursting(c)
    /\ \A p \in Port, c \in Core : On(rx[p][c], b) <=> h = Waiting(p, c)
    /\ \A p \in Port, c \in Core : On(tx[p][c], b) <=> h = InRing(p, c)
    /\ \A p \in Port, c \in Core : b \in done[p][c] <=> h = SentBy(p, c)

OneHolder == \A b \in Buffer : \E h \in Holder : IsAt(b, h)

NoRepeats ==
    /\ \A p \in Port, c \in Core : Once(rx[p][c]) /\ Once(tx[p][c])
    /\ \A c \in Core : \A x, y \in Live(c) : pkts_burst[c][x] = pkts_burst[c][y] => x = y

InLoopInv == LoopTyped /\ \A c \in Core : InLoop(c)

OwnInv == InLoopInv /\ NicTyped /\ OneHolder /\ NoRepeats

(* Holders of different kinds, or of different queues, differ.             *)
LEMMA Distinct ==
    /\ \A a, b : (FreeIn(a) = FreeIn(b) <=> a = b) /\ (Copying(a) = Copying(b) <=> a = b)
                 /\ (Bursting(a) = Bursting(b) <=> a = b)
    /\ \A a, b, x, y : /\ Waiting(a, b) = Waiting(x, y) <=> a = x /\ b = y
                       /\ InRing(a, b) = InRing(x, y) <=> a = x /\ b = y
                       /\ SentBy(a, b) = SentBy(x, y) <=> a = x /\ b = y
    /\ \A a, b : FreeIn(a) # Copying(b) /\ FreeIn(a) # Bursting(b) /\ Copying(a) # Bursting(b)
    /\ \A a, x, y : /\ FreeIn(a) # Waiting(x, y) /\ FreeIn(a) # InRing(x, y) /\ FreeIn(a) # SentBy(x, y)
                    /\ Copying(a) # Waiting(x, y) /\ Copying(a) # InRing(x, y) /\ Copying(a) # SentBy(x, y)
                    /\ Bursting(a) # Waiting(x, y) /\ Bursting(a) # InRing(x, y)
                    /\ Bursting(a) # SentBy(x, y)
    /\ \A a, b, x, y : /\ Waiting(a, b) # InRing(x, y) /\ Waiting(a, b) # SentBy(x, y)
                       /\ InRing(a, b) # SentBy(x, y)
BY DEF FreeIn, Copying, Bursting, Waiting, InRing, SentBy

(* They are all holders.                                                   *)
LEMMA Holders ==
    /\ \A pool \in Pool : FreeIn(pool) \in Holder
    /\ \A c \in Core : Copying(c) \in Holder /\ Bursting(c) \in Holder
    /\ \A p \in Port, c \in Core : /\ Waiting(p, c) \in Holder /\ InRing(p, c) \in Holder
                                   /\ SentBy(p, c) \in Holder
BY DEF Holder, Waiting, InRing, SentBy

-----------------------------------------------------------------------------
(* The counters.                                                           *)

(* Every input port is a port.                                             *)
LEMMA InputIsPort == Input \subseteq Port
<1>1. InPort \in Seq(Port)
  BY ForwarderAssumption
<1> QED BY <1>1, ElementOfSeq, LenProperties DEF Input

(* The output ports of the input port that is polled.                      *)
LEMMA OutsFacts ==
    ASSUME LoopTyped, NEW c \in Core
    PROVE  /\ In(c) \in Input /\ In(c) \in Port
           /\ Outs(c) \in Seq(Port) /\ Len(Outs(c)) \in Nat /\ Len(Outs(c)) >= 1
<1>1. port_cnt[c] \in DOMAIN InPort
  BY DEF LoopTyped
<1>2. In(c) \in Input
  BY <1>1 DEF In, Input
<1>3. Outs(c) \in Seq(Port) \ {<< >>}
  BY <1>2, ForwarderAssumption DEF Outs
<1>4. Len(Outs(c)) \in Nat /\ Len(Outs(c)) # 0
  BY <1>3, LenProperties, EmptySeq
<1> QED BY <1>2, <1>3, <1>4, InputIsPort

(* Between two polls a core is at a packet of its burst and at an output   *)
(* port, and what it rewrites and transmits is a buffer.                   *)
LEMMA Current ==
    ASSUME LoopTyped, NEW c \in Core, InLoop(c), pc[c] # "poll"
    PROVE  /\ Dest(c) \in Port
           /\ dest_cnt[c] \in 1 .. Len(Outs(c)) /\ k[c] \in 1 .. Len(pkts_burst[c])
           /\ Len(pkts_burst[c]) \in Nat /\ DOMAIN pkts_burst[c] = 1 .. Len(pkts_burst[c])
           /\ k[c] \in Live(c) /\ pkts_burst[c][k[c]] \in Buffer
           /\ pc[c] \in {"process", "transmit"} => Mbuf(c) \in Buffer
<1>1. dest_cnt[c] \in 1 .. Len(Outs(c)) /\ k[c] \in 1 .. Len(pkts_burst[c])
  BY DEF InLoop
<1>2. Dest(c) \in Port
  BY <1>1, OutsFacts, ElementOfSeq DEF Dest
<1>3. pkts_burst[c] \in Seq(Buffer)
  BY DEF LoopTyped
<1>4. Len(pkts_burst[c]) \in Nat /\ DOMAIN pkts_burst[c] = 1 .. Len(pkts_burst[c])
  BY <1>3, LenProperties
<1>5. pkts_burst[c][k[c]] \in Buffer
  BY <1>1, <1>3, ElementOfSeq
<1>6. k[c] \in Live(c)
  BY <1>1, <1>4 DEF Live
<1>7. pc[c] \in {"process", "transmit"} => Mbuf(c) \in Buffer
  <2>1. copy_mbuf[c] \in Buffer \cup {None}
    BY DEF LoopTyped
  <2> QED BY <1>5, <2>1 DEF InLoop, Mbuf
<1> QED BY <1>1, <1>2, <1>4, <1>5, <1>6, <1>7

(* Core d does nothing.                                                    *)
Rests(d) ==
    /\ pc'[d] = pc[d] /\ port_cnt'[d] = port_cnt[d] /\ dest_cnt'[d] = dest_cnt[d] /\ k'[d] = k[d]
    /\ pkts_burst'[d] = pkts_burst[d] /\ copy_mbuf'[d] = copy_mbuf[d]

(* A core that does nothing stays where it was, with what it had.          *)
LEMMA RestsKeep ==
    ASSUME NEW d \in Core, Rests(d)
    PROVE  /\ InLoop(d) => InLoop(d)'
           /\ Live(d)' = Live(d) /\ \A b : Listed(d, b)' <=> Listed(d, b)
           /\ IsLast(d)' <=> IsLast(d)
           /\ Dest(d)' = Dest(d) /\ Mbuf(d)' = Mbuf(d)
<1>1. In(d)' = In(d) /\ Outs(d)' = Outs(d) /\ (IsLast(d)' <=> IsLast(d)) /\ Dest(d)' = Dest(d)
  BY DEF Rests, In, Outs, IsLast, Dest
<1>2. Live(d)' = Live(d)
  BY <1>1 DEF Rests, Live
<1>3. \A b : Listed(d, b)' <=> Listed(d, b)
  BY <1>2 DEF Rests, Listed
<1>4. InLoop(d) => InLoop(d)'
  BY <1>1 DEF Rests, InLoop
<1> QED BY <1>1, <1>2, <1>3, <1>4 DEF Mbuf, Rests

(* The next input port is one.                                             *)
LEMMA NextPortTyped ==
    ASSUME LoopTyped, NEW c \in Core, NextPort(c)
    PROVE  /\ port_cnt' \in [Core -> DOMAIN InPort]
           /\ \A d \in Core : d # c => port_cnt'[d] = port_cnt[d]
<1>1. InPort \in Seq(Port) /\ Len(InPort) \in Nat /\ Len(InPort) # 0 /\ DOMAIN InPort = 1 .. Len(InPort)
  BY ForwarderAssumption, LenProperties, EmptySeq
<1>2. \A x \in 1 .. Len(InPort) : (x % Len(InPort)) + 1 \in 1 .. Len(InPort)
  BY <1>1
<1> QED BY <1>1, <1>2 DEF LoopTyped, NextPort

(* After a transmission: the burst loses what was handed to the NIC, the   *)
(* original on the way to the last port, and nothing else.                 *)
LEMMA NextPacketSteps ==
    ASSUME InLoopInv, NEW c \in Core, pc[c] = "transmit", NextPacket(c),
           copy_mbuf' = [copy_mbuf EXCEPT ![c] = None]
    PROVE  /\ InLoopInv' /\ \A d \in Core : d # c => Rests(d)
           /\ pc'[c] # "transmit" /\ copy_mbuf'[c] = None
           /\ Live(c)' = IF IsLast(c) THEN Live(c) \ {k[c]} ELSE Live(c)
           /\ \A x \in Live(c)' : pkts_burst'[c][x] = pkts_burst[c][x]
<1>1. LoopTyped /\ \A d \in Core : InLoop(d)
  BY DEF InLoopInv
<1>2. Len(Outs(c)) \in Nat /\ Len(Outs(c)) >= 1
  BY <1>1, OutsFacts
<1>3. /\ dest_cnt[c] \in 1 .. Len(Outs(c)) /\ k[c] \in 1 .. Len(pkts_burst[c])
      /\ Len(pkts_burst[c]) \in Nat /\ DOMAIN pkts_burst[c] = 1 .. Len(pkts_burst[c])
  BY <1>1, Current
<1>4. /\ copy_mbuf' \in [Core -> Buffer \cup {None}] /\ copy_mbuf'[c] = None
      /\ \A d \in Core : d # c => copy_mbuf'[d] = copy_mbuf[d]
  BY <1>1 DEF LoopTyped
<1>5. CASE k[c] < Len(pkts_burst[c])
  <2>1. /\ k' = [k EXCEPT ![c] = k[c] + 1]
        /\ pc' = [pc EXCEPT ![c] = FirstStep(c, dest_cnt[c])]
        /\ UNCHANGED <<port_cnt, dest_cnt, pkts_burst>>
    BY <1>5 DEF NextPacket, Goto
  <2>2. LoopTyped'
    BY <1>1, <1>4, <2>1 DEF LoopTyped, Labels, FirstStep
  <2>3. /\ k'[c] = k[c] + 1 /\ pc'[c] = FirstStep(c, dest_cnt[c])
        /\ Outs(c)' = Outs(c) /\ pkts_burst'[c] = pkts_burst[c] /\ dest_cnt'[c] = dest_cnt[c]
    BY <1>1, <2>1 DEF LoopTyped, Outs, In
  <2>4. IsLast(c)' <=> IsLast(c)
    BY <2>3 DEF IsLast
  <2>5. InLoop(c)'
    <3>1. pc'[c] # "poll" /\ (pc'[c] = "copy" <=> ~ IsLast(c)) /\ (pc'[c] = "process" <=> IsLast(c))
      BY <2>3 DEF FirstStep, IsLast
    <3> QED BY <1>3, <1>4, <1>5, <2>3, <2>4, <3>1 DEF InLoop
  <2>6. \A d \in Core : d # c => Rests(d)
    BY <1>1, <1>4, <2>1 DEF LoopTyped, Rests
  <2>7. InLoopInv'
    BY <1>1, <2>2, <2>5, <2>6, RestsKeep DEF InLoopInv
  <2>8. Live(c)' = IF IsLast(c) THEN Live(c) \ {k[c]} ELSE Live(c)
    BY <1>3, <2>3, <2>4 DEF Live
  <2> QED BY <1>4, <2>3, <2>6, <2>7, <2>8 DEF FirstStep
<1>6. CASE ~ (k[c] < Len(pkts_burst[c])) /\ IsLast(c)
  <2>1. /\ k' = [k EXCEPT ![c] = 1] /\ dest_cnt' = [dest_cnt EXCEPT ![c] = 1]
        /\ pkts_burst' = [pkts_burst EXCEPT ![c] = << >>]
        /\ pc' = [pc EXCEPT ![c] = "poll"] /\ NextPort(c)
    BY <1>6 DEF NextPacket, Goto
  <2>2. /\ port_cnt' \in [Core -> DOMAIN InPort]
        /\ \A d \in Core : d # c => port_cnt'[d] = port_cnt[d]
    BY <1>1, <2>1, NextPortTyped
  <2>3. << >> \in Seq(Buffer)
    BY EmptySeq
  <2>4. LoopTyped'
    BY <1>1, <1>4, <2>1, <2>2, <2>3 DEF LoopTyped, Labels
  <2>5. /\ k'[c] = 1 /\ dest_cnt'[c] = 1 /\ pkts_burst'[c] = << >> /\ pc'[c] = "poll"
    BY <1>1, <2>1 DEF LoopTyped
  <2>6. InLoop(c)'
    BY <1>4, <2>5 DEF InLoop
  <2>7. \A d \in Core : d # c => Rests(d)
    BY <1>1, <1>4, <2>1, <2>2 DEF LoopTyped, Rests
  <2>8. InLoopInv'
    BY <1>1, <2>4, <2>6, <2>7, RestsKeep DEF InLoopInv
  <2>9. Live(c)' = {} /\ Live(c) \ {k[c]} = {}
    <3>1. Live(c)' = {}
      BY <2>5 DEF Live
    <3>2. Live(c) \ {k[c]} = {}
      BY <1>3, <1>6 DEF Live
    <3> QED BY <3>1, <3>2
  <2> QED BY <1>4, <1>6, <2>5, <2>7, <2>8, <2>9
<1>7. CASE ~ (k[c] < Len(pkts_burst[c])) /\ ~ IsLast(c)
  <2>1. /\ k' = [k EXCEPT ![c] = 1] /\ dest_cnt' = [dest_cnt EXCEPT ![c] = dest_cnt[c] + 1]
        /\ pc' = [pc EXCEPT ![c] = FirstStep(c, dest_cnt[c] + 1)]
        /\ UNCHANGED <<port_cnt, pkts_burst>>
    BY <1>7 DEF NextPacket, Goto
  <2>2. LoopTyped'
    BY <1>1, <2>1, <1>4 DEF LoopTyped, Labels, FirstStep
  <2>3. /\ k'[c] = 1 /\ pc'[c] = FirstStep(c, dest_cnt[c] + 1)
        /\ Outs(c)' = Outs(c) /\ pkts_burst'[c] = pkts_burst[c] /\ dest_cnt'[c] = dest_cnt[c] + 1
    BY <1>1, <2>1 DEF LoopTyped, Outs, In
  <2>4. dest_cnt[c] < Len(Outs(c))
    BY <1>2, <1>3, <1>7 DEF IsLast
  <2>5. InLoop(c)'
    <3>1. pc'[c] # "poll" /\ (pc'[c] = "copy" <=> ~ IsLast(c)') /\ (pc'[c] = "process" <=> IsLast(c)')
      BY <2>3 DEF FirstStep, IsLast
    <3> QED BY <1>2, <1>3, <1>4, <2>3, <2>4, <3>1 DEF InLoop
  <2>6. \A d \in Core : d # c => Rests(d)
    BY <1>1, <1>4, <2>1 DEF LoopTyped, Rests
  <2>7. InLoopInv'
    BY <1>1, <2>2, <2>5, <2>6, RestsKeep DEF InLoopInv
  <2>8. Live(c)' = DOMAIN pkts_burst[c] /\ Live(c) = DOMAIN pkts_burst[c]
    <3>1. Live(c)' = DOMAIN pkts_burst[c]
      BY <1>3, <2>3 DEF Live
    <3>2. Live(c) = DOMAIN pkts_burst[c]
      BY <1>7 DEF Live
    <3> QED BY <3>1, <3>2
  <2> QED BY <1>4, <1>7, <2>3, <2>6, <2>7, <2>8 DEF FirstStep
<1> QED BY <1>5, <1>6, <1>7

(* The other steps of main_loop: none moves the counters of another core.  *)
LEMMA RxBurstEmptySteps ==
    ASSUME InLoopInv, NEW c \in Core, RxBurstEmpty(c)
    PROVE  /\ InLoopInv' /\ \A d \in Core : d # c => Rests(d)
           /\ pc[c] = "poll" /\ pc'[c] = "poll" /\ Live(c) = {} /\ Live(c)' = {}
           /\ UNCHANGED <<nic, mem, copy_mbuf, engine>>
<1>1. /\ LoopTyped /\ (\A d \in Core : InLoop(d))
      /\ pc[c] = "poll" /\ NextPort(c)
      /\ UNCHANGED <<nic, mem, pc, dest_cnt, k, pkts_burst, copy_mbuf, engine>>
  BY DEF RxBurstEmpty, InLoopInv
<1>2. /\ port_cnt' \in [Core -> DOMAIN InPort]
      /\ \A d \in Core : d # c => port_cnt'[d] = port_cnt[d]
  BY <1>1, NextPortTyped
<1>3. LoopTyped'
  BY <1>1, <1>2 DEF LoopTyped
<1>4. pkts_burst[c] = << >>
  BY <1>1 DEF InLoop
<1>5. InLoop(c)'
  BY <1>1 DEF InLoop
<1>6. \A d \in Core : d # c => Rests(d)
  BY <1>1, <1>2 DEF Rests
<1>7. InLoopInv'
  BY <1>1, <1>3, <1>5, <1>6, RestsKeep DEF InLoopInv
<1>8. Live(c) = {} /\ Live(c)' = {}
  <2>1. Live(c) = {}
    BY <1>4 DEF Live
  <2>2. Live(c)' = {}
    BY <1>1, <1>4 DEF Live
  <2> QED BY <2>1, <2>2
<1> QED BY <1>1, <1>6, <1>7, <1>8

(* The buffers that RxBurst takes from core c's receive queue, and the     *)
(* rest of the queue.                                                      *)
Polled(c) == rx[In(c)][c]
Taken(c)  == IF Len(Polled(c)) < PKT_BURST_SZ THEN Len(Polled(c)) ELSE PKT_BURST_SZ

(* rte_eth_rx_burst takes the first packets of the polled queue, at most   *)
(* PKT_BURST_SZ, into the empty burst.                                     *)
LEMMA RxBurstSteps ==
    ASSUME InLoopInv, NicTyped, NEW c \in Core, RxBurst(c)
    PROVE  /\ InLoopInv' /\ \A d \in Core : d # c => Rests(d)
           /\ In(c) \in Port /\ Polled(c) \in Seq(Buffer) /\ Taken(c) \in 1 .. Len(Polled(c))
           /\ rx' = [rx EXCEPT ![In(c)][c] = SubSeq(Polled(c), Taken(c) + 1, Len(Polled(c)))]
           /\ pkts_burst'[c] = SubSeq(Polled(c), 1, Taken(c))
           /\ Live(c) = {} /\ Live(c)' = DOMAIN pkts_burst'[c]
           /\ pc'[c] \in {"copy", "process"}
           /\ UNCHANGED <<tx, done, free, arrived, sent, mem, copy_mbuf, engine>>
<1> DEFINE q == Polled(c)
           n == Taken(c)
<1>1. LoopTyped /\ (\A d \in Core : InLoop(d)) /\ rx \in Queues(Seq(Buffer))
  BY DEF InLoopInv, NicTyped
<1>2. In(c) \in Port /\ Outs(c) \in Seq(Port) /\ Len(Outs(c)) \in Nat /\ Len(Outs(c)) >= 1
  BY <1>1, OutsFacts
<1>3. q \in Seq(Buffer) /\ q # << >>
  BY <1>1, <1>2 DEF Queues, RxBurst, Polled
<1>4. n \in 1 .. Len(q)
  <2>1. Len(q) \in Nat /\ Len(q) # 0
    BY <1>3, EmptySeq, LenProperties
  <2>2. PKT_BURST_SZ \in Nat \ {0}
    BY ForwarderAssumption
  <2> QED BY <2>1, <2>2 DEF Taken
<1>5. /\ pkts_burst' = [pkts_burst EXCEPT ![c] = SubSeq(q, 1, n)]
      /\ rx' = [rx EXCEPT ![In(c)][c] = SubSeq(q, n + 1, Len(q))]
      /\ pc' = [pc EXCEPT ![c] = FirstStep(c, 1)]
      /\ UNCHANGED <<tx, done, free, arrived, sent, mem, port_cnt, dest_cnt, k, copy_mbuf, engine>>
      /\ pc[c] = "poll"
  BY DEF RxBurst, Goto, Polled, Taken
<1> HIDE DEF q, n
<1>6. SubSeq(q, 1, n) \in Seq(Buffer) /\ Len(SubSeq(q, 1, n)) = n
  <2>1. Len(q) \in Nat /\ \A i \in 1 .. Len(q) : q[i] \in Buffer
    BY <1>3, LenProperties, ElementOfSeq
  <2> QED BY <1>4, <2>1, SubSeqProperties
<1>7. LoopTyped'
  <2>1. pkts_burst' \in [Core -> Seq(Buffer)]
    BY <1>1, <1>5, <1>6 DEF LoopTyped
  <2>2. pc' \in [Core -> Labels]
    BY <1>1, <1>5 DEF LoopTyped, Labels, FirstStep
  <2> QED BY <1>1, <1>5, <2>1, <2>2 DEF LoopTyped
<1>8. dest_cnt[c] = 1 /\ k[c] = 1 /\ pkts_burst[c] = << >> /\ copy_mbuf[c] = None
  BY <1>1, <1>5 DEF InLoop
<1>9. /\ pkts_burst'[c] = SubSeq(q, 1, n) /\ pc'[c] = FirstStep(c, 1) /\ Outs(c)' = Outs(c)
      /\ pc'[c] \in {"copy", "process"} /\ (pc'[c] = "copy" => Len(Outs(c)) # 1)
      /\ (pc'[c] = "process" => Len(Outs(c)) = 1)
  <2>1. pkts_burst'[c] = SubSeq(q, 1, n) /\ pc'[c] = FirstStep(c, 1)
    BY <1>1, <1>5 DEF LoopTyped
  <2>2. Outs(c)' = Outs(c)
    BY <1>5 DEF Outs, In
  <2> QED BY <2>1, <2>2 DEF FirstStep
<1>10. InLoop(c)'
  <2>1. k'[c] \in 1 .. Len(pkts_burst'[c]) /\ dest_cnt'[c] \in 1 .. Len(Outs(c))
    BY <1>2, <1>3, <1>4, <1>5, <1>6, <1>8, <1>9, LenProperties
  <2>2. IsLast(c)' <=> Len(Outs(c)) = 1
    BY <1>5, <1>8, <1>9 DEF IsLast
  <2> QED BY <1>5, <1>8, <1>9, <2>1, <2>2 DEF InLoop
<1>11. \A d \in Core : d # c => Rests(d)
  BY <1>1, <1>5 DEF LoopTyped, Rests
<1>12. InLoopInv'
  BY <1>1, <1>7, <1>10, <1>11, RestsKeep DEF InLoopInv
<1>13. Live(c) = {} /\ Live(c)' = DOMAIN pkts_burst'[c]
  <2>1. Live(c) = {}
    BY <1>8 DEF Live
  <2>2. \A x \in DOMAIN pkts_burst'[c] : ~ (x < k'[c])
    BY <1>5, <1>6, <1>8, <1>9, LenProperties
  <2>3. Live(c)' = DOMAIN pkts_burst'[c]
    BY <2>2 DEF Live
  <2> QED BY <2>1, <2>3
<1> QED BY <1>2, <1>3, <1>4, <1>5, <1>9, <1>11, <1>12, <1>13 DEF q, n

(* A copy takes a buffer of pktmbuf_pool2 on the way to a port that is not *)
(* the last.                                                               *)
LEMMA CopySteps ==
    ASSUME InLoopInv, NicTyped, NEW c \in Core, Copy(c)
    PROVE  /\ InLoopInv' /\ (\A d \in Core : d # c => Rests(d)) /\ ~ IsLast(c)
           /\ Live(c)' = Live(c) /\ pkts_burst' = pkts_burst /\ k[c] \in Live(c)
           /\ pc'[c] = "process" /\ copy_mbuf[c] = None
           /\ Mbuf(c)' = copy_mbuf'[c]
           /\ \E b \in free["pktmbuf_pool2"] :
                /\ free' = [free EXCEPT !["pktmbuf_pool2"] = @ \ {b}]
                /\ mem' = [mem EXCEPT ![b] = mem[pkts_burst[c][k[c]]]]
                /\ copy_mbuf' = [copy_mbuf EXCEPT ![c] = b]
           /\ UNCHANGED <<rx, tx, done, arrived, sent, engine>>
<1>1. PICK b \in free["pktmbuf_pool2"] :
         /\ free' = [free EXCEPT !["pktmbuf_pool2"] = @ \ {b}]
         /\ mem' = [mem EXCEPT ![b] = mem[pkts_burst[c][k[c]]]]
         /\ copy_mbuf' = [copy_mbuf EXCEPT ![c] = b]
  BY DEF Copy
<1>2. /\ pc[c] = "copy" /\ pc' = [pc EXCEPT ![c] = "process"]
      /\ UNCHANGED <<rx, tx, done, arrived, sent, engine>>
      /\ UNCHANGED <<port_cnt, dest_cnt, k, pkts_burst>>
  BY DEF Copy, Goto, loop
<1>3. LoopTyped /\ (\A d \in Core : InLoop(d))
  BY DEF InLoopInv
<1>4. b \in Buffer /\ b # None
  <2>1. "pktmbuf_pool2" \in Pool
    BY DEF Pool
  <2>2. b \in Buffer
    BY <2>1 DEF NicTyped
  <2> QED BY <2>2, ForwarderAssumption
<1>5. LoopTyped'
  <2>1. copy_mbuf' \in [Core -> Buffer \cup {None}]
    BY <1>1, <1>3, <1>4 DEF LoopTyped
  <2>2. pc' \in [Core -> Labels]
    BY <1>2, <1>3 DEF LoopTyped, Labels
  <2> QED BY <1>2, <1>3, <2>1, <2>2 DEF LoopTyped
<1>6. /\ pc'[c] = "process" /\ copy_mbuf'[c] = b /\ copy_mbuf[c] = None
      /\ ~ IsLast(c) /\ ~ IsLast(c)'
  <2>1. pc'[c] = "process" /\ copy_mbuf'[c] = b
    BY <1>1, <1>2, <1>3 DEF LoopTyped
  <2>2. copy_mbuf[c] = None /\ ~ IsLast(c)
    BY <1>2, <1>3 DEF InLoop
  <2>3. ~ IsLast(c)'
    BY <1>2, <2>2 DEF IsLast, Outs, In
  <2> QED BY <2>1, <2>2, <2>3
<1>7. InLoop(c)'
  <2>1. Outs(c)' = Outs(c)
    BY <1>2 DEF Outs, In
  <2>2. dest_cnt[c] \in 1 .. Len(Outs(c)) /\ k[c] \in 1 .. Len(pkts_burst[c])
    BY <1>2, <1>3 DEF InLoop
  <2> QED BY <1>2, <1>4, <1>6, <2>1, <2>2 DEF InLoop
<1>8. \A d \in Core : d # c => Rests(d)
  BY <1>1, <1>2, <1>3 DEF LoopTyped, Rests
<1>9. InLoopInv'
  BY <1>3, <1>5, <1>7, <1>8, RestsKeep DEF InLoopInv
<1>10. Live(c)' = Live(c)
  BY <1>2, <1>6 DEF Live
<1>11. k[c] \in Live(c)
  BY <1>2, <1>3, Current
<1>12. Mbuf(c)' = copy_mbuf'[c]
  BY <1>6 DEF Mbuf
<1> QED BY <1>1, <1>2, <1>6, <1>8, <1>9, <1>10, <1>11, <1>12

(* process_packet moves no buffer.                                         *)
LEMMA ProcessSteps ==
    ASSUME InLoopInv, NEW c \in Core, Process(c)
    PROVE  /\ InLoopInv' /\ \A d \in Core : d # c => Rests(d)
           /\ Live(c)' = Live(c) /\ pkts_burst' = pkts_burst
           /\ pc[c] = "process" /\ pc'[c] = "transmit"
           /\ Mbuf(c)' = Mbuf(c) /\ Dest(c)' = Dest(c) /\ (IsLast(c)' <=> IsLast(c)) /\ k'[c] = k[c]
           /\ UNCHANGED <<nic, copy_mbuf>>
<1>1. /\ pc[c] = "process" /\ pc' = [pc EXCEPT ![c] = "transmit"]
      /\ UNCHANGED <<nic, copy_mbuf>> /\ UNCHANGED <<port_cnt, dest_cnt, k, pkts_burst>>
  BY DEF Process, Goto, loop
<1>2. LoopTyped /\ (\A d \in Core : InLoop(d))
  BY DEF InLoopInv
<1>3. LoopTyped'
  BY <1>1, <1>2 DEF LoopTyped, Labels
<1>4. /\ pc'[c] = "transmit" /\ Outs(c)' = Outs(c) /\ (IsLast(c)' <=> IsLast(c))
      /\ Dest(c)' = Dest(c)
  <2>1. pc'[c] = "transmit"
    BY <1>1, <1>2 DEF LoopTyped
  <2>2. Outs(c)' = Outs(c)
    BY <1>1 DEF Outs, In
  <2> QED BY <1>1, <2>1, <2>2 DEF IsLast, Dest
<1>5. InLoop(c)'
  BY <1>1, <1>2, <1>4 DEF InLoop
<1>6. \A d \in Core : d # c => Rests(d)
  BY <1>1, <1>2 DEF LoopTyped, Rests
<1>7. InLoopInv'
  BY <1>2, <1>3, <1>5, <1>6, RestsKeep DEF InLoopInv
<1>8. Live(c)' = Live(c) /\ Mbuf(c)' = Mbuf(c)
  BY <1>1, <1>4 DEF Live, Mbuf
<1> QED BY <1>1, <1>4, <1>6, <1>7, <1>8

-----------------------------------------------------------------------------
(* Ownership: every step moves buffers from one holder to another.         *)

(* In the beginning every buffer is in its pool and every core polls its   *)
(* first port.                                                             *)
LEMMA InitOwn == Init => OwnInv
<1> SUFFICES ASSUME Init PROVE OwnInv
  OBVIOUS
<1>1. \A S : << >> \in Seq(S)
  BY EmptySeq
<1>2. LoopTyped
  <2>1. 1 \in DOMAIN InPort
    BY ForwarderAssumption, EmptySeq, LenProperties
  <2> QED BY <1>1, <2>1 DEF Init, LoopTyped, Labels
<1>3. \A c \in Core : InLoop(c)
  BY DEF Init, InLoop
<1>4. NicTyped
  <2>1. rx \in Queues(Seq(Buffer)) /\ tx \in Queues(Seq(Buffer)) /\ done \in Queues(SUBSET Buffer)
    BY <1>1 DEF Init, Queues
  <2>2. free \in [Pool -> SUBSET Buffer]
    BY DEF Init, Pool, Buffer
  <2> QED BY <2>1, <2>2 DEF NicTyped
<1>5. /\ \A c \in Core : Live(c) = {} /\ \A b : ~ Listed(c, b)
      /\ \A p \in Port, c \in Core : /\ Once(rx[p][c]) /\ Once(tx[p][c])
                                     /\ \A b : ~ On(rx[p][c], b) /\ ~ On(tx[p][c], b)
  <2>1. \A c \in Core : Live(c) = {}
    BY DEF Init, Live
  <2>2. \A p \in Port, c \in Core : rx[p][c] = << >> /\ tx[p][c] = << >>
    BY DEF Init
  <2> QED BY <2>1, <2>2 DEF Listed, On, Once
<1>6. OneHolder
  <2>1. ASSUME NEW b \in Buffer PROVE \E h \in Holder : IsAt(b, h)
    <3> DEFINE pool == Home(b)
    <3>1. pool \in Pool /\ \A x \in Pool : b \in free[x] <=> x = pool
      <4>1. CASE b \in Buf
        BY <4>1, ForwarderAssumption DEF Init, Home, Pool
      <4>2. CASE b \notin Buf
        BY <2>1, <4>2 DEF Init, Home, Pool, Buffer
      <4> QED BY <4>1, <4>2
    <3>2. b # None
      BY <2>1, ForwarderAssumption
    <3>3. \A c \in Core : copy_mbuf[c] # b
      BY <3>2 DEF Init
    <3>4. \A p \in Port, c \in Core : b \notin done[p][c]
      BY DEF Init
    <3> HIDE DEF pool
    <3>5. IsAt(b, FreeIn(pool))
      BY <1>5, <3>1, <3>3, <3>4, Distinct, SMTT(60) DEF IsAt
    <3> QED BY <3>1, <3>5, Holders
  <2> QED BY <2>1 DEF OneHolder
<1>7. NoRepeats
  BY <1>5 DEF NoRepeats
<1> QED BY <1>2, <1>3, <1>4, <1>6, <1>7 DEF OwnInv, InLoopInv

(* What every core has while none of them moves.                           *)
LEMMA AllRest ==
    ASSUME UNCHANGED <<pc, loop, copy_mbuf>>
    PROVE  /\ InLoopInv => InLoopInv'
           /\ \A c \in Core : Rests(c) /\ Live(c)' = Live(c) /\ \A b : Listed(c, b)' <=> Listed(c, b)
<1>1. UNCHANGED <<port_cnt, dest_cnt, k, pkts_burst>>
  BY DEF loop
<1>2. \A c \in Core : Rests(c)
  BY <1>1 DEF Rests
<1>3. InLoopInv => InLoopInv'
  BY <1>1, <1>2, RestsKeep DEF InLoopInv, LoopTyped
<1> QED BY <1>2, <1>3, RestsKeep

(* NicReceive moves a buffer from a pool to a receive queue.               *)
LEMMA NicReceiveOwn ==
    ASSUME OwnInv, NicReceive
    PROVE  OwnInv'
<1>1. PICK x \in Packet, b \in free["pktmbuf_pool"] :
         /\ free' = [free EXCEPT !["pktmbuf_pool"] = @ \ {b}]
         /\ rx' = [rx EXCEPT ![Arrival[x].port][Arrival[x].core] = Append(@, b)]
         /\ UNCHANGED <<tx, done, pc, loop, copy_mbuf>>
  BY Zenon DEF NicReceive
<1>2. PICK p, c : p = Arrival[x].port /\ c = Arrival[x].core
  OBVIOUS
<1>3. p \in Port /\ c \in Core
  <2>1. Arrival[x] \in [port : Input, core : Core, bytes : Bytes]
    BY ForwarderAssumption
  <2> QED BY <1>2, <2>1, InputIsPort
<1>4. InLoopInv /\ NicTyped /\ OneHolder /\ NoRepeats
  BY DEF OwnInv
<1>5. "pktmbuf_pool" \in Pool /\ b \in Buffer
  <2>1. "pktmbuf_pool" \in Pool
    BY DEF Pool
  <2> QED BY <1>4, <2>1 DEF NicTyped
<1>6. IsAt(b, FreeIn("pktmbuf_pool"))
  <2>1. PICK h \in Holder : IsAt(b, h)
    BY <1>4, <1>5 DEF OneHolder
  <2>2. h = FreeIn("pktmbuf_pool")
    BY <1>5, <2>1 DEF IsAt
  <2> QED BY <2>1, <2>2
<1>7. rx[p][c] \in Seq(Buffer) /\ Once(rx[p][c]) /\ ~ On(rx[p][c], b)
  <2>1. ~ On(rx[p][c], b)
    BY <1>3, <1>6, Distinct DEF IsAt
  <2> QED BY <1>3, <1>4, <2>1 DEF NicTyped, Queues, NoRepeats
<1>8. /\ rx'[p][c] \in Seq(Buffer) /\ Once(rx'[p][c])
      /\ \A y : On(rx'[p][c], y) <=> On(rx[p][c], y) \/ y = b
  <2>1. rx'[p][c] = Append(rx[p][c], b)
    BY <1>1, <1>2, <1>3, <1>4, Zenon DEF NicTyped, Queues
  <2>2. /\ Append(rx[p][c], b) \in Seq(Buffer) /\ Once(Append(rx[p][c], b))
        /\ \A y : On(Append(rx[p][c], b), y) <=> On(rx[p][c], y) \/ y = b
    BY <1>5, <1>7, AppendOn
  <2> QED BY <2>1, <2>2
<1>9. \A q \in Port, d \in Core : ~ (q = p /\ d = c) => rx'[q][d] = rx[q][d]
  BY <1>1, <1>2, <1>4 DEF NicTyped, Queues
<1>10. \A pool \in Pool : \A y : y # b => (y \in free'[pool] <=> y \in free[pool])
  BY <1>1, <1>4 DEF NicTyped
<1>11. \A pool \in Pool : b \notin free'[pool]
  <2>1. \A pool \in Pool : b \in free[pool] => pool = "pktmbuf_pool"
    BY <1>6, Distinct DEF IsAt
  <2> QED BY <1>1, <1>4, <2>1 DEF NicTyped
<1>12. InLoopInv' /\ \A d \in Core : Live(d)' = Live(d) /\ \A y : Listed(d, y)' <=> Listed(d, y)
  BY <1>1, <1>4, AllRest
<1>13. NicTyped'
  <2>1. rx' \in Queues(Seq(Buffer))
    BY <1>1, <1>2, <1>3, <1>4, <1>8, Zenon DEF NicTyped, Queues
  <2>2. free' \in [Pool -> SUBSET Buffer]
    BY <1>1, <1>4, Zenon DEF NicTyped
  <2> QED BY <1>1, <1>4, <2>1, <2>2 DEF NicTyped
<1>14. OneHolder'
  <2>1. ASSUME NEW y \in Buffer, y # b PROVE \E h \in Holder : IsAt(y, h)'
    <3>1. PICK h \in Holder : IsAt(y, h)
      BY <1>4 DEF OneHolder
    <3>2. \A q \in Port, d \in Core : On(rx'[q][d], y) <=> On(rx[q][d], y)
      BY <1>8, <1>9, <2>1
    <3>3. IsAt(y, h)'
      BY <1>1, <1>10, <1>12, <2>1, <3>1, <3>2 DEF IsAt
    <3> QED BY <3>3
  <2>2. IsAt(b, Waiting(p, c))'
    <3>1. \A q \in Port, d \in Core : On(rx'[q][d], b) <=> q = p /\ d = c
      BY <1>6, <1>8, <1>9, Distinct DEF IsAt
    <3> QED BY <1>1, <1>6, <1>11, <1>12, <3>1, Distinct, SMTT(60) DEF IsAt
  <2>3. Waiting(p, c) \in Holder
    BY <1>3, Holders
  <2> QED BY <2>1, <2>2, <2>3 DEF OneHolder
<1>15. NoRepeats'
  <2>1. \A q \in Port, d \in Core : Once(rx'[q][d]) /\ Once(tx'[q][d])
    BY <1>1, <1>4, <1>8, <1>9, Zenon DEF NoRepeats
  <2>2. \A d \in Core : \A y, z \in Live(d)' : pkts_burst'[d][y] = pkts_burst'[d][z] => y = z
    BY <1>1, <1>4, <1>12 DEF NoRepeats, loop
  <2> QED BY <2>1, <2>2 DEF NoRepeats
<1> QED BY <1>12, <1>13, <1>14, <1>15 DEF OwnInv

(* NicSend moves the head of a transmit queue to the buffers it has sent.  *)
LEMMA NicSendOwn ==
    ASSUME OwnInv, NEW p \in Port, NEW c \in Core, NicSend(p, c)
    PROVE  OwnInv'
<1>0. PICK b : b = Head(tx[p][c])
  OBVIOUS
<1>1. /\ tx[p][c] # << >>
      /\ done' = [done EXCEPT ![p][c] = @ \cup {b}]
      /\ tx' = [tx EXCEPT ![p][c] = Tail(@)]
      /\ UNCHANGED <<rx, free, pc, loop, copy_mbuf>>
  BY <1>0 DEF NicSend
<1>2. InLoopInv /\ NicTyped /\ OneHolder /\ NoRepeats
  BY DEF OwnInv
<1>3. tx[p][c] \in Seq(Buffer) /\ Once(tx[p][c])
  BY <1>2 DEF NicTyped, Queues, NoRepeats
<1>4. b \in Buffer /\ On(tx[p][c], b) /\ Tail(tx[p][c]) \in Seq(Buffer) /\ Once(Tail(tx[p][c]))
      /\ \A y : On(Tail(tx[p][c]), y) <=> On(tx[p][c], y) /\ y # b
  BY <1>0, <1>1, <1>3, TailOn
<1>5. tx'[p][c] = Tail(tx[p][c]) /\ done'[p][c] = done[p][c] \cup {b}
  BY <1>1, <1>2 DEF NicTyped, Queues
<1>6. \A q \in Port, d \in Core : ~ (q = p /\ d = c) => tx'[q][d] = tx[q][d] /\ done'[q][d] = done[q][d]
  BY <1>1, <1>2 DEF NicTyped, Queues
<1>7. IsAt(b, InRing(p, c))
  <2>1. PICK h \in Holder : IsAt(b, h)
    BY <1>2, <1>4 DEF OneHolder
  <2>2. h = InRing(p, c)
    BY <1>4, <2>1 DEF IsAt
  <2> QED BY <2>1, <2>2
<1>8. InLoopInv' /\ \A d \in Core : Live(d)' = Live(d) /\ \A y : Listed(d, y)' <=> Listed(d, y)
  BY <1>1, <1>2, AllRest
<1>9. NicTyped'
  <2>1. tx' \in Queues(Seq(Buffer))
    BY <1>1, <1>2, <1>4 DEF NicTyped, Queues
  <2>2. done' \in Queues(SUBSET Buffer)
    BY <1>1, <1>2, <1>4 DEF NicTyped, Queues
  <2> QED BY <1>1, <1>2, <2>1, <2>2 DEF NicTyped
<1>10. OneHolder'
  <2>1. ASSUME NEW y \in Buffer, y # b PROVE \E h \in Holder : IsAt(y, h)'
    <3>1. PICK h \in Holder : IsAt(y, h)
      BY <1>2 DEF OneHolder
    <3>2. \A q \in Port, d \in Core : /\ On(tx'[q][d], y) <=> On(tx[q][d], y)
                                      /\ y \in done'[q][d] <=> y \in done[q][d]
      BY <1>4, <1>5, <1>6, <2>1
    <3>3. IsAt(y, h)'
      BY <1>1, <1>8, <3>1, <3>2 DEF IsAt
    <3> QED BY <3>3
  <2>2. IsAt(b, SentBy(p, c))'
    <3>1. \A q \in Port, d \in Core : ~ On(tx'[q][d], b)
      BY <1>4, <1>5, <1>6, <1>7, Distinct DEF IsAt
    <3>2. \A q \in Port, d \in Core : b \in done'[q][d] <=> q = p /\ d = c
      <4>1. \A q \in Port, d \in Core : b \notin done[q][d]
        BY <1>7, Distinct DEF IsAt
      <4> QED BY <1>5, <1>6, <4>1
    <3>3. /\ \A pool \in Pool : b \notin free'[pool]
          /\ \A d \in Core : copy_mbuf'[d] # b /\ ~ Listed(d, b)'
          /\ \A q \in Port, d \in Core : ~ On(rx'[q][d], b)
      BY <1>1, <1>7, <1>8, Distinct DEF IsAt
    <3> QED BY <3>1, <3>2, <3>3, Distinct DEF IsAt
  <2>3. SentBy(p, c) \in Holder
    BY Holders
  <2> QED BY <2>1, <2>2, <2>3 DEF OneHolder
<1>11. NoRepeats'
  <2>1. \A q \in Port, d \in Core : Once(rx'[q][d]) /\ Once(tx'[q][d])
    BY <1>1, <1>2, <1>4, <1>5, <1>6 DEF NoRepeats
  <2>2. \A d \in Core : \A y, z \in Live(d)' : pkts_burst'[d][y] = pkts_burst'[d][z] => y = z
    BY <1>1, <1>2, <1>8 DEF NoRepeats, loop
  <2> QED BY <2>1, <2>2 DEF NoRepeats
<1> QED BY <1>8, <1>9, <1>10, <1>11 DEF OwnInv

(* RxBurst moves the first buffers of a receive queue into the burst.      *)
LEMMA RxBurstOwn ==
    ASSUME OwnInv, NEW c \in Core, RxBurst(c)
    PROVE  OwnInv'
<1> DEFINE p == In(c)
           t == SubSeq(Polled(c), 1, Taken(c))
           r == SubSeq(Polled(c), Taken(c) + 1, Len(Polled(c)))
<1>1. InLoopInv /\ NicTyped /\ OneHolder /\ NoRepeats
  BY DEF OwnInv
<1>2. /\ InLoopInv' /\ \A d \in Core : d # c => Rests(d)
      /\ p \in Port /\ Polled(c) \in Seq(Buffer) /\ Taken(c) \in 1 .. Len(Polled(c))
      /\ rx' = [rx EXCEPT ![p][c] = r]
      /\ pkts_burst'[c] = t
      /\ Live(c) = {} /\ Live(c)' = DOMAIN pkts_burst'[c]
      /\ UNCHANGED <<tx, done, free, copy_mbuf>>
  BY <1>1, RxBurstSteps
<1>3. Polled(c) = rx[p][c] /\ Once(Polled(c))
  BY <1>1, <1>2 DEF Polled, NoRepeats
<1>4. /\ r \in Seq(Buffer) /\ Once(t) /\ Once(r)
      /\ \A b : On(Polled(c), b) <=> On(t, b) \/ On(r, b)
      /\ \A b : ~ (On(t, b) /\ On(r, b))
  BY <1>2, <1>3, BurstOn
<1> HIDE DEF p, t, r
<1>5. /\ rx'[p][c] = r
      /\ \A q \in Port, d \in Core : ~ (q = p /\ d = c) => rx'[q][d] = rx[q][d]
  BY <1>1, <1>2 DEF NicTyped, Queues
<1>6. /\ \A y : ~ Listed(c, y)
      /\ \A y : Listed(c, y)' <=> On(t, y)
      /\ \A d \in Core : \A y : d # c => (Listed(d, y)' <=> Listed(d, y))
  <2>1. \A y : ~ Listed(c, y)
    BY <1>2 DEF Listed
  <2>2. \A y : Listed(c, y)' <=> On(t, y)
    BY <1>2 DEF Listed, On
  <2>3. \A d \in Core : \A y : d # c => (Listed(d, y)' <=> Listed(d, y))
    BY <1>2, RestsKeep
  <2> QED BY <2>1, <2>2, <2>3
<1>7. NicTyped'
  <2>1. rx' \in Queues(Seq(Buffer))
    BY <1>1, <1>2, <1>4 DEF NicTyped, Queues
  <2> QED BY <1>1, <1>2, <2>1 DEF NicTyped
<1>8. ASSUME NEW y \in Buffer PROVE \E h \in Holder : IsAt(y, h)'
  <2>1. PICK h \in Holder : IsAt(y, h)
    BY <1>1 DEF OneHolder
  <2>2. CASE ~ On(t, y)
    <3>1. \A q \in Port, d \in Core : On(rx'[q][d], y) <=> On(rx[q][d], y)
      BY <1>3, <1>4, <1>5, <2>2
    <3>2. \A d \in Core : Listed(d, y)' <=> Listed(d, y)
      BY <1>6, <2>2
    <3>3. IsAt(y, h)'
      BY <1>2, <2>1, <3>1, <3>2 DEF IsAt
    <3> QED BY <3>3
  <2>3. CASE On(t, y)
    <3>1. h = Waiting(p, c)
      BY <1>2, <1>3, <1>4, <2>1, <2>3 DEF IsAt
    <3>2. \A q \in Port, d \in Core : ~ On(rx'[q][d], y)
      BY <1>4, <1>5, <2>1, <2>3, <3>1, Distinct DEF IsAt
    <3>3. \A d \in Core : Listed(d, y)' <=> d = c
      BY <1>6, <2>1, <2>3, <3>1, Distinct DEF IsAt
    <3>4. IsAt(y, Bursting(c))'
      BY <1>2, <2>1, <3>1, <3>2, <3>3, Distinct DEF IsAt
    <3> QED BY <3>4, Holders
  <2> QED BY <2>2, <2>3
<1>9. NoRepeats'
  <2>1. \A q \in Port, d \in Core : Once(rx'[q][d]) /\ Once(tx'[q][d])
    BY <1>1, <1>2, <1>4, <1>5 DEF NoRepeats
  <2>2. \A y, z \in Live(c)' : pkts_burst'[c][y] = pkts_burst'[c][z] => y = z
    BY <1>2, <1>4 DEF Once
  <2>3. \A d \in Core : d # c => Live(d)' = Live(d) /\ pkts_burst'[d] = pkts_burst[d]
    BY <1>2, RestsKeep DEF Rests
  <2>4. \A d \in Core : \A y, z \in Live(d)' : pkts_burst'[d][y] = pkts_burst'[d][z] => y = z
    BY <1>1, <2>2, <2>3 DEF NoRepeats
  <2> QED BY <2>1, <2>4 DEF NoRepeats
<1> QED BY <1>2, <1>7, <1>8, <1>9 DEF OwnInv, OneHolder

(* Copy moves a buffer from pktmbuf_pool2 to copy_mbuf.                    *)
LEMMA CopyOwn ==
    ASSUME OwnInv, NEW c \in Core, Copy(c)
    PROVE  OwnInv'
<1>1. InLoopInv /\ NicTyped /\ OneHolder /\ NoRepeats
  BY DEF OwnInv
<1>2. /\ InLoopInv' /\ \A d \in Core : d # c => Rests(d)
      /\ Live(c)' = Live(c) /\ pkts_burst' = pkts_burst
      /\ UNCHANGED <<rx, tx, done>> /\ copy_mbuf[c] = None
  BY <1>1, CopySteps
<1>3. PICK b \in free["pktmbuf_pool2"] :
         /\ free' = [free EXCEPT !["pktmbuf_pool2"] = @ \ {b}]
         /\ copy_mbuf' = [copy_mbuf EXCEPT ![c] = b]
  BY DEF Copy
<1>4. "pktmbuf_pool2" \in Pool /\ b \in Buffer
  <2>1. "pktmbuf_pool2" \in Pool
    BY DEF Pool
  <2> QED BY <1>1, <2>1 DEF NicTyped
<1>5. IsAt(b, FreeIn("pktmbuf_pool2"))
  <2>1. PICK h \in Holder : IsAt(b, h)
    BY <1>1, <1>4 DEF OneHolder
  <2>2. h = FreeIn("pktmbuf_pool2")
    BY <1>4, <2>1 DEF IsAt
  <2> QED BY <2>1, <2>2
<1>6. \A d \in Core : Live(d)' = Live(d) /\ \A y : Listed(d, y)' <=> Listed(d, y)
  <2>1. \A y : Listed(c, y)' <=> Listed(c, y)
    BY <1>2 DEF Listed
  <2> QED BY <1>2, <2>1, RestsKeep
<1>7. copy_mbuf'[c] = b /\ \A d \in Core : d # c => copy_mbuf'[d] = copy_mbuf[d]
  BY <1>1, <1>3 DEF InLoopInv, LoopTyped
<1>8. \A pool \in Pool : \A y : y # b => (y \in free'[pool] <=> y \in free[pool])
  BY <1>1, <1>3 DEF NicTyped
<1>9. \A pool \in Pool : b \notin free'[pool]
  <2>1. \A pool \in Pool : b \in free[pool] => pool = "pktmbuf_pool2"
    BY <1>5, Distinct DEF IsAt
  <2> QED BY <1>1, <1>3, <2>1 DEF NicTyped
<1>10. NicTyped'
  BY <1>1, <1>2, <1>3 DEF NicTyped
<1>11. OneHolder'
  <2>1. ASSUME NEW y \in Buffer, y # b PROVE \E h \in Holder : IsAt(y, h)'
    <3>1. PICK h \in Holder : IsAt(y, h)
      BY <1>1 DEF OneHolder
    <3>2. \A d \in Core : copy_mbuf'[d] = y <=> copy_mbuf[d] = y
      <4>1. y # None
        BY <2>1, ForwarderAssumption
      <4> QED BY <1>2, <1>7, <2>1, <4>1
    <3>3. IsAt(y, h)'
      BY <1>2, <1>6, <1>8, <2>1, <3>1, <3>2 DEF IsAt
    <3> QED BY <3>3
  <2>2. IsAt(b, Copying(c))'
    <3>1. \A d \in Core : copy_mbuf'[d] = b <=> d = c
      BY <1>5, <1>7, Distinct DEF IsAt
    <3> QED BY <1>2, <1>5, <1>6, <1>9, <3>1, Distinct DEF IsAt
  <2> QED BY <2>1, <2>2, Holders DEF OneHolder
<1>12. NoRepeats'
  BY <1>1, <1>2, <1>6 DEF NoRepeats
<1> QED BY <1>2, <1>10, <1>11, <1>12 DEF OwnInv

(* A freed buffer comes to one pool, with the offload or without it.       *)
LEMMA FreedFacts ==
    ASSUME NicTyped, NEW B \in SUBSET Buffer, NEW f \in Freed(B)
    PROVE  /\ f \in [Pool -> SUBSET Buffer]
           /\ \A pool \in Pool : \A y : y \notin B => (y \in f[pool] <=> y \in free[pool])
           /\ \A y \in B : (\A pool \in Pool : y \notin free[pool]) =>
                  \E x \in Pool : \A pool \in Pool : y \in f[pool] <=> pool = x
<1>1. free \in [Pool -> SUBSET Buffer]
  BY DEF NicTyped
<1>2. CASE FastFree
  <2>1. PICK b \in B : f = [free EXCEPT ![Home(b)] = @ \cup B]
    BY <1>2 DEF Freed
  <2>2. Home(b) \in Pool
    BY DEF Home, Pool
  <2> QED BY <1>1, <2>1, <2>2
<1>3. CASE ~ FastFree
  <2>1. f = [pool \in Pool |-> free[pool] \cup {b \in B : Home(b) = pool}]
    BY <1>3 DEF Freed
  <2>2. \A y : Home(y) \in Pool
    BY DEF Home, Pool
  <2> QED BY <1>1, <2>1, <2>2
<1> QED BY <1>2, <1>3

(* TxBurst hands b to the ring of a port, and may free what was sent there.*)
LEMMA TxBurstFacts ==
    ASSUME NicTyped, NEW p \in Port, NEW c \in Core, NEW b \in Buffer, TxBurst(p, c, b),
           ~ On(tx[p][c], b), Once(tx[p][c])
    PROVE  /\ tx' \in Queues(Seq(Buffer)) /\ done' \in Queues(SUBSET Buffer)
           /\ free' \in [Pool -> SUBSET Buffer]
           /\ Once(tx'[p][c]) /\ \A y : On(tx'[p][c], y) <=> On(tx[p][c], y) \/ y = b
           /\ \A q \in Port, d \in Core : ~ (q = p /\ d = c) =>
                  tx'[q][d] = tx[q][d] /\ done'[q][d] = done[q][d]
           /\ \/ UNCHANGED <<done, free, mem>>
              \/ /\ free' \in Freed(done[p][c]) /\ done'[p][c] = {}
                 /\ mem' = [y \in Buffer |-> IF y \in done[p][c] THEN None ELSE mem[y]]
<1>1. tx \in Queues(Seq(Buffer)) /\ done \in Queues(SUBSET Buffer) /\ free \in [Pool -> SUBSET Buffer]
  BY DEF NicTyped
<1>2. tx[p][c] \in Seq(Buffer) /\ done[p][c] \in SUBSET Buffer
  BY <1>1 DEF Queues
<1>3. tx' = [tx EXCEPT ![p][c] = Append(@, b)]
  BY DEF TxBurst
<1>4. tx'[p][c] = Append(tx[p][c], b)
  BY <1>1, <1>3 DEF Queues
<1>5. /\ Append(tx[p][c], b) \in Seq(Buffer) /\ Once(Append(tx[p][c], b))
      /\ \A y : On(Append(tx[p][c], b), y) <=> On(tx[p][c], y) \/ y = b
  BY <1>2, AppendOn
<1>6. /\ tx' \in Queues(Seq(Buffer))
      /\ \A q \in Port, d \in Core : ~ (q = p /\ d = c) => tx'[q][d] = tx[q][d]
  BY <1>1, <1>3, <1>5 DEF Queues
<1>7. CASE UNCHANGED <<done, free, mem>>
  BY <1>1, <1>4, <1>5, <1>6, <1>7
<1>8. CASE /\ free' \in Freed(done[p][c]) /\ done' = [done EXCEPT ![p][c] = {}]
           /\ mem' = [y \in Buffer |-> IF y \in done[p][c] THEN None ELSE mem[y]]
  <2>1. /\ done' \in Queues(SUBSET Buffer) /\ done'[p][c] = {}
        /\ \A q \in Port, d \in Core : ~ (q = p /\ d = c) => done'[q][d] = done[q][d]
    BY <1>1, <1>8 DEF Queues
  <2>2. free' \in [Pool -> SUBSET Buffer]
    BY <1>2, <1>8, FreedFacts
  <2> QED BY <1>4, <1>5, <1>6, <1>8, <2>1, <2>2
<1> QED BY <1>7, <1>8 DEF TxBurst

(* Before Transmit the core's own buffer is in its burst or is its copy,   *)
(* and afterwards in neither; every other buffer stays where it was.       *)
LEMMA TransmitLoop ==
    ASSUME OwnInv, NEW c \in Core, Transmit(c), NEW b, b = Mbuf(c)
    PROVE  /\ b \in Buffer /\ (IsAt(b, Bursting(c)) \/ IsAt(b, Copying(c)))
           /\ \A d \in Core : copy_mbuf'[d] # b /\ ~ Listed(d, b)'
           /\ \A d \in Core : \A y \in Buffer : y # b =>
                  (copy_mbuf'[d] = y <=> copy_mbuf[d] = y) /\ (Listed(d, y)' <=> Listed(d, y))
           /\ \A d \in Core : Live(d)' \subseteq Live(d) /\ \A x \in Live(d)' : pkts_burst'[d][x] = pkts_burst[d][x]
<1>1. InLoopInv /\ NicTyped /\ OneHolder /\ NoRepeats
  BY DEF OwnInv
<1>2. /\ LoopTyped /\ (\A d \in Core : InLoop(d))
      /\ pc[c] = "transmit" /\ NextPacket(c) /\ copy_mbuf' = [copy_mbuf EXCEPT ![c] = None]
  BY <1>1 DEF Transmit, InLoopInv
<1>3. /\ \A d \in Core : d # c => Rests(d)
      /\ copy_mbuf'[c] = None
      /\ Live(c)' = IF IsLast(c) THEN Live(c) \ {k[c]} ELSE Live(c)
      /\ \A x \in Live(c)' : pkts_burst'[c][x] = pkts_burst[c][x]
  BY <1>1, <1>2, NextPacketSteps
<1>4. k[c] \in Live(c) /\ b \in Buffer /\ b # None
  BY <1>2, Current, ForwarderAssumption
<1>5. copy_mbuf[c] # None <=> ~ IsLast(c)
  BY <1>2 DEF InLoop
<1>6. \A d \in Core : d # c => /\ copy_mbuf'[d] = copy_mbuf[d] /\ Live(d)' = Live(d)
                               /\ pkts_burst'[d] = pkts_burst[d]
                               /\ \A y : Listed(d, y)' <=> Listed(d, y)
  BY <1>3, RestsKeep DEF Rests
<1>7. PICK h \in Holder : IsAt(b, h)
  BY <1>1, <1>4 DEF OneHolder
<1>8. IF IsLast(c) THEN Listed(c, b) /\ h = Bursting(c) ELSE copy_mbuf[c] = b /\ h = Copying(c)
  <2>1. CASE IsLast(c)
    <3>1. Listed(c, b)
      BY <1>4, <2>1 DEF Mbuf, Listed
    <3> QED BY <1>7, <2>1, <3>1 DEF IsAt
  <2>2. CASE ~ IsLast(c)
    <3>1. copy_mbuf[c] = b
      BY <2>2 DEF Mbuf
    <3> QED BY <1>7, <2>2, <3>1 DEF IsAt
  <2> QED BY <2>1, <2>2
<1>9. \A y : Listed(c, y)' <=> Listed(c, y) /\ ~ (IsLast(c) /\ y = b)
  <2>1. CASE IsLast(c)
    <3>1. b = pkts_burst[c][k[c]]
      BY <2>1 DEF Mbuf
    <3>2. \A x \in Live(c) : pkts_burst[c][x] = b => x = k[c]
      BY <1>1, <1>4, <3>1 DEF NoRepeats
    <3> QED BY <1>3, <2>1, <3>1, <3>2 DEF Listed
  <2>2. CASE ~ IsLast(c)
    BY <1>3, <2>2 DEF Listed
  <2> QED BY <2>1, <2>2
<1>10. \A d \in Core : copy_mbuf'[d] # b /\ ~ Listed(d, b)'
  <2>1. ASSUME NEW d \in Core, d # c PROVE copy_mbuf'[d] # b /\ ~ Listed(d, b)'
    <3>1. copy_mbuf[d] # b /\ ~ Listed(d, b)
      <4>1. h = Bursting(c) \/ h = Copying(c)
        BY <1>8
      <4> QED BY <1>7, <2>1, <4>1, Distinct DEF IsAt
    <3> QED BY <1>6, <2>1, <3>1
  <2>2. ~ Listed(c, b)'
    <3>1. CASE IsLast(c)
      BY <1>9, <3>1
    <3>2. CASE ~ IsLast(c)
      <4>1. ~ Listed(c, b)
        BY <1>7, <1>8, <3>2, Distinct DEF IsAt
      <4> QED BY <1>9, <4>1
    <3> QED BY <3>1, <3>2
  <2> QED BY <1>3, <1>4, <2>1, <2>2
<1>11. ASSUME NEW d \in Core, NEW y \in Buffer, y # b
       PROVE  (copy_mbuf'[d] = y <=> copy_mbuf[d] = y) /\ (Listed(d, y)' <=> Listed(d, y))
  <2>1. y # None
    BY ForwarderAssumption
  <2>2. CASE d = c
    <3>1. copy_mbuf[c] # y
      BY <1>5, <1>8, <1>11, <2>1
    <3> QED BY <1>3, <1>9, <1>11, <2>1, <2>2, <3>1
  <2>3. CASE d # c
    BY <1>6, <2>3
  <2> QED BY <2>2, <2>3
<1>12. \A d \in Core : /\ Live(d)' \subseteq Live(d)
                       /\ \A x \in Live(d)' : pkts_burst'[d][x] = pkts_burst[d][x]
  BY <1>3, <1>6
<1>13. IsAt(b, Bursting(c)) \/ IsAt(b, Copying(c))
  BY <1>7, <1>8
<1> QED BY <1>4, <1>10, <1>11, <1>12, <1>13

(* Transmit moves the core's buffer to the transmit queue of the port it   *)
(* is for, and buffers sent there back to the pools.                       *)
LEMMA TransmitOwn ==
    ASSUME OwnInv, NEW c \in Core, Transmit(c)
    PROVE  OwnInv'
<1>0. PICK b, p : b = Mbuf(c) /\ p = Dest(c)
  OBVIOUS
<1>1. InLoopInv /\ NicTyped /\ OneHolder /\ NoRepeats
  BY DEF OwnInv
<1>2. /\ pc[c] = "transmit" /\ NextPacket(c) /\ copy_mbuf' = [copy_mbuf EXCEPT ![c] = None]
      /\ TxBurst(p, c, b) /\ rx' = rx
  BY <1>0 DEF Transmit
<1>3. /\ b \in Buffer /\ (IsAt(b, Bursting(c)) \/ IsAt(b, Copying(c)))
      /\ \A d \in Core : copy_mbuf'[d] # b /\ ~ Listed(d, b)'
      /\ \A d \in Core : \A y \in Buffer : y # b =>
             (copy_mbuf'[d] = y <=> copy_mbuf[d] = y) /\ (Listed(d, y)' <=> Listed(d, y))
      /\ \A d \in Core : Live(d)' \subseteq Live(d) /\ \A x \in Live(d)' : pkts_burst'[d][x] = pkts_burst[d][x]
  BY <1>0, TransmitLoop
<1>4. InLoopInv'
  BY <1>1, <1>2, NextPacketSteps
<1>5. p \in Port
  BY <1>0, <1>1, <1>2, Current DEF InLoopInv
<1>6. /\ \A pool \in Pool : b \notin free[pool]
      /\ \A q \in Port, d \in Core : ~ On(rx[q][d], b) /\ ~ On(tx[q][d], b) /\ b \notin done[q][d]
  <2>1. CASE IsAt(b, Bursting(c))
    BY <2>1, Distinct DEF IsAt
  <2>2. CASE IsAt(b, Copying(c))
    BY <2>2, Distinct DEF IsAt
  <2> QED BY <1>3, <2>1, <2>2
<1>7. Once(tx[p][c]) /\ done[p][c] \in SUBSET Buffer
  BY <1>1, <1>5 DEF NoRepeats, NicTyped, Queues
<1>8. /\ tx' \in Queues(Seq(Buffer)) /\ done' \in Queues(SUBSET Buffer)
      /\ free' \in [Pool -> SUBSET Buffer]
      /\ Once(tx'[p][c]) /\ \A y : On(tx'[p][c], y) <=> On(tx[p][c], y) \/ y = b
      /\ \A q \in Port, d \in Core : ~ (q = p /\ d = c) =>
             tx'[q][d] = tx[q][d] /\ done'[q][d] = done[q][d]
      /\ \/ UNCHANGED <<done, free, mem>>
         \/ free' \in Freed(done[p][c]) /\ done'[p][c] = {}
  BY <1>1, <1>2, <1>3, <1>5, <1>6, <1>7, TxBurstFacts, ZenonT(60)
<1>9. NicTyped'
  BY <1>1, <1>2, <1>8 DEF NicTyped
<1>10. IsAt(b, InRing(p, c))'
  <2>1. \A q \in Port, d \in Core : On(tx'[q][d], b) <=> q = p /\ d = c
    BY <1>6, <1>8
  <2>2. /\ \A pool \in Pool : b \notin free'[pool]
        /\ \A q \in Port, d \in Core : b \notin done'[q][d]
    <3>1. CASE UNCHANGED <<done, free, mem>>
      BY <1>6, <3>1
    <3>2. CASE free' \in Freed(done[p][c]) /\ done'[p][c] = {}
      <4>1. b \notin done[p][c]
        BY <1>5, <1>6
      <4>2. \A pool \in Pool : b \notin free'[pool]
        BY <1>1, <1>6, <1>7, <3>2, <4>1, FreedFacts
      <4> QED BY <1>6, <1>8, <3>2, <4>2
    <3> QED BY <1>8, <3>1, <3>2
  <2>3. \A q \in Port, d \in Core : ~ On(rx'[q][d], b)
    BY <1>2, <1>6
  <2> QED BY <1>3, <2>1, <2>2, <2>3, Distinct DEF IsAt
<1>11. ASSUME NEW y \in Buffer, y # b PROVE \E h \in Holder : IsAt(y, h)'
  <2>1. PICK h \in Holder : IsAt(y, h)
    BY <1>1 DEF OneHolder
  <2>2. \A q \in Port, d \in Core : On(tx'[q][d], y) <=> On(tx[q][d], y)
    BY <1>8, <1>11
  <2>3. CASE UNCHANGED <<done, free, mem>> \/ y \notin done[p][c]
    <3>1. \A q \in Port, d \in Core : y \in done'[q][d] <=> y \in done[q][d]
      BY <1>8, <2>3
    <3>2. \A pool \in Pool : y \in free'[pool] <=> y \in free[pool]
      <4>1. CASE UNCHANGED <<done, free, mem>>
        BY <4>1
      <4>2. CASE y \notin done[p][c] /\ free' \in Freed(done[p][c])
        BY <1>1, <1>7, <4>2, FreedFacts
      <4> QED BY <1>8, <2>3, <4>1, <4>2
    <3>3. IsAt(y, h)'
      BY <1>2, <1>3, <1>11, <2>1, <2>2, <3>1, <3>2 DEF IsAt
    <3> QED BY <3>3
  <2>4. CASE y \in done[p][c] /\ free' \in Freed(done[p][c]) /\ done'[p][c] = {}
    <3>1. h = SentBy(p, c)
      BY <1>5, <2>1, <2>4 DEF IsAt
    <3>2. /\ \A pool \in Pool : y \notin free[pool]
          /\ \A d \in Core : copy_mbuf[d] # y /\ ~ Listed(d, y)
          /\ \A q \in Port, d \in Core : ~ On(rx[q][d], y) /\ ~ On(tx[q][d], y)
      BY <2>1, <3>1, Distinct DEF IsAt
    <3>3. \A q \in Port, d \in Core : y \in done[q][d] <=> q = p /\ d = c
      BY <2>1, <3>1, Distinct DEF IsAt
    <3>4. \A q \in Port, d \in Core : y \notin done'[q][d]
      BY <1>8, <2>4, <3>3
    <3>5. PICK x \in Pool : \A pool \in Pool : y \in free'[pool] <=> pool = x
      BY <1>1, <1>7, <2>4, <3>2, FreedFacts
    <3>6. IsAt(y, FreeIn(x))'
      BY <1>2, <1>3, <1>11, <2>2, <3>2, <3>4, <3>5, Distinct DEF IsAt
    <3> QED BY <3>6, Holders
  <2> QED BY <1>8, <2>3, <2>4
<1>12. OneHolder'
  BY <1>5, <1>10, <1>11, Holders DEF OneHolder
<1>13. NoRepeats'
  <2>1. \A q \in Port, d \in Core : Once(rx'[q][d]) /\ Once(tx'[q][d])
    BY <1>1, <1>2, <1>8 DEF NoRepeats
  <2>2. \A d \in Core : \A y, z \in Live(d)' : pkts_burst'[d][y] = pkts_burst'[d][z] => y = z
    BY <1>1, <1>3 DEF NoRepeats
  <2> QED BY <2>1, <2>2 DEF NoRepeats
<1> QED BY <1>4, <1>9, <1>12, <1>13 DEF OwnInv

(* A step that moves no buffer.                                            *)
LEMMA NothingMoves ==
    ASSUME OwnInv, InLoopInv', UNCHANGED <<rx, tx, done, free, copy_mbuf>>,
           \A d \in Core : Live(d)' = Live(d) /\ \A x \in Live(d) : pkts_burst'[d][x] = pkts_burst[d][x]
    PROVE  OwnInv'
<1>1. NicTyped /\ OneHolder /\ NoRepeats
  BY DEF OwnInv
<1>2. \A d \in Core : \A y : Listed(d, y)' <=> Listed(d, y)
  BY DEF Listed
<1>3. NicTyped'
  BY <1>1 DEF NicTyped
<1>4. OneHolder'
  <2>1. \A y \in Buffer, h \in Holder : IsAt(y, h) => IsAt(y, h)'
    BY <1>2 DEF IsAt
  <2> QED BY <1>1, <2>1 DEF OneHolder
<1>5. NoRepeats'
  BY <1>1 DEF NoRepeats
<1> QED BY <1>3, <1>4, <1>5 DEF OwnInv

(* Every step keeps the buffers in order.                                  *)
LEMMA NextOwn ==
    ASSUME OwnInv, [Next]_vars
    PROVE  OwnInv'
<1>1. InLoopInv
  BY DEF OwnInv
<1>2. CASE NicReceive
  BY <1>2, NicReceiveOwn
<1>3. ASSUME NEW p \in Port, NEW c \in Core, NicSend(p, c) PROVE OwnInv'
  BY <1>3, NicSendOwn
<1>4. ASSUME NEW c \in Core, RxBurstEmpty(c) PROVE OwnInv'
  <2>1. /\ InLoopInv' /\ \A d \in Core : d # c => Rests(d)
        /\ Live(c) = {} /\ Live(c)' = {}
        /\ UNCHANGED <<rx, tx, done, free, copy_mbuf>>
    BY <1>1, <1>4, RxBurstEmptySteps DEF nic
  <2>2. \A d \in Core : Live(d)' = Live(d) /\ \A x \in Live(d) : pkts_burst'[d][x] = pkts_burst[d][x]
    BY <2>1, RestsKeep DEF Rests
  <2> QED BY <2>1, <2>2, NothingMoves
<1>5. ASSUME NEW c \in Core, Process(c) PROVE OwnInv'
  <2>1. /\ InLoopInv' /\ \A d \in Core : d # c => Rests(d)
        /\ Live(c)' = Live(c) /\ pkts_burst' = pkts_burst
        /\ UNCHANGED <<rx, tx, done, free, copy_mbuf>>
    BY <1>1, <1>5, ProcessSteps DEF nic
  <2>2. \A d \in Core : Live(d)' = Live(d) /\ \A x \in Live(d) : pkts_burst'[d][x] = pkts_burst[d][x]
    BY <2>1, RestsKeep
  <2> QED BY <2>1, <2>2, NothingMoves
<1>6. ASSUME NEW c \in Core, MainLoop(c) PROVE OwnInv'
  BY <1>4, <1>5, <1>6, RxBurstOwn, CopyOwn, TransmitOwn DEF MainLoop
<1>7. CASE FlowExpires \/ UNCHANGED vars
  <2>1. UNCHANGED <<pc, loop, copy_mbuf, rx, tx, done, free>>
    BY <1>7 DEF FlowExpires, vars, nic
  <2>2. InLoopInv' /\ \A d \in Core : Live(d)' = Live(d)
    BY <1>1, <2>1, AllRest
  <2> QED BY <2>1, <2>2, NothingMoves DEF loop
<1> QED BY <1>2, <1>3, <1>6, <1>7 DEF Next

(* The places of a buffer, holder by holder.                               *)
FreePlaces(b)     == {<<pool>> : pool \in {x \in Pool : b \in free[x]}}
CopyPlaces(b)     == {<<"copy_mbuf", c>> : c \in {x \in Core : copy_mbuf[x] = b}}
BurstPlaces(b, c) ==
    {<<"pkts_burst", c, j>> :
        j \in {x \in DOMAIN pkts_burst[c] : pkts_burst[c][x] = b /\ ~ (IsLast(c) /\ x < k[c])}}
QueuePlaces(b, p, c) ==
    {<<"rx", p, c, j>> : j \in {x \in DOMAIN rx[p][c] : rx[p][c][x] = b}}
    \cup {<<"tx", p, c, j>> : j \in {x \in DOMAIN tx[p][c] : tx[p][c][x] = b}}
    \cup {<<"done", p, c>> : j \in {x \in {b} : x \in done[p][c]}}

(* A buffer has a place for each holder that holds it.                     *)
LEMMA PlacesAre ==
    ASSUME NEW b, NEW pl
    PROVE  pl \in Places(b) <=>
              \/ \E pool \in Pool : b \in free[pool] /\ pl = <<pool>>
              \/ \E c \in Core : copy_mbuf[c] = b /\ pl = <<"copy_mbuf", c>>
              \/ \E c \in Core : \E j \in Live(c) : pkts_burst[c][j] = b /\ pl = <<"pkts_burst", c, j>>
              \/ \E p \in Port, c \in Core : \E j \in DOMAIN rx[p][c] :
                    rx[p][c][j] = b /\ pl = <<"rx", p, c, j>>
              \/ \E p \in Port, c \in Core : \E j \in DOMAIN tx[p][c] :
                    tx[p][c][j] = b /\ pl = <<"tx", p, c, j>>
              \/ \E p \in Port, c \in Core : b \in done[p][c] /\ pl = <<"done", p, c>>
<1>1. Places(b) = FreePlaces(b) \cup CopyPlaces(b) \cup (UNION {BurstPlaces(b, c) : c \in Core})
                    \cup (UNION {QueuePlaces(b, p, c) : p \in Port, c \in Core})
  BY DEF Places, FreePlaces, CopyPlaces, BurstPlaces, QueuePlaces
<1>2. pl \in Places(b) <=> \/ pl \in FreePlaces(b) \/ pl \in CopyPlaces(b)
                           \/ \E c \in Core : pl \in BurstPlaces(b, c)
                           \/ \E p \in Port, c \in Core : pl \in QueuePlaces(b, p, c)
  BY <1>1
<1>3. pl \in FreePlaces(b) <=> \E pool \in Pool : b \in free[pool] /\ pl = <<pool>>
  BY DEF FreePlaces
<1>4. pl \in CopyPlaces(b) <=> \E c \in Core : copy_mbuf[c] = b /\ pl = <<"copy_mbuf", c>>
  BY DEF CopyPlaces
<1>5. \A c : pl \in BurstPlaces(b, c) <=>
              \E j \in Live(c) : pkts_burst[c][j] = b /\ pl = <<"pkts_burst", c, j>>
  BY DEF BurstPlaces, Live
<1>6. \A p, c : pl \in QueuePlaces(b, p, c) <=>
              \/ \E j \in DOMAIN rx[p][c] : rx[p][c][j] = b /\ pl = <<"rx", p, c, j>>
              \/ \E j \in DOMAIN tx[p][c] : tx[p][c][j] = b /\ pl = <<"tx", p, c, j>>
              \/ b \in done[p][c] /\ pl = <<"done", p, c>>
  BY DEF QueuePlaces
<1> QED BY <1>2, <1>3, <1>4, <1>5, <1>6

(* A set with one element.                                                 *)
LEMMA Single ==
    ASSUME NEW S, NEW e, \A x : x \in S <=> x = e
    PROVE  \E x : S = {x}
<1>1. S = {e}
  OBVIOUS
<1> QED BY <1>1

(* A buffer that one holder has, and has once, is in one place.            *)
LEMMA OwnOnePlace == OwnInv => EveryBufferInOnePlace
<1> SUFFICES ASSUME OwnInv, NEW b \in Buffer PROVE \E pl : Places(b) = {pl}
  <2>1. \A pl : Cardinality({pl}) = 1
    BY FS_Singleton
  <2> QED BY <2>1 DEF EveryBufferInOnePlace
<1>1. NoRepeats /\ OneHolder
  BY DEF OwnInv
<1>2. PICK h \in Holder : IsAt(b, h)
  BY <1>1 DEF OneHolder
<1>3. ASSUME NEW pool \in Pool, h = FreeIn(pool) PROVE \E pl : Places(b) = {pl}
  <2>1. /\ \A x \in Pool : b \in free[x] <=> x = pool
        /\ \A c \in Core : copy_mbuf[c] # b /\ ~ Listed(c, b)
        /\ \A p \in Port, c \in Core : ~ On(rx[p][c], b) /\ ~ On(tx[p][c], b) /\ b \notin done[p][c]
    BY <1>2, <1>3, Distinct DEF IsAt
  <2>2. PICK e : e = <<pool>>
    OBVIOUS
  <2>3. \A pl : pl \in Places(b) <=> pl = e
    BY <2>2, <2>1, PlacesAre DEF Listed, On
  <2>4. Places(b) = {e}
    BY <2>3
  <2> QED BY <2>4
<1>4. ASSUME NEW c \in Core, h = Copying(c) PROVE \E pl : Places(b) = {pl}
  <2>1. /\ \A x \in Pool : b \notin free[x]
        /\ \A d \in Core : (copy_mbuf[d] = b <=> d = c) /\ ~ Listed(d, b)
        /\ \A p \in Port, d \in Core : ~ On(rx[p][d], b) /\ ~ On(tx[p][d], b) /\ b \notin done[p][d]
    BY <1>2, <1>4, Distinct DEF IsAt
  <2>2. PICK e : e = <<"copy_mbuf", c>>
    OBVIOUS
  <2>3. \A pl : pl \in Places(b) <=> pl = e
    BY <2>2, <2>1, PlacesAre DEF Listed, On
  <2> QED BY <2>3, Single
<1>5. ASSUME NEW c \in Core, h = Bursting(c) PROVE \E pl : Places(b) = {pl}
  <2>1. /\ \A x \in Pool : b \notin free[x]
        /\ \A d \in Core : copy_mbuf[d] # b /\ (Listed(d, b) <=> d = c)
        /\ \A p \in Port, d \in Core : ~ On(rx[p][d], b) /\ ~ On(tx[p][d], b) /\ b \notin done[p][d]
    BY <1>2, <1>5, Distinct DEF IsAt
  <2>2. PICK x \in Live(c) : pkts_burst[c][x] = b
    BY <2>1 DEF Listed
  <2>3. \A y \in Live(c) : pkts_burst[c][y] = b => y = x
    BY <1>1, <2>2 DEF NoRepeats
  <2>4. PICK e : e = <<"pkts_burst", c, x>>
    OBVIOUS
  <2>5. \A pl : pl \in Places(b) <=> pl = e
    BY <2>4, <2>1, <2>2, <2>3, PlacesAre DEF Listed, On
  <2> QED BY <2>5, Single
<1>6. ASSUME NEW p \in Port, NEW c \in Core, h = Waiting(p, c) PROVE \E pl : Places(b) = {pl}
  <2>1. /\ \A x \in Pool : b \notin free[x]
        /\ \A d \in Core : copy_mbuf[d] # b /\ ~ Listed(d, b)
        /\ \A q \in Port, d \in Core : ~ On(tx[q][d], b) /\ b \notin done[q][d]
        /\ \A q \in Port, d \in Core : On(rx[q][d], b) <=> q = p /\ d = c
    BY <1>2, <1>6, Distinct DEF IsAt
  <2>2. PICK x \in DOMAIN rx[p][c] : rx[p][c][x] = b
    BY <2>1 DEF On
  <2>3. \A y \in DOMAIN rx[p][c] : rx[p][c][y] = b => y = x
    BY <1>1, <2>2 DEF NoRepeats, Once
  <2>4. PICK e : e = <<"rx", p, c, x>>
    OBVIOUS
  <2>5. \A pl : pl \in Places(b) <=> pl = e
    BY <2>4, <2>1, <2>2, <2>3, PlacesAre DEF Listed, On
  <2> QED BY <2>5, Single
<1>7. ASSUME NEW p \in Port, NEW c \in Core, h = InRing(p, c) PROVE \E pl : Places(b) = {pl}
  <2>1. /\ \A x \in Pool : b \notin free[x]
        /\ \A d \in Core : copy_mbuf[d] # b /\ ~ Listed(d, b)
        /\ \A q \in Port, d \in Core : ~ On(rx[q][d], b) /\ b \notin done[q][d]
        /\ \A q \in Port, d \in Core : On(tx[q][d], b) <=> q = p /\ d = c
    BY <1>2, <1>7, Distinct DEF IsAt
  <2>2. PICK x \in DOMAIN tx[p][c] : tx[p][c][x] = b
    BY <2>1 DEF On
  <2>3. \A y \in DOMAIN tx[p][c] : tx[p][c][y] = b => y = x
    BY <1>1, <2>2 DEF NoRepeats, Once
  <2>4. PICK e : e = <<"tx", p, c, x>>
    OBVIOUS
  <2>5. \A pl : pl \in Places(b) <=> pl = e
    BY <2>4, <2>1, <2>2, <2>3, PlacesAre DEF Listed, On
  <2> QED BY <2>5, Single
<1>8. ASSUME NEW p \in Port, NEW c \in Core, h = SentBy(p, c) PROVE \E pl : Places(b) = {pl}
  <2>1. /\ \A x \in Pool : b \notin free[x]
        /\ \A d \in Core : copy_mbuf[d] # b /\ ~ Listed(d, b)
        /\ \A q \in Port, d \in Core : ~ On(rx[q][d], b) /\ ~ On(tx[q][d], b)
        /\ \A q \in Port, d \in Core : b \in done[q][d] <=> q = p /\ d = c
    BY <1>2, <1>8, Distinct DEF IsAt
  <2>2. PICK e : e = <<"done", p, c>>
    OBVIOUS
  <2>3. \A pl : pl \in Places(b) <=> pl = e
    BY <2>2, <2>1, PlacesAre DEF Listed, On
  <2> QED BY <2>3, Single
<1>9. \/ \E pool \in Pool : h = FreeIn(pool)
      \/ \E c \in Core : h = Copying(c) \/ h = Bursting(c)
      \/ \E p \in Port, c \in Core : h = Waiting(p, c) \/ h = InRing(p, c) \/ h = SentBy(p, c)
  BY <1>2 DEF Holder, Waiting, InRing, SentBy
<1> QED BY <1>3, <1>4, <1>5, <1>6, <1>7, <1>8, <1>9

-----------------------------------------------------------------------------
(* What is in the buffers.                                                 *)

Entry == [pkt : Packet, bytes : Bytes]

(* The packet is as it came.                                               *)
Fresh(e) == e \in Entry /\ e.bytes = Arrival[e.pkt].bytes

(* The packet was made for port p, from what came.                         *)
Made(p, e) == e \in Entry /\ e.bytes \in Outcomes(AtPort(e.pkt, p))

(* Core c's burst is as it came, but for the buffer that it has rewritten  *)
(* and is about to transmit.                                               *)
AtHand(c) ==
    /\ \A b \in Buffer : Listed(c, b) => Fresh(mem[b]) \/ (pc[c] = "transmit" /\ b = Mbuf(c))
    /\ pc[c] = "process" => Fresh(mem[Mbuf(c)])
    /\ pc[c] = "transmit" => Made(Dest(c), mem[Mbuf(c)])

ContentsInv ==
    /\ mem \in [Buffer -> Entry \cup {None}]
    /\ \A p \in Port, c \in Core : \A b \in Buffer :
          (On(rx[p][c], b) => Fresh(mem[b])) /\ (On(tx[p][c], b) => Made(p, mem[b]))
    /\ \A c \in Core : AtHand(c)

(* Hiding and blanking touch neither the addresses nor the name.           *)
LEMMA OutcomeFacts ==
    ASSUME NEW m \in Bytes, NEW mm \in Outcomes(m)
    PROVE  /\ mm \in Bytes /\ mm.src = m.src /\ mm.dst = m.dst /\ mm.name = m.name
           /\ mm.proto = m.proto /\ mm.ether = m.ether /\ mm.app = m.app /\ mm.found = m.found
<1>1. PICK x \in {m, Randomized(m)} : mm \in {x, Hidden(x), RemovePayload(x)}
  BY DEF Outcomes
<1> DEFINE Like(y) == /\ y \in Bytes /\ y.src = m.src /\ y.dst = m.dst /\ y.name = m.name
                      /\ y.proto = m.proto /\ y.ether = m.ether /\ y.app = m.app /\ y.found = m.found
<1>2. Like(m)
  OBVIOUS
<1>3. Like(Randomized(m))
  BY ONLY m \in Bytes DEF Randomized, Bytes
<1>4. Like(x)
  BY ONLY <1>1, <1>2, <1>3
<1>5. Like(Hidden(x))
  BY ONLY <1>4 DEF Hidden, Bytes
<1>6. Like(RemovePayload(x))
  BY ONLY <1>4 DEF RemovePayload, Bytes
<1> HIDE DEF Like
<1>7. Like(mm)
  BY ONLY <1>1, <1>4, <1>5, <1>6
<1> QED BY <1>7 DEF Like

(* process_packet makes a packet of a packet, and encrypts each address at *)
(* most once.                                                              *)
LEMMA ProcessPacketFacts ==
    ASSUME NEW m \in Bytes, NEW s \in OutSetting
    PROVE  /\ ProcessPacket(m, s) \in Bytes
           /\ m.src.under = << >> => ProcessPacket(m, s).src \in Shown
           /\ m.dst.under = << >> => ProcessPacket(m, s).dst \in Shown
<1>1. s.anon_ip_key \in Key
  BY DEF OutSetting
<1>2. ASSUME NEW a \in Address
      PROVE  AnonIp(a, s) \in Address /\ (a.under = << >> => AnonIp(a, s) \in Shown /\ a \in Shown)
  <2>1. a.host \in Host /\ a.under \in Seq(Key) /\ a = [host |-> a.host, under |-> a.under]
    BY <1>2 DEF Address
  <2>2. Append(a.under, s.anon_ip_key) \in Seq(Key)
    BY <1>1, <2>1, AppendProperties
  <2>3. AnonIp(a, s) \in {a, [host |-> a.host, under |-> Append(a.under, s.anon_ip_key)]}
    BY <2>1 DEF AnonIp
  <2>4. AnonIp(a, s) \in Address
    BY <2>1, <2>2, <2>3 DEF Address
  <2>5. ASSUME a.under = << >> PROVE AnonIp(a, s) \in Shown /\ a \in Shown
    <3>1. Append(a.under, s.anon_ip_key) = <<s.anon_ip_key>>
      BY <2>5
    <3>2. a \in Shown
      BY <2>1, <2>5 DEF Shown
    <3>3. [host |-> a.host, under |-> Append(a.under, s.anon_ip_key)] \in Shown
      BY <1>1, <2>1, <3>1 DEF Shown
    <3> QED BY <2>3, <3>2, <3>3
  <2> QED BY <2>4, <2>5
<1> DEFINE m1 == ProcessPacketEth(m, s)
           m2 == ProcessPacketIp(m1, s)
<1>3. m1 \in Bytes /\ m1.src = m.src /\ m1.dst = m.dst
  BY DEF ProcessPacketEth, Bytes
<1>4. m.src \in Address /\ m.dst \in Address
  BY DEF Bytes
<1> HIDE DEF m1
<1>5. /\ m2 \in Bytes
      /\ m.src.under = << >> => m2.src \in Shown
      /\ m.dst.under = << >> => m2.dst \in Shown
  <2>1. CASE Encrypts(m1, s)
    <3>1. m2 = [m1 EXCEPT !.src = AnonIp(m1.src, s), !.dst = AnonIp(m1.dst, s)]
      BY <2>1 DEF ProcessPacketIp
    <3>2. m2 \in Bytes
      <4>1. AnonIp(m1.src, s) \in Address /\ AnonIp(m1.dst, s) \in Address
        BY ONLY <1>2, <1>3, <1>4, Zenon
      <4> QED BY ONLY <1>3, <3>1, <4>1, ZenonT(60) DEF Bytes
    <3>3. m2.src = AnonIp(m.src, s) /\ m2.dst = AnonIp(m.dst, s)
      BY <1>3, <3>1 DEF Bytes
    <3> QED BY <1>2, <1>4, <3>2, <3>3
  <2>2. CASE ~ Encrypts(m1, s)
    <3>1. m2 = m1
      BY <2>2 DEF ProcessPacketIp
    <3> QED BY <1>2, <1>3, <1>4, <3>1
  <2> QED BY <2>1, <2>2
<1> HIDE DEF m2
<1>6. L4PayloadRemover(m2, s) \in Outcomes(m2)
  BY DEF L4PayloadRemover, Outcomes
<1>7. ProcessPacket(m, s) = L4PayloadRemover(m2, s)
  BY DEF ProcessPacket, m1, m2
<1> QED BY <1>5, <1>6, <1>7, OutcomeFacts

(* A fresh packet, rewritten for a port, is one made for that port.        *)
LEMMA Rewritten ==
    ASSUME NEW p \in Port, NEW e, Fresh(e),
           NEW mm \in Outcomes(ProcessPacket(e.bytes, out_interface[p])),
           NEW f, f = [e EXCEPT !.bytes = mm]
    PROVE  /\ Made(p, f) /\ f.bytes = mm
           /\ ProcessPacket(e.bytes, out_interface[p]) \in Bytes
           /\ ProcessPacket(e.bytes, out_interface[p]).src \in Shown
           /\ ProcessPacket(e.bytes, out_interface[p]).dst \in Shown
<1>1. e \in Entry /\ e.bytes = Arrival[e.pkt].bytes /\ e.bytes \in Bytes /\ e.pkt \in Packet
  BY DEF Fresh, Entry
<1>2. out_interface[p] \in OutSetting
  BY ForwarderAssumption
<1>3. e.bytes.src.under = << >> /\ e.bytes.dst.under = << >>
  BY <1>1, ForwarderAssumption
<1>4. /\ ProcessPacket(e.bytes, out_interface[p]) \in Bytes
      /\ ProcessPacket(e.bytes, out_interface[p]).src \in Shown
      /\ ProcessPacket(e.bytes, out_interface[p]).dst \in Shown
  BY <1>1, <1>2, <1>3, ProcessPacketFacts
<1>5. mm \in Bytes
  BY <1>4, OutcomeFacts
<1>6. f \in Entry /\ f.bytes = mm /\ f.pkt = e.pkt
  BY <1>1, <1>5 DEF Entry
<1> QED BY <1>1, <1>4, <1>6 DEF Made, AtPort

(* What a core is about to rewrite or to transmit is in its burst, or is   *)
(* its copy.                                                               *)
LEMMA MbufHeld ==
    ASSUME InLoopInv, NEW c \in Core, pc[c] \in {"process", "transmit"}
    PROVE  /\ Mbuf(c) \in Buffer /\ Dest(c) \in Port
           /\ IF IsLast(c) THEN Listed(c, Mbuf(c)) ELSE copy_mbuf[c] = Mbuf(c)
<1>1. LoopTyped /\ InLoop(c)
  BY DEF InLoopInv
<1>2. Mbuf(c) \in Buffer /\ Dest(c) \in Port /\ k[c] \in Live(c)
  BY <1>1, Current
<1> QED BY <1>2 DEF Mbuf, Listed

(* No core and no queue has a buffer that is free, or that the NIC has     *)
(* sent.                                                                   *)
Idle(b) ==
    /\ \A p \in Port, c \in Core : ~ On(rx[p][c], b) /\ ~ On(tx[p][c], b)
    /\ \A c \in Core : ~ Listed(c, b) /\ copy_mbuf[c] # b
    /\ \A c \in Core : pc[c] \in {"process", "transmit"} => Mbuf(c) # b

(* Ownership makes them idle: they are in a pool, or the NIC's, and so     *)
(* nowhere else.                                                           *)
LEMMA IdleBuffers ==
    ASSUME OwnInv, NEW b \in Buffer,
           \/ \E pool \in Pool : b \in free[pool]
           \/ \E p \in Port, c \in Core : b \in done[p][c]
    PROVE  Idle(b)
<1>1. InLoopInv /\ OneHolder
  BY DEF OwnInv
<1>2. PICK h \in Holder : IsAt(b, h)
  BY <1>1 DEF OneHolder
<1>3. /\ \A p \in Port, c \in Core : ~ On(rx[p][c], b) /\ ~ On(tx[p][c], b)
      /\ \A c \in Core : ~ Listed(c, b) /\ copy_mbuf[c] # b
  <2>1. ASSUME NEW pool \in Pool, b \in free[pool]
        PROVE  /\ \A p \in Port, c \in Core : ~ On(rx[p][c], b) /\ ~ On(tx[p][c], b)
               /\ \A c \in Core : ~ Listed(c, b) /\ copy_mbuf[c] # b
    <3>1. h = FreeIn(pool)
      BY <1>2, <2>1 DEF IsAt
    <3> QED BY <1>2, <3>1, Distinct DEF IsAt
  <2>2. ASSUME NEW q \in Port, NEW d \in Core, b \in done[q][d]
        PROVE  /\ \A p \in Port, c \in Core : ~ On(rx[p][c], b) /\ ~ On(tx[p][c], b)
               /\ \A c \in Core : ~ Listed(c, b) /\ copy_mbuf[c] # b
    <3>1. h = SentBy(q, d)
      BY <1>2, <2>2 DEF IsAt
    <3> QED BY <1>2, <3>1, Distinct DEF IsAt
  <2> QED BY <2>1, <2>2
<1>4. \A c \in Core : pc[c] \in {"process", "transmit"} => Mbuf(c) # b
  BY <1>1, <1>3, MbufHeld
<1> QED BY <1>3, <1>4 DEF Idle

(* In the beginning no queue and no burst holds a buffer.                  *)
LEMMA InitContents == Init => ContentsInv
<1> SUFFICES ASSUME Init PROVE ContentsInv
  OBVIOUS
<1>1. mem \in [Buffer -> Entry \cup {None}]
  BY DEF Init
<1>2. \A p \in Port, c \in Core : rx[p][c] = << >> /\ tx[p][c] = << >>
  BY DEF Init
<1>3. \A c \in Core : pkts_burst[c] = << >> /\ pc[c] = "poll"
  BY DEF Init
<1> QED BY <1>1, <1>2, <1>3 DEF ContentsInv, AtHand, On, Listed, Live

(* A packet arrives in an idle buffer, as it came.                         *)
LEMMA NicReceiveContents ==
    ASSUME OwnInv, ContentsInv, NicReceive
    PROVE  ContentsInv'
<1>1. PICK x \in Packet, b \in free["pktmbuf_pool"] :
         /\ mem' = [mem EXCEPT ![b] = [pkt |-> x, bytes |-> Arrival[x].bytes]]
         /\ rx' = [rx EXCEPT ![Arrival[x].port][Arrival[x].core] = Append(@, b)]
         /\ UNCHANGED <<tx, pc, loop, copy_mbuf>>
  BY Zenon DEF NicReceive
<1>2. "pktmbuf_pool" \in Pool /\ b \in Buffer
  <2>1. "pktmbuf_pool" \in Pool
    BY DEF Pool
  <2> QED BY <2>1 DEF OwnInv, NicTyped
<1>3. Idle(b)
  BY <1>2, IdleBuffers
<1>4. mem \in [Buffer -> Entry \cup {None}]
  BY DEF ContentsInv, AtHand
<1>5. Arrival[x] \in [port : Input, core : Core, bytes : Bytes]
  BY ForwarderAssumption
<1>6. /\ mem' \in [Buffer -> Entry \cup {None}] /\ Fresh(mem'[b])
      /\ \A y \in Buffer : y # b => mem'[y] = mem[y]
  <2>1. [pkt |-> x, bytes |-> Arrival[x].bytes] \in Entry
    BY <1>5 DEF Entry
  <2> QED BY <1>1, <1>2, <1>4, <2>1 DEF Fresh
<1>7. \A p \in Port, c \in Core : \A y : On(rx'[p][c], y) => On(rx[p][c], y) \/ y = b
  <2>1. rx \in Queues(Seq(Buffer))
    BY DEF OwnInv, NicTyped
  <2>2. TAKE p \in Port, c \in Core
  <2> TAKE y
  <2>3. CASE p = Arrival[x].port /\ c = Arrival[x].core
    <3>1. rx'[p][c] = Append(rx[p][c], b) /\ rx[p][c] \in Seq(Buffer)
      BY <1>1, <2>1, <2>3, Zenon DEF Queues
    <3>2. On(Append(rx[p][c], b), y) <=> On(rx[p][c], y) \/ y = b
      BY <1>2, <3>1, AppendOn
    <3> QED BY <3>1, <3>2
  <2>4. CASE ~ (p = Arrival[x].port /\ c = Arrival[x].core)
    BY <1>1, <2>1, <2>4, Zenon DEF Queues
  <2> QED BY <2>3, <2>4
<1>8. \A c \in Core : /\ \A y : Listed(c, y)' <=> Listed(c, y)
                      /\ Dest(c)' = Dest(c) /\ Mbuf(c)' = Mbuf(c) /\ pc'[c] = pc[c]
  BY <1>1, AllRest, RestsKeep
<1>9. \A p \in Port, c \in Core : \A y \in Buffer :
         (On(rx'[p][c], y) => Fresh(mem'[y])) /\ (On(tx'[p][c], y) => Made(p, mem'[y]))
  <2>1. ASSUME NEW p \in Port, NEW c \in Core, NEW y \in Buffer, On(rx'[p][c], y) PROVE Fresh(mem'[y])
    <3>1. CASE y = b
      BY <1>6, <3>1
    <3>2. CASE y # b
      BY <1>6, <1>7, <2>1, <3>2 DEF ContentsInv, AtHand
    <3> QED BY <3>1, <3>2
  <2>2. ASSUME NEW p \in Port, NEW c \in Core, NEW y \in Buffer, On(tx'[p][c], y) PROVE Made(p, mem'[y])
    <3>1. On(tx[p][c], y) /\ y # b
      BY <1>1, <1>3, <2>2 DEF Idle
    <3> QED BY <1>6, <3>1 DEF ContentsInv, AtHand
  <2> QED BY <2>1, <2>2
<1>10. \A c \in Core : \A y \in Buffer :
          Listed(c, y)' => Fresh(mem'[y]) \/ (pc'[c] = "transmit" /\ y = Mbuf(c)')
  BY <1>3, <1>6, <1>8 DEF ContentsInv, AtHand, Idle
<1>11. ASSUME NEW c \in Core, pc[c] \in {"process", "transmit"} PROVE mem'[Mbuf(c)] = mem[Mbuf(c)]
  <2>1. Mbuf(c) \in Buffer
    BY <1>11, MbufHeld DEF OwnInv
  <2> QED BY <1>3, <1>6, <1>11, <2>1 DEF Idle
<1>12. \A c \in Core : /\ pc'[c] = "process" => Fresh(mem'[Mbuf(c)'])
                       /\ pc'[c] = "transmit" => Made(Dest(c)', mem'[Mbuf(c)'])
  BY <1>8, <1>11 DEF ContentsInv, AtHand
<1> QED BY <1>6, <1>9, <1>10, <1>12 DEF ContentsInv, AtHand

(* What the NIC sends is changed by nobody.                                *)
LEMMA NicSendContents ==
    ASSUME OwnInv, ContentsInv, NEW p \in Port, NEW c \in Core, NicSend(p, c)
    PROVE  ContentsInv'
<1>1. /\ tx[p][c] # << >>
      /\ tx' = [tx EXCEPT ![p][c] = Tail(@)]
      /\ UNCHANGED <<rx, mem, pc, loop, copy_mbuf>>
  BY DEF NicSend
<1>2. tx \in Queues(Seq(Buffer)) /\ tx[p][c] \in Seq(Buffer) /\ Once(tx[p][c])
  BY DEF OwnInv, NicTyped, NoRepeats, Queues
<1>3. \A q \in Port, d \in Core : \A y : On(tx'[q][d], y) => On(tx[q][d], y)
  <2>1. \A y : On(Tail(tx[p][c]), y) => On(tx[p][c], y)
    BY <1>1, <1>2, TailOn
  <2> QED BY <1>1, <1>2, <2>1 DEF Queues
<1>4. \A d \in Core : /\ \A y : Listed(d, y)' <=> Listed(d, y)
                      /\ Dest(d)' = Dest(d) /\ Mbuf(d)' = Mbuf(d) /\ pc'[d] = pc[d]
  BY <1>1, AllRest, RestsKeep
<1>5. \A q \in Port, d \in Core : \A y \in Buffer :
         (On(rx'[q][d], y) => Fresh(mem'[y])) /\ (On(tx'[q][d], y) => Made(q, mem'[y]))
  BY <1>1, <1>3 DEF ContentsInv, AtHand
<1>6. \A d \in Core :
        /\ \A y \in Buffer : Listed(d, y)' => Fresh(mem'[y]) \/ (pc'[d] = "transmit" /\ y = Mbuf(d)')
        /\ pc'[d] = "process" => Fresh(mem'[Mbuf(d)'])
        /\ pc'[d] = "transmit" => Made(Dest(d)', mem'[Mbuf(d)'])
  BY <1>1, <1>4 DEF ContentsInv, AtHand
<1> QED BY <1>1, <1>5, <1>6 DEF ContentsInv, AtHand

(* A core whose buffers stay as they are still has what it had.            *)
LEMMA RestingAtHand ==
    ASSUME OwnInv, ContentsInv, NEW d \in Core, Rests(d),
           \A y \in Buffer : Listed(d, y) \/ (pc[d] \in {"process", "transmit"} /\ y = Mbuf(d))
               => mem'[y] = mem[y]
    PROVE  AtHand(d)'
<1>1. /\ \A y : Listed(d, y)' <=> Listed(d, y)
      /\ Dest(d)' = Dest(d) /\ Mbuf(d)' = Mbuf(d) /\ pc'[d] = pc[d]
  BY RestsKeep DEF Rests
<1>2. \A y \in Buffer : Listed(d, y)' => Fresh(mem'[y]) \/ (pc'[d] = "transmit" /\ y = Mbuf(d)')
  <2>1. ASSUME NEW y \in Buffer, Listed(d, y)
        PROVE  Fresh(mem'[y]) \/ (pc'[d] = "transmit" /\ y = Mbuf(d)')
    <3>1. mem'[y] = mem[y]
      BY <2>1
    <3> QED BY <1>1, <2>1, <3>1 DEF ContentsInv, AtHand
  <2> QED BY <1>1, <2>1
<1>3. ASSUME pc[d] \in {"process", "transmit"} PROVE mem'[Mbuf(d)] = mem[Mbuf(d)]
  BY <1>3, MbufHeld DEF OwnInv
<1>4. pc'[d] = "process" => Fresh(mem'[Mbuf(d)'])
  BY <1>1, <1>3 DEF ContentsInv, AtHand
<1>5. pc'[d] = "transmit" => Made(Dest(d)', mem'[Mbuf(d)'])
  BY <1>1, <1>3 DEF ContentsInv, AtHand
<1> QED BY <1>2, <1>4, <1>5 DEF AtHand

(* What a burst takes from a queue is as it came.                          *)
LEMMA RxBurstContents ==
    ASSUME OwnInv, ContentsInv, NEW c \in Core, RxBurst(c)
    PROVE  ContentsInv'
<1> DEFINE p == In(c)
           t == SubSeq(Polled(c), 1, Taken(c))
           r == SubSeq(Polled(c), Taken(c) + 1, Len(Polled(c)))
<1>1. InLoopInv /\ NicTyped /\ NoRepeats
  BY DEF OwnInv
<1>2. /\ InLoopInv' /\ \A d \in Core : d # c => Rests(d)
      /\ p \in Port /\ Polled(c) \in Seq(Buffer) /\ Taken(c) \in 1 .. Len(Polled(c))
      /\ rx' = [rx EXCEPT ![p][c] = r]
      /\ pkts_burst'[c] = t
      /\ Live(c)' = DOMAIN pkts_burst'[c]
      /\ pc'[c] \in {"copy", "process"}
      /\ UNCHANGED <<tx, mem, copy_mbuf>>
  BY <1>1, RxBurstSteps
<1>3. Polled(c) = rx[p][c] /\ Once(Polled(c))
  BY <1>1, <1>2 DEF Polled, NoRepeats
<1>4. \A b : On(Polled(c), b) <=> On(t, b) \/ On(r, b)
  BY <1>2, <1>3, BurstOn
<1> HIDE DEF p, t, r
<1>5. \A q \in Port, d \in Core : \A y : On(rx'[q][d], y) => On(rx[q][d], y)
  <2>1. rx'[p][c] = r /\ \A q \in Port, d \in Core : ~ (q = p /\ d = c) => rx'[q][d] = rx[q][d]
    BY <1>1, <1>2 DEF NicTyped, Queues
  <2> QED BY <1>3, <1>4, <2>1
<1>6. \A y \in Buffer : Listed(c, y)' => Fresh(mem'[y])
  <2>1. \A y : Listed(c, y)' => On(rx[p][c], y)
    BY <1>2, <1>3, <1>4 DEF Listed, On
  <2> QED BY <1>2, <2>1 DEF ContentsInv, AtHand
<1>7. pc'[c] = "process" => Fresh(mem'[Mbuf(c)'])
  <2>1. copy_mbuf'[c] = None
    <3>1. pc[c] = "poll"
      BY DEF RxBurst
    <3> QED BY <1>1, <1>2, <3>1 DEF InLoopInv, InLoop
  <2>2. pc'[c] = "process" => Mbuf(c)' \in Buffer /\ Listed(c, Mbuf(c))'
    <3>1. ASSUME pc'[c] = "process" PROVE IsLast(c)'
      BY <1>2, <2>1, <3>1 DEF InLoopInv, InLoop
    <3>2. ASSUME pc'[c] = "process" PROVE Mbuf(c)' = pkts_burst'[c][k'[c]]
      BY <3>1, <3>2 DEF Mbuf
    <3>3. LoopTyped' /\ InLoop(c)'
      BY <1>2 DEF InLoopInv
    <3>4. ASSUME pc'[c] = "process" PROVE k'[c] \in DOMAIN pkts_burst'[c] /\ pkts_burst'[c][k'[c]] \in Buffer
      <4>1. pkts_burst'[c] \in Seq(Buffer) /\ k'[c] \in 1 .. Len(pkts_burst'[c])
        BY <3>3, <3>4 DEF LoopTyped, InLoop
      <4> QED BY <4>1, LenProperties, ElementOfSeq
    <3> QED BY <1>2, <3>2, <3>4 DEF Listed
  <2> QED BY <1>6, <2>2
<1>8. AtHand(c)'
  BY <1>2, <1>6, <1>7 DEF AtHand
<1>9. \A d \in Core : d # c => AtHand(d)'
  BY <1>2, RestingAtHand
<1>10. \A q \in Port, d \in Core : \A y \in Buffer :
         (On(rx'[q][d], y) => Fresh(mem'[y])) /\ (On(tx'[q][d], y) => Made(q, mem'[y]))
  BY <1>2, <1>5 DEF ContentsInv, AtHand
<1>11. mem' \in [Buffer -> Entry \cup {None}]
  BY <1>2 DEF ContentsInv, AtHand
<1>12. \A d \in Core : AtHand(d)'
  BY <1>8, <1>9
<1> QED BY <1>10, <1>11, <1>12 DEF ContentsInv, AtHand

(* A copy of a packet as it came is one, in a buffer that was idle.        *)
LEMMA CopyContents ==
    ASSUME OwnInv, ContentsInv, NEW c \in Core, Copy(c)
    PROVE  ContentsInv'
<1>1. InLoopInv /\ NicTyped
  BY DEF OwnInv
<1>2. /\ InLoopInv' /\ \A d \in Core : d # c => Rests(d)
      /\ Live(c)' = Live(c) /\ pkts_burst' = pkts_burst /\ k[c] \in Live(c)
      /\ pc'[c] = "process" /\ Mbuf(c)' = copy_mbuf'[c]
      /\ UNCHANGED <<rx, tx>>
  BY <1>1, CopySteps
<1>3. PICK b \in free["pktmbuf_pool2"] :
         /\ mem' = [mem EXCEPT ![b] = mem[pkts_burst[c][k[c]]]]
         /\ copy_mbuf' = [copy_mbuf EXCEPT ![c] = b]
  BY DEF Copy
<1>4. "pktmbuf_pool2" \in Pool /\ b \in Buffer
  <2>1. "pktmbuf_pool2" \in Pool
    BY DEF Pool
  <2> QED BY <1>1, <2>1 DEF NicTyped
<1>5. Idle(b)
  BY <1>4, IdleBuffers
<1>6. Fresh(mem[pkts_burst[c][k[c]]])
  <2>1. pc[c] = "copy"
    BY DEF Copy
  <2>2. pkts_burst[c][k[c]] \in Buffer
    BY <1>1, <2>1, Current DEF InLoopInv
  <2>3. Listed(c, pkts_burst[c][k[c]])
    BY <1>2 DEF Listed
  <2> QED BY <2>1, <2>2, <2>3 DEF ContentsInv, AtHand
<1>7. mem \in [Buffer -> Entry \cup {None}]
  BY DEF ContentsInv, AtHand
<1>8. mem'[b] = mem[pkts_burst[c][k[c]]] /\ \A y \in Buffer : y # b => mem'[y] = mem[y]
  BY <1>3, <1>4, <1>7
<1>9. mem' \in [Buffer -> Entry \cup {None}]
  BY <1>3, <1>6, <1>7, Zenon DEF Fresh
<1>10. Mbuf(c)' = b
  <2>1. copy_mbuf \in [Core -> Buffer \cup {None}]
    BY <1>1 DEF InLoopInv, LoopTyped
  <2> QED BY <1>2, <1>3, <2>1
<1>11. AtHand(c)'
  <2>1. \A y \in Buffer : Listed(c, y)' => Fresh(mem'[y])
    <3>1. \A y : Listed(c, y)' <=> Listed(c, y)
      BY <1>2 DEF Listed
    <3>2. pc[c] # "transmit"
      BY DEF Copy
    <3> QED BY <1>5, <1>8, <3>1, <3>2 DEF Idle, ContentsInv, AtHand
  <2>2. Fresh(mem'[Mbuf(c)'])
    BY <1>6, <1>8, <1>10
  <2> QED BY <1>2, <2>1, <2>2 DEF AtHand
<1>12. ASSUME NEW d \in Core, d # c PROVE AtHand(d)'
  <2>1. \A y \in Buffer : Listed(d, y) \/ (pc[d] \in {"process", "transmit"} /\ y = Mbuf(d))
               => mem'[y] = mem[y]
    BY <1>5, <1>8 DEF Idle
  <2> QED BY <1>2, <1>12, <2>1, RestingAtHand
<1>13. ASSUME NEW q \in Port, NEW d \in Core, NEW y \in Buffer
       PROVE (On(rx'[q][d], y) => Fresh(mem'[y])) /\ (On(tx'[q][d], y) => Made(q, mem'[y]))
  <2>1. On(rx[q][d], y) \/ On(tx[q][d], y) => mem'[y] = mem[y]
    BY <1>5, <1>8 DEF Idle
  <2>2. On(rx'[q][d], y) => Fresh(mem'[y])
    BY <1>2, <2>1 DEF ContentsInv, AtHand
  <2>3. On(tx'[q][d], y) => Made(q, mem'[y])
    BY <1>2, <2>1 DEF ContentsInv, AtHand
  <2> QED BY <2>2, <2>3
<1>14. \A d \in Core : AtHand(d)'
  BY <1>11, <1>12
<1> QED BY <1>9, <1>13, <1>14 DEF ContentsInv, AtHand

(* The buffer a core is rewriting is in no queue, and no other core has it. *)
LEMMA AtHandOnly ==
    ASSUME OwnInv, NEW c \in Core, pc[c] = "process"
    PROVE  /\ \A q \in Port, d \in Core : ~ On(rx[q][d], Mbuf(c)) /\ ~ On(tx[q][d], Mbuf(c))
           /\ \A d \in Core : d # c => ~ Listed(d, Mbuf(c)) /\ copy_mbuf[d] # Mbuf(c)
<1>1. PICK b : b = Mbuf(c)
  OBVIOUS
<1>2. b \in Buffer /\ (Listed(c, b) \/ copy_mbuf[c] = b)
  BY <1>1, MbufHeld DEF OwnInv
<1>3. PICK h \in Holder : IsAt(b, h)
  BY <1>2 DEF OwnInv, OneHolder
<1>4. h = Bursting(c) \/ h = Copying(c)
  BY <1>2, <1>3 DEF IsAt
<1>5. CASE h = Bursting(c)
  BY <1>1, <1>3, <1>5, Distinct, SMTT(60) DEF IsAt
<1>6. CASE h = Copying(c)
  BY <1>1, <1>3, <1>6, Distinct DEF IsAt
<1> QED BY <1>4, <1>5, <1>6

(* process_packet rewrites one buffer, which no queue and no other core    *)
(* has, into what its port is to get.                                      *)
LEMMA ProcessContents ==
    ASSUME OwnInv, ContentsInv, NEW c \in Core, Process(c)
    PROVE  ContentsInv'
<1>1. InLoopInv /\ OneHolder
  BY DEF OwnInv
<1>2. /\ InLoopInv' /\ \A d \in Core : d # c => Rests(d)
      /\ Live(c)' = Live(c) /\ pkts_burst' = pkts_burst
      /\ pc[c] = "process" /\ pc'[c] = "transmit"
      /\ Mbuf(c)' = Mbuf(c) /\ Dest(c)' = Dest(c)
      /\ UNCHANGED <<rx, tx>>
  BY <1>1, ProcessSteps DEF nic
<1>3. PICK b, p : b = Mbuf(c) /\ p = Dest(c)
  OBVIOUS
<1>4. b \in Buffer /\ p \in Port
  BY <1>1, <1>2, <1>3, MbufHeld
<1>7. /\ \A q \in Port, d \in Core : ~ On(rx[q][d], b) /\ ~ On(tx[q][d], b)
      /\ \A d \in Core : d # c => ~ Listed(d, b) /\ copy_mbuf[d] # b
  BY <1>2, <1>3, AtHandOnly
<1>8. Fresh(mem[b]) /\ mem[b] \in Entry
  BY <1>2, <1>3 DEF ContentsInv, AtHand, Fresh
<1>9. PICK mm \in Outcomes(ProcessPacket(mem[b].bytes, out_interface[p])) :
         mem' = [mem EXCEPT ![b].bytes = mm]
  BY <1>3 DEF Process
<1>10. mem \in [Buffer -> Entry \cup {None}]
  BY DEF ContentsInv
<1>11. mem'[b] = [mem[b] EXCEPT !.bytes = mm] /\ \A y \in Buffer : y # b => mem'[y] = mem[y]
  BY <1>4, <1>9, <1>10
<1>12. Made(p, mem'[b])
  BY <1>4, <1>8, <1>11, Rewritten
<1>13. mem' \in [Buffer -> Entry \cup {None}]
  <2>1. mem'[b] \in Entry
    BY <1>12 DEF Made
  <2>2. mem' = [mem EXCEPT ![b] = mem'[b]]
    BY <1>9, <1>10, <1>11
  <2> QED BY <1>10, <2>1, <2>2
<1>14. AtHand(c)'
  <2>1. \A y : Listed(c, y)' <=> Listed(c, y)
    BY <1>2 DEF Listed
  <2>2. \A y \in Buffer : Listed(c, y)' => Fresh(mem'[y]) \/ (pc'[c] = "transmit" /\ y = Mbuf(c)')
    BY <1>2, <1>3, <1>11, <2>1 DEF ContentsInv, AtHand
  <2>3. Made(Dest(c)', mem'[Mbuf(c)'])
    BY <1>2, <1>3, <1>12
  <2> QED BY <1>2, <2>2, <2>3 DEF AtHand
<1>15. ASSUME NEW d \in Core, d # c PROVE AtHand(d)'
  <2>1. pc[d] \in {"process", "transmit"} => Mbuf(d) # b
    <3>1. ~ Listed(d, b) /\ copy_mbuf[d] # b
      BY <1>7, <1>15
    <3> QED BY <1>1, <3>1, MbufHeld
  <2>2. \A y \in Buffer : Listed(d, y) \/ (pc[d] \in {"process", "transmit"} /\ y = Mbuf(d))
               => mem'[y] = mem[y]
    BY <1>7, <1>11, <1>15, <2>1
  <2> QED BY <1>2, <1>15, <2>2, RestingAtHand
<1>16. ASSUME NEW q \in Port, NEW d \in Core, NEW y \in Buffer
       PROVE (On(rx'[q][d], y) => Fresh(mem'[y])) /\ (On(tx'[q][d], y) => Made(q, mem'[y]))
  <2>1. On(rx[q][d], y) \/ On(tx[q][d], y) => mem'[y] = mem[y]
    BY <1>7, <1>11
  <2>2. On(rx'[q][d], y) => Fresh(mem'[y])
    BY <1>2, <2>1 DEF ContentsInv
  <2>3. On(tx'[q][d], y) => Made(q, mem'[y])
    BY <1>2, <2>1 DEF ContentsInv
  <2> QED BY <2>2, <2>3
<1>17. \A d \in Core : AtHand(d)'
  BY <1>14, <1>15
<1> QED BY <1>13, <1>16, <1>17 DEF ContentsInv

(* The buffer that goes into a port's ring was made for that port, and the *)
(* freed ones were idle.                                                   *)
LEMMA TransmitContents ==
    ASSUME OwnInv, ContentsInv, NEW c \in Core, Transmit(c)
    PROVE  ContentsInv'
<1>0. PICK b, p : b = Mbuf(c) /\ p = Dest(c)
  OBVIOUS
<1>1. InLoopInv /\ NicTyped /\ OneHolder /\ NoRepeats
  BY DEF OwnInv
<1>2. /\ pc[c] = "transmit" /\ NextPacket(c) /\ copy_mbuf' = [copy_mbuf EXCEPT ![c] = None]
      /\ TxBurst(p, c, b) /\ rx' = rx
  BY <1>0 DEF Transmit
<1>3. /\ b \in Buffer /\ (IsAt(b, Bursting(c)) \/ IsAt(b, Copying(c)))
      /\ \A d \in Core : copy_mbuf'[d] # b /\ ~ Listed(d, b)'
      /\ \A d \in Core : \A y \in Buffer : y # b =>
             (copy_mbuf'[d] = y <=> copy_mbuf[d] = y) /\ (Listed(d, y)' <=> Listed(d, y))
  BY <1>0, TransmitLoop
<1>4. /\ InLoopInv' /\ \A d \in Core : d # c => Rests(d)
      /\ pc'[c] # "transmit" /\ copy_mbuf'[c] = None
  BY <1>1, <1>2, NextPacketSteps
<1>5. p \in Port
  BY <1>0, <1>1, <1>2, MbufHeld
<1>6. ~ On(tx[p][c], b) /\ Once(tx[p][c]) /\ done[p][c] \subseteq Buffer
  <2>1. CASE IsAt(b, Bursting(c))
    BY <1>1, <1>5, <2>1, Distinct DEF IsAt, NoRepeats, NicTyped, Queues
  <2>2. CASE IsAt(b, Copying(c))
    BY <1>1, <1>5, <2>2, Distinct DEF IsAt, NoRepeats, NicTyped, Queues
  <2> QED BY <1>3, <2>1, <2>2
<1>7. /\ \A y : On(tx'[p][c], y) <=> On(tx[p][c], y) \/ y = b
      /\ \A q \in Port, d \in Core : ~ (q = p /\ d = c) => tx'[q][d] = tx[q][d]
      /\ \/ mem' = mem
         \/ mem' = [y \in Buffer |-> IF y \in done[p][c] THEN None ELSE mem[y]]
  BY <1>1, <1>2, <1>3, <1>5, <1>6, TxBurstFacts, SMTT(60)
<1>8. mem \in [Buffer -> Entry \cup {None}]
  BY DEF ContentsInv
<1>9. mem' \in [Buffer -> Entry \cup {None}]
  BY <1>7, <1>8
<1>10. \A y \in Buffer : Idle(y) \/ mem'[y] = mem[y]
  <2>1. \A y \in Buffer : y \in done[p][c] => Idle(y)
    BY <1>5, IdleBuffers
  <2> QED BY <1>7, <2>1
<1>11. mem'[b] = mem[b] /\ Made(p, mem[b])
  <2>1. ~ Idle(b)
    BY <1>0, <1>2 DEF Idle
  <2>2. Made(p, mem[b])
    BY <1>0, <1>2 DEF ContentsInv, AtHand
  <2> QED BY <1>3, <1>10, <2>1, <2>2
<1>12. \A y \in Buffer : Listed(c, y)' => Fresh(mem'[y])
  <2>1. ASSUME NEW y \in Buffer, Listed(c, y)' PROVE Fresh(mem'[y])
    <3>1. y # b /\ Listed(c, y)
      BY <1>3, <2>1
    <3>2. Fresh(mem[y])
      BY <1>0, <3>1 DEF ContentsInv, AtHand
    <3>3. mem'[y] = mem[y]
      BY <1>10, <3>1 DEF Idle
    <3> QED BY <3>2, <3>3
  <2> QED BY <2>1
<1>13. pc'[c] = "process" => Fresh(mem'[Mbuf(c)'])
  <2>1. ASSUME pc'[c] = "process" PROVE Mbuf(c)' \in Buffer /\ Listed(c, Mbuf(c))'
    <3>1. IsLast(c)'
      BY <1>4, <2>1 DEF InLoopInv, InLoop
    <3>2. Mbuf(c)' = pkts_burst'[c][k'[c]]
      BY <3>1 DEF Mbuf
    <3>3. pkts_burst'[c] \in Seq(Buffer) /\ k'[c] \in 1 .. Len(pkts_burst'[c])
      BY <1>4, <2>1 DEF InLoopInv, LoopTyped, InLoop
    <3>4. k'[c] \in DOMAIN pkts_burst'[c] /\ pkts_burst'[c][k'[c]] \in Buffer /\ ~ (k'[c] < k'[c])
      BY <3>3, LenProperties, ElementOfSeq
    <3> QED BY <3>2, <3>4 DEF Listed, Live
  <2> QED BY <1>12, <2>1
<1>14. AtHand(c)'
  BY <1>4, <1>12, <1>13 DEF AtHand
<1>15. ASSUME NEW d \in Core, d # c PROVE AtHand(d)'
  <2>1. \A y \in Buffer : Listed(d, y) \/ (pc[d] \in {"process", "transmit"} /\ y = Mbuf(d))
               => mem'[y] = mem[y]
    BY <1>10 DEF Idle
  <2> QED BY <1>4, <1>15, <2>1, RestingAtHand
<1>16. ASSUME NEW q \in Port, NEW d \in Core, NEW y \in Buffer
       PROVE (On(rx'[q][d], y) => Fresh(mem'[y])) /\ (On(tx'[q][d], y) => Made(q, mem'[y]))
  <2>1. On(rx[q][d], y) \/ On(tx[q][d], y) => mem'[y] = mem[y]
    BY <1>10 DEF Idle
  <2>2. On(rx'[q][d], y) => Fresh(mem'[y])
    BY <1>2, <2>1 DEF ContentsInv
  <2>3. On(tx'[q][d], y) => Made(q, mem'[y])
    <3>1. CASE On(tx[q][d], y)
      BY <2>1, <3>1 DEF ContentsInv
    <3>2. CASE ~ On(tx[q][d], y)
      <4>1. On(tx'[q][d], y) => q = p /\ d = c /\ y = b
        BY <1>7, <3>2
      <4> QED BY <1>11, <4>1
    <3> QED BY <3>1, <3>2
  <2> QED BY <2>2, <2>3
<1>17. \A d \in Core : AtHand(d)'
  BY <1>14, <1>15
<1> QED BY <1>9, <1>16, <1>17 DEF ContentsInv

(* A step that rewrites nothing and moves nothing.                         *)
LEMMA NothingRewritten ==
    ASSUME OwnInv, ContentsInv, UNCHANGED <<rx, tx, mem>>,
           \A d \in Core : Rests(d) \/ AtHand(d)'
    PROVE  ContentsInv'
<1>1. \A d \in Core : AtHand(d)'
  BY RestingAtHand
<1> QED BY <1>1 DEF ContentsInv

(* No step touches what is in a queue, or rewrites a packet twice.         *)
LEMMA NextContents ==
    ASSUME OwnInv, ContentsInv, [Next]_vars
    PROVE  ContentsInv'
<1>1. InLoopInv
  BY DEF OwnInv
<1>2. CASE NicReceive
  BY <1>2, NicReceiveContents
<1>3. ASSUME NEW p \in Port, NEW c \in Core, NicSend(p, c) PROVE ContentsInv'
  BY <1>3, NicSendContents
<1>4. ASSUME NEW c \in Core, RxBurstEmpty(c) PROVE ContentsInv'
  <2>1. /\ \A d \in Core : d # c => Rests(d)
        /\ pc'[c] = "poll" /\ Live(c)' = {} /\ UNCHANGED <<rx, tx, mem>>
    BY <1>1, <1>4, RxBurstEmptySteps DEF nic
  <2>2. AtHand(c)'
    BY <2>1 DEF AtHand, Listed
  <2> QED BY <2>1, <2>2, NothingRewritten
<1>5. ASSUME NEW c \in Core, MainLoop(c) PROVE ContentsInv'
  BY <1>4, <1>5, RxBurstContents, CopyContents, ProcessContents, TransmitContents DEF MainLoop
<1>6. CASE FlowExpires \/ UNCHANGED vars
  <2>1. UNCHANGED <<pc, loop, copy_mbuf, rx, tx, mem>>
    BY <1>6 DEF FlowExpires, vars, nic
  <2>2. \A d \in Core : Rests(d)
    BY <2>1, AllRest
  <2> QED BY <2>1, <2>2, NothingRewritten
<1> QED BY <1>2, <1>3, <1>5, <1>6 DEF Next

-----------------------------------------------------------------------------
(* What has come.                                                          *)

(* The packet at the end of a line joins those in it.                      *)
LEMMA AppendRange ==
    ASSUME NEW left \in Seq(Packet), NEW z \in Packet
    PROVE  LET r == Append(left, z)
           IN  /\ r \in Seq(Packet) /\ Len(left) \in Nat /\ Len(r) = Len(left) + 1
               /\ DOMAIN left = 1..Len(left) /\ DOMAIN r = 1..(Len(left) + 1)
               /\ \A i \in 1..Len(left) : r[i] = left[i]
               /\ r[Len(left) + 1] = z
               /\ Range(r) = Range(left) \cup {z}
<1> DEFINE r == Append(left, z)
<1>1. /\ r \in Seq(Packet) /\ Len(r) = Len(left) + 1
      /\ \A i \in 1..Len(left) : r[i] = left[i]
      /\ r[Len(left) + 1] = z
  BY AppendProperties
<1> HIDE DEF r
<1>2. Len(left) \in Nat /\ DOMAIN left = 1..Len(left) /\ DOMAIN r = 1..Len(r)
  BY <1>1, LenProperties
<1>3. Range(r) = Range(left) \cup {z}
  <2>1. ASSUME NEW y \in Range(r) PROVE y \in Range(left) \cup {z}
    <3>1. PICK i \in 1..(Len(left) + 1) : r[i] = y
      BY <1>1, <1>2, <2>1 DEF Range
    <3>2. i \in 1..Len(left) \/ i = Len(left) + 1
      BY <1>2
    <3> QED BY <1>1, <1>2, <3>1, <3>2 DEF Range
  <2>2. ASSUME NEW y \in Range(left) \cup {z} PROVE y \in Range(r)
    <3>1. CASE y = z
      <4>1. Len(left) + 1 \in DOMAIN r
        BY <1>1, <1>2
      <4> QED BY <1>1, <3>1, <4>1 DEF Range
    <3>2. CASE y \in Range(left)
      <4>1. PICK i \in 1..Len(left) : left[i] = y
        BY <1>2, <3>2 DEF Range
      <4>2. i \in DOMAIN r /\ r[i] = y
        BY <1>1, <1>2, <4>1
      <4> QED BY <4>2 DEF Range
    <3> QED BY <2>2, <3>1, <3>2
  <2> QED BY <2>1, <2>2
<1> QED BY <1>1, <1>2, <1>3 DEF r

(* What is in a buffer has come.                                           *)
Brought == \A b \in Buffer : mem[b] # None => mem[b].pkt \in Came

(* More and more has.                                                      *)
LEMMA CameGrows ==
    ASSUME ContentsInv, arrived \in Queues(Seq(Packet)), [Next]_vars
    PROVE  Came \subseteq Came'
<1>1. CASE UNCHANGED arrived
  BY <1>1 DEF Came
<1>2. CASE NicReceive
  <2>1. PICK x \in Packet, p \in Port, c \in Core : arrived' = [arrived EXCEPT ![p][c] = Append(@, x)]
    <3>1. \A x \in Packet : Arrival[x].port \in Port /\ Arrival[x].core \in Core
      BY ForwarderAssumption, InputIsPort
    <3>2. PICK x \in Packet :
             arrived' = [arrived EXCEPT ![Arrival[x].port][Arrival[x].core] = Append(@, x)]
      BY <1>2, Zenon DEF NicReceive
    <3> QED BY <3>1, <3>2
  <2>2. arrived[p][c] \in Seq(Packet)
    BY DEF Queues
  <2>3. \A q \in Port, d \in Core : Range(arrived[q][d]) \subseteq Range(arrived'[q][d])
    <3>1. Range(arrived[p][c]) \subseteq Range(Append(arrived[p][c], x))
      BY <2>2, AppendRange
    <3> QED BY <2>1, <3>1 DEF Queues
  <2> QED BY <2>3 DEF Came
<1>3. UNCHANGED arrived \/ NicReceive
  BY Zenon DEF Next, NicSend, MainLoop, RxBurstEmpty, RxBurst, Copy, Process, Transmit, FlowExpires, vars, nic
<1> QED BY <1>1, <1>2, <1>3

(* Init's buffers are empty.                                               *)
LEMMA InitBrought == Init => Brought
BY DEF Init, Brought

(* A step puts into a buffer what arrives, what another one holds, the     *)
(* same packet rewritten, or nothing.                                      *)
LEMMA NextBrought ==
    ASSUME OwnInv, ContentsInv, arrived \in Queues(Seq(Packet)), Brought, [Next]_vars
    PROVE  Brought'
<1>1. Came \subseteq Came'
  BY CameGrows
<1>2. /\ mem \in [Buffer -> Entry \cup {None}] /\ free \in [Pool -> SUBSET Buffer]
      /\ "pktmbuf_pool" \in Pool /\ "pktmbuf_pool2" \in Pool
  BY DEF OwnInv, NicTyped, ContentsInv, Pool
<1>3. ASSUME \A y \in Buffer : mem'[y] = mem[y] \/ mem'[y] = None PROVE Brought'
  BY <1>1, <1>3 DEF Brought
<1>4. CASE NicReceive
  <2>1. PICK x \in Packet, b \in free["pktmbuf_pool"] :
           /\ arrived' = [arrived EXCEPT ![Arrival[x].port][Arrival[x].core] = Append(@, x)]
           /\ mem' = [mem EXCEPT ![b] = [pkt |-> x, bytes |-> Arrival[x].bytes]]
    BY <1>4, Zenon DEF NicReceive
  <2>2. PICK p, c : p = Arrival[x].port /\ c = Arrival[x].core
    OBVIOUS
  <2>3. p \in Port /\ c \in Core
    BY <2>2, ForwarderAssumption, InputIsPort
  <2>4. arrived[p][c] \in Seq(Packet)
    BY <2>3 DEF Queues
  <2>5. arrived'[p][c] = Append(arrived[p][c], x)
    BY <2>1, <2>2, <2>3 DEF Queues
  <2>6. x \in Range(arrived'[p][c])
    BY <2>4, <2>5, AppendRange
  <2>7. x \in Came'
    BY <2>3, <2>6 DEF Came
  <2>8. b \in Buffer /\ mem'[b].pkt = x /\ \A y \in Buffer : y # b => mem'[y] = mem[y]
    BY <1>2, <2>1
  <2> QED BY <1>1, <2>7, <2>8 DEF Brought
<1>5. ASSUME NEW c \in Core, Copy(c) PROVE Brought'
  <2>1. PICK b \in free["pktmbuf_pool2"] : mem' = [mem EXCEPT ![b] = mem[pkts_burst[c][k[c]]]]
    BY <1>5, Zenon DEF Copy
  <2>2. PICK o : o = pkts_burst[c][k[c]]
    OBVIOUS
  <2>3. o \in Buffer
    <3>1. LoopTyped /\ InLoop(c) /\ pc[c] = "copy"
      BY <1>5 DEF OwnInv, InLoopInv, Copy
    <3> QED BY <2>2, <3>1, Current
  <2>4. b \in Buffer /\ mem'[b] = mem[o] /\ \A y \in Buffer : y # b => mem'[y] = mem[y]
    BY <1>2, <2>1, <2>2
  <2> QED BY <1>1, <2>3, <2>4 DEF Brought
<1>6. ASSUME NEW c \in Core, Process(c) PROVE Brought'
  <2>1. PICK b, mm : b = Mbuf(c) /\ mem' = [mem EXCEPT ![b].bytes = mm]
    BY <1>6, Zenon DEF Process
  <2>2. pc[c] = "process"
    BY <1>6 DEF Process
  <2>3. b \in Buffer
    BY <2>1, <2>2, MbufHeld DEF OwnInv
  <2>4. mem[b] \in Entry
    BY <2>1, <2>2 DEF ContentsInv, AtHand, Fresh
  <2>5. mem[b] # None
    BY <2>4, ForwarderAssumption DEF Entry
  <2>6. mem'[b].pkt = mem[b].pkt /\ \A y \in Buffer : y # b => mem'[y] = mem[y]
    BY <1>2, <2>1, <2>3, <2>4 DEF Entry
  <2> QED BY <1>1, <2>3, <2>5, <2>6 DEF Brought
<1>7. ASSUME NEW c \in Core, Transmit(c) PROVE Brought'
  <2>1. PICK p, b : TxBurst(p, c, b)
    BY <1>7, Zenon DEF Transmit
  <2>2. mem' = mem \/ mem' = [x \in Buffer |-> IF x \in done[p][c] THEN None ELSE mem[x]]
    BY <2>1, Zenon DEF TxBurst
  <2> QED BY <1>3, <2>2
<1>8. ASSUME UNCHANGED mem PROVE Brought'
  BY <1>3, <1>8
<1>9. \/ UNCHANGED mem \/ NicReceive
      \/ \E c \in Core : Copy(c) \/ Process(c) \/ Transmit(c)
  BY Zenon DEF Next, NicSend, MainLoop, RxBurstEmpty, RxBurst, FlowExpires, vars
<1> QED BY <1>4, <1>5, <1>6, <1>7, <1>8, <1>9

-----------------------------------------------------------------------------
(* The names that are shown.                                               *)

(* Backed, for the addresses counted for a name.                           *)
BackedBy(S, alpha) == alpha <= Cardinality({a.host : a \in S}) * Cardinality({a.under : a \in S})

(* Granted, likewise.                                                      *)
SomeBacked(f) ==
    \E x \in Came, q \in Port :
        FlowOf(AtPort(x, q)) = f /\ BackedBy(askers[AtPort(x, q).name], out_interface[q].alpha)

(* The name in packet m may be read where port p sends it.                 *)
EntitledTo(p, m) ==
    Managed(m, out_interface[p]) /\ m.found /\ m.readable =>
        IF m.proto = "udp" THEN BackedBy(askers[m.name], out_interface[p].alpha)
        ELSE SomeBacked(FlowOf(m)) \/ Unasked(FlowOf(m))

EngineTyped ==
    /\ askers \in [Name -> SUBSET Shown] /\ \A n \in Name : IsFiniteSet(askers[n])
    /\ passing \subseteq Flow
    /\ arrived \in Queues(Seq(Packet)) /\ sent \in Queues(Seq(Packet))

NamesInv ==
    /\ \A f \in passing : SomeBacked(f) \/ Unasked(f)
    /\ \A p \in Port, c \in Core : \A b \in Buffer : On(tx[p][c], b) => EntitledTo(p, mem[b].bytes)
    /\ \A c \in Core : pc[c] = "transmit" => EntitledTo(Dest(c), mem[Mbuf(c)].bytes)

(* The hosts and the keys of finitely many addresses are finitely many.    *)
LEMMA FiniteParts ==
    ASSUME NEW S, IsFiniteSet(S)
    PROVE  /\ IsFiniteSet({a.host : a \in S}) /\ IsFiniteSet({a.under : a \in S})
           /\ Cardinality({a.host : a \in S}) \in Nat /\ Cardinality({a.under : a \in S}) \in Nat
<1>1. IsFiniteSet({a.host : a \in S})
  <2> DEFINE T == {a.host : a \in S}
             f == [a \in S |-> a.host]
  <2>1. f \in Surjection(S, T)
    BY Fun_IsSurj
  <2> QED BY <2>1, FS_Surjection
<1>2. IsFiniteSet({a.under : a \in S})
  <2> DEFINE T == {a.under : a \in S}
             f == [a \in S |-> a.under]
  <2>1. f \in Surjection(S, T)
    BY Fun_IsSurj
  <2> QED BY <2>1, FS_Surjection
<1> QED BY <1>1, <1>2, FS_CardinalityType

(* As many addresses as alpha stand for as many hosts, each under as many  *)
(* keys.                                                                   *)
LEMMA CountedBacked ==
    ASSUME NEW S, S \subseteq Shown, IsFiniteSet(S), NEW alpha \in Nat, Cardinality(S) >= alpha
    PROVE  BackedBy(S, alpha)
<1> DEFINE H == {a.host : a \in S}
           U == {a.under : a \in S}
           f == [a \in S |-> <<a.host, a.under>>]
<1>1. IsFiniteSet(H) /\ IsFiniteSet(U) /\ Cardinality(H) \in Nat /\ Cardinality(U) \in Nat
  BY FiniteParts
<1>2. IsFiniteSet(H \X U) /\ Cardinality(H \X U) = Cardinality(H) * Cardinality(U)
  BY <1>1, FS_Product
<1>3. f \in Injection(S, H \X U)
  <2>1. f \in [S -> H \X U]
    OBVIOUS
  <2>2. \A a, b \in S : f[a] = f[b] => a = b
    <3>1. \A a \in S : a = [host |-> a.host, under |-> a.under]
      BY DEF Shown
    <3>2. \A a, b \in S : f[a] = f[b] => a.host = b.host /\ a.under = b.under
      OBVIOUS
    <3> HIDE DEF f
    <3> QED BY <3>1, <3>2
  <2> HIDE DEF f, H, U
  <2> QED BY <2>1, <2>2, Fun_IsInj
<1> HIDE DEF f
<1>4. Cardinality(S) <= Cardinality(H \X U)
  BY <1>2, <1>3, FS_Injection
<1>5. Cardinality(S) \in Nat
  BY FS_CardinalityType
<1> HIDE DEF H, U
<1>6. PICK x, y : x = Cardinality(H) /\ y = Cardinality(U) /\ x * y \in Nat
  BY <1>1
<1>7. alpha <= Cardinality(H) * Cardinality(U)
  BY <1>1, <1>2, <1>4, <1>5, <1>6
<1> QED BY <1>7 DEF BackedBy, H, U

(* More addresses back what fewer did.                                     *)
LEMMA BackedGrows ==
    ASSUME NEW T, IsFiniteSet(T), NEW S, S \subseteq T, NEW alpha \in Nat, BackedBy(S, alpha)
    PROVE  BackedBy(T, alpha)
<1>1. IsFiniteSet(S)
  BY FS_Subset
<1>2. PICK h, u, hh, uu : /\ h = Cardinality({a.host : a \in S}) /\ u = Cardinality({a.under : a \in S})
                          /\ hh = Cardinality({a.host : a \in T}) /\ uu = Cardinality({a.under : a \in T})
  OBVIOUS
<1>3. h \in Nat /\ u \in Nat /\ hh \in Nat /\ uu \in Nat
  BY <1>1, <1>2, FiniteParts
<1>4. h <= hh
  <2>1. {a.host : a \in S} \subseteq {a.host : a \in T} /\ IsFiniteSet({a.host : a \in T})
    BY FiniteParts
  <2> QED BY <1>2, <2>1, FS_Subset
<1>5. u <= uu
  <2>1. {a.under : a \in S} \subseteq {a.under : a \in T} /\ IsFiniteSet({a.under : a \in T})
    BY FiniteParts
  <2> QED BY <1>2, <2>1, FS_Subset
<1>6. h * u <= hh * uu
  <2>1. h * u <= hh * u
    BY <1>3, <1>4
  <2>2. hh * u <= hh * uu
    BY <1>3, <1>5
  <2>3. h * u \in Nat /\ hh * u \in Nat /\ hh * uu \in Nat
    BY <1>3
  <2> QED BY <2>1, <2>2, <2>3
<1>7. alpha <= h * u
  BY <1>2 DEF BackedBy
<1>8. h * u \in Nat /\ hh * uu \in Nat
  BY <1>3
<1>9. alpha <= hh * uu
  BY <1>6, <1>7, <1>8
<1> QED BY <1>2, <1>9 DEF BackedBy

(* What has come is packets, and process_packet makes packets of them.     *)
LEMMA CameFrom ==
    ASSUME arrived \in Queues(Seq(Packet))
    PROVE  Came \subseteq Packet
<1>1. \A p \in Port, c \in Core : arrived[p][c] \in Seq(Packet)
  BY DEF Queues
<1>2. \A q \in Seq(Packet) : Range(q) \subseteq Packet
  BY DEF Range
<1> QED BY <1>1, <1>2 DEF Came

LEMMA AtPortTyped ==
    ASSUME NEW x \in Packet, NEW p \in Port
    PROVE  AtPort(x, p) \in Bytes
<1>1. Arrival[x].bytes \in Bytes /\ out_interface[p] \in OutSetting
  BY ForwarderAssumption
<1> QED BY <1>1, ProcessPacketFacts DEF AtPort

(* What is backed stays so: no asker is taken from a name, and what has    *)
(* come has come.                                                          *)
LEMMA BackedStays ==
    ASSUME EngineTyped, EngineTyped', \A n \in Name : askers[n] \subseteq askers'[n],
           Came \subseteq Came'
    PROVE  /\ \A f : SomeBacked(f) => SomeBacked(f)'
           /\ \A f : Unasked(f) => Unasked(f)'
           /\ \A p \in Port, m \in Bytes : EntitledTo(p, m) => EntitledTo(p, m)'
<1>1. \A p \in Port : out_interface[p].alpha \in Nat
  BY ForwarderAssumption DEF OutSetting
<1>2. \A n \in Name : IsFiniteSet(askers'[n])
  BY DEF EngineTyped
<1>3. \A n \in Name, p \in Port : BackedBy(askers[n], out_interface[p].alpha)
                                   => BackedBy(askers'[n], out_interface[p].alpha)
  BY <1>1, <1>2, BackedGrows
<1>4. ASSUME NEW f, SomeBacked(f) PROVE SomeBacked(f)'
  <2>1. PICK x \in Came, q \in Port :
           FlowOf(AtPort(x, q)) = f /\ BackedBy(askers[AtPort(x, q).name], out_interface[q].alpha)
    BY <1>4, Zenon DEF SomeBacked
  <2>2. AtPort(x, q).name \in Name
    <3>1. x \in Packet
      BY CameFrom DEF EngineTyped
    <3> QED BY <3>1, AtPortTyped DEF Bytes
  <2>3. BackedBy(askers'[AtPort(x, q).name], out_interface[q].alpha)
    BY <1>3, <2>1, <2>2
  <2> QED BY <2>1, <2>3, Zenon DEF SomeBacked
<1>5. ASSUME NEW f, Unasked(f) PROVE Unasked(f)'
  BY <1>5, Zenon DEF Unasked
<1>6. ASSUME NEW p \in Port, NEW m \in Bytes, EntitledTo(p, m) PROVE EntitledTo(p, m)'
  <2>1. m.name \in Name
    BY DEF Bytes
  <2>2. Unasked(FlowOf(m)) => Unasked(FlowOf(m))'
    BY <1>5
  <2>3. SomeBacked(FlowOf(m)) => SomeBacked(FlowOf(m))'
    BY <1>4
  <2> QED BY <1>3, <1>6, <2>1, <2>2, <2>3 DEF EntitledTo
<1> QED BY <1>4, <1>5, <1>6

(* table_add counts the source, and a name passes only if enough are       *)
(* counted.                                                                *)
LEMMA AskFacts ==
    ASSUME EngineTyped, NEW p \in Port, NEW m \in Bytes, m.src \in Shown, NEW v \in BOOLEAN,
           Ask(m, out_interface[p], v)
    PROVE  /\ askers' \in [Name -> SUBSET Shown] /\ \A n \in Name : IsFiniteSet(askers'[n])
           /\ \A n \in Name : askers[n] \subseteq askers'[n]
           /\ v = TRUE => BackedBy(askers'[m.name], out_interface[p].alpha)
<1>1. m.name \in Name /\ out_interface[p].alpha \in Nat
  BY ForwarderAssumption DEF Bytes, OutSetting
<1>2. askers \in [Name -> SUBSET Shown] /\ \A n \in Name : IsFiniteSet(askers[n])
  BY DEF EngineTyped
<1>3. askers' = [askers EXCEPT ![m.name] = @ \cup {m.src}]
  BY DEF Ask
<1>4. askers' \in [Name -> SUBSET Shown] /\ \A n \in Name : askers[n] \subseteq askers'[n]
  BY <1>1, <1>2, <1>3
<1>5. \A n \in Name : IsFiniteSet(askers'[n])
  <2>1. IsFiniteSet(askers[m.name] \cup {m.src})
    BY <1>1, <1>2, FS_AddElement
  <2> QED BY <1>1, <1>2, <1>3, <2>1
<1>6. ASSUME v = TRUE PROVE BackedBy(askers'[m.name], out_interface[p].alpha)
  <2>1. Cardinality(askers'[m.name]) >= out_interface[p].alpha
    BY <1>6 DEF Ask
  <2> QED BY <1>1, <1>4, <1>5, <2>1, CountedBacked
<1> QED BY <1>4, <1>5, <1>6

(* What a module is to look at is neither left alone nor kept from it.     *)
LEMMA ManagedFacts ==
    ASSUME NEW m, NEW s, Managed(m, s)
    PROVE  Engaged(m, s) /\ ~ LeftAlone(m, s)
BY DEF Managed, LeftAlone

(* The modules show the name in a packet only if enough hosts asked for    *)
(* it, or, in a flow that passes, for some name; and let a flow pass where *)
(* they do not ask.                                                        *)
LEMMA ModulesFacts ==
    ASSUME EngineTyped, NEW p \in Port, NEW m \in Bytes, m.src \in Shown, m.dst \in Shown,
           NEW flows, flows \subseteq Flow, \A f \in flows : SomeBacked(f) \/ Unasked(f),
           m.proto = "tcp" /\ Managed(m, out_interface[p]) /\ ~ m.found => Unasked(FlowOf(m)),
           NEW x \in Came, AtPort(x, p).name = m.name, FlowOf(AtPort(x, p)) = FlowOf(m),
           NEW mm, Modules(m, out_interface[p], flows, mm), UNCHANGED <<arrived, sent>>
    PROVE  /\ EngineTyped' /\ \A n \in Name : askers[n] \subseteq askers'[n]
           /\ \A f \in passing' : SomeBacked(f)' \/ Unasked(f)'
           /\ EntitledTo(p, mm)'
<1> DEFINE s == out_interface[p]
<1>1. FlowOf(m) \in Flow /\ m.name \in Name
  BY DEF FlowOf, Flow, Bytes
<1>2. Came' = Came /\ \A f : Unasked(f)' <=> Unasked(f)
  <2>1. Came' = Came
    BY DEF Came
  <2> QED BY <2>1 DEF Unasked
<1>3. ASSUME passing' \subseteq Flow, UNCHANGED askers
      PROVE  /\ EngineTyped' /\ \A n \in Name : askers[n] \subseteq askers'[n]
             /\ \A f : SomeBacked(f)' <=> SomeBacked(f)
  <2>1. EngineTyped'
    BY <1>3 DEF EngineTyped
  <2> QED BY <1>2, <1>3, <2>1 DEF SomeBacked
<1>4. CASE /\ ~ Engaged(m, s) \/ LeftAlone(m, s) \/ (Managed(m, s) /\ Passes(m, flows))
           /\ mm = m /\ passing' = flows /\ UNCHANGED askers
  <2>1. Managed(m, s) => m.proto = "tcp" /\ FlowOf(m) \in flows
    BY <1>4, ManagedFacts DEF Passes
  <2>2. Managed(m, s) => SomeBacked(FlowOf(m)) \/ Unasked(FlowOf(m))
    BY <2>1
  <2>3. EntitledTo(p, mm)'
    BY <1>2, <1>3, <1>4, <2>1, <2>2 DEF EntitledTo
  <2> QED BY <1>2, <1>3, <1>4, <2>3
<1>5. CASE mm = RemovePayload(m) /\ passing' = flows /\ UNCHANGED askers
  <2>1. mm.readable = FALSE
    BY <1>5 DEF RemovePayload, Bytes
  <2>2. EntitledTo(p, mm)'
    BY <2>1 DEF EntitledTo
  <2> QED BY <1>2, <1>3, <1>5, <2>2
<1>6. ASSUME NEW v \in BOOLEAN, Ask(m, s, v), mm = Verdict(m, v),
             passing' = flows \/ (v = TRUE /\ passing' = flows \cup {FlowOf(m)})
      PROVE  /\ EngineTyped' /\ \A n \in Name : askers[n] \subseteq askers'[n]
             /\ \A f \in passing' : SomeBacked(f)' \/ Unasked(f)'
             /\ EntitledTo(p, mm)'
  <2>1. /\ askers' \in [Name -> SUBSET Shown] /\ \A n \in Name : IsFiniteSet(askers'[n])
        /\ \A n \in Name : askers[n] \subseteq askers'[n]
        /\ v = TRUE => BackedBy(askers'[m.name], out_interface[p].alpha)
    BY <1>6, AskFacts
  <2>2. passing' \subseteq Flow
    BY <1>1, <1>6
  <2>3. EngineTyped'
    BY <2>1, <2>2 DEF EngineTyped
  <2>4. v = TRUE => SomeBacked(FlowOf(m))'
    BY <1>2, <2>1, Zenon DEF SomeBacked
  <2>5. \A f : SomeBacked(f) => SomeBacked(f)'
    BY <1>2, <2>1, <2>3, BackedStays
  <2>6. \A f \in passing' : SomeBacked(f)' \/ Unasked(f)'
    BY <1>2, <1>6, <2>4, <2>5
  <2>7. EntitledTo(p, mm)'
    <3>1. CASE v = TRUE
      <4>1. mm = m
        BY <1>6, <3>1 DEF Verdict
      <4> QED BY <2>1, <2>4, <3>1, <4>1 DEF EntitledTo
    <3>2. CASE v = FALSE
      <4>1. mm.readable = FALSE
        BY <1>6, <3>2 DEF Verdict, Hidden, Bytes
      <4> QED BY <4>1 DEF EntitledTo
    <3> QED BY <3>1, <3>2
  <2> QED BY <2>1, <2>3, <2>6, <2>7
<1>7. CASE \E v \in BOOLEAN :
             /\ Ask(m, s, v) /\ mm = Verdict(m, v)
             /\ passing' = flows \/ (v = TRUE /\ passing' = flows \cup {FlowOf(m)})
  BY <1>6, <1>7
<1>8. CASE /\ Managed(m, s) /\ ~ m.found /\ UNCHANGED askers
           /\ passing' = flows \/ (m.proto = "tcp" /\ passing' = flows \cup {FlowOf(m)})
           /\ mm \in {m, RemovePayload(m)}
  <2>1. passing' \subseteq Flow
    BY <1>1, <1>8
  <2>2. \A f \in passing' : SomeBacked(f) \/ Unasked(f)
    BY <1>8
  <2>3. mm.found = FALSE
    BY <1>8 DEF RemovePayload, Bytes
  <2>4. EntitledTo(p, mm)'
    BY <2>3 DEF EntitledTo
  <2> QED BY <1>2, <1>3, <1>8, <2>1, <2>2, <2>4
<1>9. \/ /\ ~ Engaged(m, s) \/ LeftAlone(m, s) \/ (Managed(m, s) /\ Passes(m, flows))
         /\ mm = m /\ passing' = flows /\ UNCHANGED askers
      \/ mm = RemovePayload(m) /\ passing' = flows /\ UNCHANGED askers
      \/ \E v \in BOOLEAN :
             /\ Ask(m, s, v) /\ mm = Verdict(m, v)
             /\ passing' = flows \/ (v = TRUE /\ passing' = flows \cup {FlowOf(m)})
      \/ /\ Managed(m, s) /\ ~ m.found /\ UNCHANGED askers
         /\ passing' = flows \/ (m.proto = "tcp" /\ passing' = flows \cup {FlowOf(m)})
         /\ mm \in {m, RemovePayload(m)}
  BY DEF Modules
<1> QED BY <1>4, <1>5, <1>7, <1>8, <1>9

(* external_ip before them lets a flow pass unasked.                       *)
LEMMA EngineFacts ==
    ASSUME EngineTyped, \A f \in passing : SomeBacked(f) \/ Unasked(f),
           NEW p \in Port, NEW x \in Came, NEW m \in Bytes, m = AtPort(x, p),
           m.src \in Shown, m.dst \in Shown, NEW mm,
           Engine(m, out_interface[p], mm), UNCHANGED <<arrived, sent>>
    PROVE  /\ EngineTyped' /\ \A n \in Name : askers[n] \subseteq askers'[n]
           /\ \A f \in passing' : SomeBacked(f)' \/ Unasked(f)'
           /\ EntitledTo(p, mm)'
<1>1. PICK ext \in {m, Randomized(m)}, flows \in {passing, passing \cup {FlowOf(m)}} :
        ExternalIp(m, out_interface[p], ext, flows) /\ Modules(ext, out_interface[p], flows, mm)
  BY Zenon DEF Engine
<1>2. PassesUnasked(m, out_interface[p]) => Unasked(FlowOf(m))
  BY Zenon DEF Unasked
<1>3. /\ ext \in Bytes /\ ext.src = m.src /\ ext.dst = m.dst /\ ext.proto = m.proto
      /\ ext.found = m.found /\ ext.app = m.app /\ ext.payload = m.payload /\ ext.ether = m.ether
      /\ ext.name = m.name
  BY <1>1 DEF Randomized, Bytes
<1>4. Managed(ext, out_interface[p]) <=> Managed(m, out_interface[p])
  BY <1>3 DEF Managed, Engaged, Reaches, Exempt
<1>5. FlowOf(ext) = FlowOf(m)
  BY <1>3 DEF FlowOf
<1>6. ext.proto = "tcp" /\ Managed(ext, out_interface[p]) /\ ~ ext.found => Unasked(FlowOf(ext))
  BY <1>2, <1>3, <1>4, <1>5 DEF PassesUnasked
<1>7. \/ flows = passing
      \/ flows = passing \cup {FlowOf(m)} /\ PassesUnasked(m, out_interface[p])
  BY <1>1, Zenon DEF ExternalIp, PassesUnasked
<1>8. \A f \in flows : SomeBacked(f) \/ Unasked(f)
  BY <1>2, <1>7
<1>9. flows \subseteq Flow
  BY <1>1 DEF EngineTyped, FlowOf, Flow
<1> HIDE DEF Unasked, SomeBacked
<1> QED BY <1>1, <1>3, <1>5, <1>6, <1>8, <1>9, ModulesFacts

(* A step that shows nothing to a port: what is in a ring or is about to   *)
(* be sent was so before, and is as it was.                                *)
LEMMA NothingShown ==
    ASSUME OwnInv, ContentsInv, NamesInv, EngineTyped, EngineTyped',
           UNCHANGED askers, passing' \subseteq passing, Came \subseteq Came',
           \A y \in Buffer : Idle(y) \/ mem'[y] = mem[y],
           \A p \in Port, c \in Core : \A y \in Buffer : On(tx'[p][c], y) =>
               \/ On(tx[p][c], y)
               \/ \E d \in Core : pc[d] = "transmit" /\ Dest(d) = p /\ Mbuf(d) = y,
           \A c \in Core : pc'[c] = "transmit" =>
               pc[c] = "transmit" /\ Dest(c)' = Dest(c) /\ Mbuf(c)' = Mbuf(c)
    PROVE  NamesInv'
<1>1. /\ \A f : SomeBacked(f) => SomeBacked(f)'
      /\ \A f : Unasked(f) => Unasked(f)'
      /\ \A p \in Port, m \in Bytes : EntitledTo(p, m) => EntitledTo(p, m)'
  BY BackedStays
<1>2. \A f \in passing' : SomeBacked(f)' \/ Unasked(f)'
  BY <1>1 DEF NamesInv
<1>3. ASSUME NEW c \in Core, pc[c] = "transmit"
      PROVE  /\ Mbuf(c) \in Buffer /\ Dest(c) \in Port /\ mem'[Mbuf(c)] = mem[Mbuf(c)]
             /\ mem[Mbuf(c)].bytes \in Bytes
             /\ EntitledTo(Dest(c), mem[Mbuf(c)].bytes)
  <2>1. Mbuf(c) \in Buffer /\ Dest(c) \in Port
    BY <1>3, MbufHeld DEF OwnInv
  <2>2. ~ Idle(Mbuf(c))
    BY <1>3 DEF Idle
  <2>3. mem[Mbuf(c)] \in Entry
    BY <1>3 DEF ContentsInv, AtHand, Made
  <2>4. EntitledTo(Dest(c), mem[Mbuf(c)].bytes)
    BY <1>3 DEF NamesInv
  <2> QED BY <2>1, <2>2, <2>3, <2>4 DEF Entry
<1>4. ASSUME NEW p \in Port, NEW c \in Core, NEW y \in Buffer, On(tx'[p][c], y)
      PROVE  EntitledTo(p, mem[y].bytes)'
  <2>1. PICK m : m = mem[y].bytes
    OBVIOUS
  <2>2. CASE On(tx[p][c], y)
    <3>1. mem'[y] = mem[y]
      BY <2>2 DEF Idle
    <3>2. mem[y] \in Entry
      BY <2>2 DEF ContentsInv, Made
    <3>3. m \in Bytes
      BY <2>1, <3>2 DEF Entry
    <3>4. EntitledTo(p, m)
      BY <2>1, <2>2 DEF NamesInv
    <3>5. EntitledTo(p, m)'
      BY <1>1, <3>3, <3>4
    <3> QED BY <2>1, <3>1, <3>5
  <2>3. CASE \E d \in Core : pc[d] = "transmit" /\ Dest(d) = p /\ Mbuf(d) = y
    <3>1. PICK d \in Core : pc[d] = "transmit" /\ Dest(d) = p /\ Mbuf(d) = y
      BY <2>3
    <3>2. mem'[y] = mem[y] /\ m \in Bytes /\ EntitledTo(p, m)
      BY <1>3, <2>1, <3>1
    <3>3. EntitledTo(p, m)'
      BY <1>1, <3>2
    <3> QED BY <2>1, <3>2, <3>3
  <2> QED BY <1>4, <2>2, <2>3
<1>5. ASSUME NEW c \in Core, pc'[c] = "transmit" PROVE EntitledTo(Dest(c), mem[Mbuf(c)].bytes)'
  <2>1. PICK m, p : m = mem[Mbuf(c)].bytes /\ p = Dest(c)
    OBVIOUS
  <2>2. pc[c] = "transmit" /\ Dest(c)' = p /\ Mbuf(c)' = Mbuf(c)
    BY <1>5, <2>1
  <2>3. EntitledTo(p, m) /\ m \in Bytes /\ p \in Port /\ mem'[Mbuf(c)'].bytes = m
    BY <1>3, <2>1, <2>2
  <2>4. EntitledTo(p, m)'
    BY <1>1, <2>3
  <2> QED BY <2>2, <2>3, <2>4
<1> QED BY <1>2, <1>4, <1>5 DEF NamesInv

(* process_packet and the engine: the one step that decides on a name.     *)
LEMMA ProcessNames ==
    ASSUME OwnInv, ContentsInv, Brought, NamesInv, EngineTyped, NEW c \in Core, Process(c)
    PROVE  EngineTyped' /\ NamesInv'
<1>1. InLoopInv
  BY DEF OwnInv
<1>2. /\ \A d \in Core : d # c => Rests(d)
      /\ pc[c] = "process" /\ pc'[c] = "transmit"
      /\ Mbuf(c)' = Mbuf(c) /\ Dest(c)' = Dest(c)
      /\ UNCHANGED <<tx, arrived, sent>>
  BY <1>1, ProcessSteps DEF nic
<1>3. PICK b, p : b = Mbuf(c) /\ p = Dest(c)
  OBVIOUS
<1>4. b \in Buffer /\ p \in Port
  BY <1>1, <1>2, <1>3, MbufHeld
<1>5. Fresh(mem[b])
  BY <1>2, <1>3 DEF ContentsInv, AtHand
<1>6. PICK m : m = ProcessPacket(mem[b].bytes, out_interface[p])
  OBVIOUS
<1>7. PICK mm \in Outcomes(m) : Engine(m, out_interface[p], mm) /\ mem' = [mem EXCEPT ![b].bytes = mm]
  BY <1>3, <1>6, Zenon DEF Process
<1>8. mem'[b] = [mem[b] EXCEPT !.bytes = mm] /\ \A y \in Buffer : y # b => mem'[y] = mem[y]
  BY <1>4, <1>7 DEF ContentsInv
<1>9. m \in Bytes /\ m.src \in Shown /\ m.dst \in Shown /\ mem'[b].bytes = mm
  BY <1>4, <1>5, <1>6, <1>7, <1>8, Rewritten
<1>10. mem[b].pkt \in Came /\ m = AtPort(mem[b].pkt, p)
  <2>1. mem[b] # None /\ mem[b].bytes = Arrival[mem[b].pkt].bytes
    BY <1>5, ForwarderAssumption DEF Fresh, Entry
  <2> QED BY <1>4, <1>6, <2>1 DEF Brought, AtPort
<1>11. /\ EngineTyped' /\ \A n \in Name : askers[n] \subseteq askers'[n]
       /\ \A f \in passing' : SomeBacked(f)' \/ Unasked(f)'
       /\ EntitledTo(p, mm)'
  <2>1. \A f \in passing : SomeBacked(f) \/ Unasked(f)
    BY DEF NamesInv
  <2> HIDE DEF SomeBacked, Unasked, EntitledTo
  <2> QED BY <1>2, <1>4, <1>7, <1>9, <1>10, <2>1, EngineFacts
<1>12. \A q \in Port, x \in Bytes : EntitledTo(q, x) => EntitledTo(q, x)'
  <2>1. Came' = Came
    BY <1>2 DEF Came
  <2> QED BY <1>11, <2>1, BackedStays
<1>13. ASSUME NEW q \in Port, NEW d \in Core, NEW y \in Buffer, On(tx'[q][d], y)
       PROVE  EntitledTo(q, mem[y].bytes)'
  <2>1. PICK x : x = mem[y].bytes
    OBVIOUS
  <2>2. On(tx[q][d], y) /\ y # b
    BY <1>2, <1>3, <1>13, AtHandOnly
  <2>3. mem[y] \in Entry
    BY <2>2 DEF ContentsInv, Made
  <2>4. x \in Bytes
    BY <2>1, <2>3 DEF Entry
  <2>5. EntitledTo(q, x)
    BY <2>1, <2>2 DEF NamesInv
  <2>6. EntitledTo(q, x)'
    BY <1>12, <2>4, <2>5
  <2> QED BY <1>8, <2>1, <2>2, <2>6
<1>14. ASSUME NEW d \in Core, pc'[d] = "transmit" PROVE EntitledTo(Dest(d), mem[Mbuf(d)].bytes)'
  <2>1. CASE d = c
    <3>1. Dest(d)' = p /\ mem'[Mbuf(d)'].bytes = mm
      BY <1>2, <1>3, <1>9, <2>1
    <3> QED BY <1>11, <3>1
  <2>2. CASE d # c
    <3>1. PICK x, q, y : x = mem[Mbuf(d)].bytes /\ q = Dest(d) /\ y = Mbuf(d)
      OBVIOUS
    <3>2. pc[d] = "transmit" /\ Dest(d)' = q /\ Mbuf(d)' = y
      BY <1>2, <1>14, <2>2, <3>1, RestsKeep DEF Rests
    <3>3. q \in Port /\ y \in Buffer /\ (Listed(d, y) \/ copy_mbuf[d] = y)
      BY <1>1, <3>1, <3>2, MbufHeld
    <3>4. y # b
      BY <1>2, <1>3, <2>2, <3>3, AtHandOnly
    <3>5. mem[y] \in Entry
      BY <3>1, <3>2 DEF ContentsInv, AtHand, Made
    <3>6. x \in Bytes
      BY <3>1, <3>5 DEF Entry
    <3>7. EntitledTo(q, x)
      BY <3>1, <3>2 DEF NamesInv
    <3>8. EntitledTo(q, x)'
      BY <1>12, <3>3, <3>6, <3>7
    <3>9. mem'[Mbuf(d)'].bytes = x
      BY <1>8, <3>1, <3>2, <3>3, <3>4
    <3> QED BY <3>2, <3>8, <3>9
  <2> QED BY <2>1, <2>2
<1> QED BY <1>11, <1>13, <1>14 DEF NamesInv

(* Arriving packets, copies and freed buffers overwrite idle buffers only. *)
LEMMA IdleRewritten ==
    ASSUME OwnInv, ContentsInv, NicReceive \/ \E c \in Core : Copy(c) \/ Transmit(c)
    PROVE  \A y \in Buffer : Idle(y) \/ mem'[y] = mem[y]
<1>1. /\ mem \in [Buffer -> Entry \cup {None}] /\ free \in [Pool -> SUBSET Buffer]
      /\ "pktmbuf_pool" \in Pool /\ "pktmbuf_pool2" \in Pool
  BY DEF OwnInv, NicTyped, ContentsInv, Pool
<1>2. CASE NicReceive
  <2>1. PICK b \in free["pktmbuf_pool"] : \E e : mem' = [mem EXCEPT ![b] = e]
    BY <1>2, Zenon DEF NicReceive
  <2>2. b \in Buffer /\ Idle(b)
    BY <1>1, IdleBuffers
  <2> QED BY <1>1, <2>1, <2>2
<1>3. ASSUME NEW c \in Core, Copy(c) PROVE \A y \in Buffer : Idle(y) \/ mem'[y] = mem[y]
  <2>1. PICK b \in free["pktmbuf_pool2"] : \E e : mem' = [mem EXCEPT ![b] = e]
    BY <1>3 DEF Copy
  <2>2. b \in Buffer /\ Idle(b)
    BY <1>1, IdleBuffers
  <2> QED BY <1>1, <2>1, <2>2
<1>4. ASSUME NEW c \in Core, Transmit(c) PROVE \A y \in Buffer : Idle(y) \/ mem'[y] = mem[y]
  <2>1. PICK p : p = Dest(c)
    OBVIOUS
  <2>2. pc[c] = "transmit" /\ TxBurst(p, c, Mbuf(c))
    BY <1>4, <2>1 DEF Transmit
  <2>3. p \in Port
    BY <2>1, <2>2, MbufHeld DEF OwnInv
  <2>4. \A y \in Buffer : y \in done[p][c] => Idle(y)
    BY <2>3, IdleBuffers
  <2>5. \/ mem' = mem
        \/ mem' = [y \in Buffer |-> IF y \in done[p][c] THEN None ELSE mem[y]]
    BY <2>2 DEF TxBurst
  <2> QED BY <1>1, <2>4, <2>5
<1> QED BY <1>2, <1>3, <1>4

(* What Transmit puts into a ring is what the core was about to send.      *)
LEMMA TransmitShows ==
    ASSUME OwnInv, NEW c \in Core, Transmit(c)
    PROVE  /\ \A p \in Port, d \in Core : \A y \in Buffer : On(tx'[p][d], y) =>
                  \/ On(tx[p][d], y)
                  \/ pc[c] = "transmit" /\ Dest(c) = p /\ Mbuf(c) = y
           /\ \A d \in Core : d # c => Rests(d)
           /\ pc'[c] # "transmit"
<1>1. PICK b, p : b = Mbuf(c) /\ p = Dest(c)
  OBVIOUS
<1>2. /\ pc[c] = "transmit" /\ NextPacket(c) /\ copy_mbuf' = [copy_mbuf EXCEPT ![c] = None]
      /\ TxBurst(p, c, b)
  BY <1>1 DEF Transmit
<1>3. (\A d \in Core : d # c => Rests(d)) /\ pc'[c] # "transmit"
  BY <1>2, NextPacketSteps DEF OwnInv
<1>4. p \in Port /\ b \in Buffer
  BY <1>1, <1>2, MbufHeld DEF OwnInv
<1>5. tx \in Queues(Seq(Buffer)) /\ tx[p][c] \in Seq(Buffer)
  BY <1>4 DEF OwnInv, NicTyped, Queues
<1>6. \A y : On(Append(tx[p][c], b), y) <=> On(tx[p][c], y) \/ y = b
  BY <1>4, <1>5, AppendOn
<1>7. tx' = [tx EXCEPT ![p][c] = Append(@, b)]
  BY <1>2 DEF TxBurst
<1>8. ASSUME NEW q \in Port, NEW d \in Core, NEW y \in Buffer, On(tx'[q][d], y)
      PROVE  On(tx[q][d], y) \/ (pc[c] = "transmit" /\ Dest(c) = q /\ Mbuf(c) = y)
  <2>1. CASE q = p /\ d = c
    <3>1. tx'[p][c] = Append(tx[p][c], b)
      BY <1>4, <1>5, <1>7 DEF Queues
    <3> QED BY <1>1, <1>2, <1>6, <1>8, <2>1, <3>1
  <2>2. CASE ~ (q = p /\ d = c)
    BY <1>4, <1>5, <1>7, <1>8, <2>2 DEF Queues
  <2> QED BY <2>1, <2>2
<1> QED BY <1>3, <1>8

(* The NICs' histories hold packets.                                       *)
LEMMA NicEngineTyped ==
    ASSUME OwnInv, ContentsInv, EngineTyped, UNCHANGED engine,
           \/ NicReceive
           \/ \E p \in Port, c \in Core : NicSend(p, c)
           \/ UNCHANGED <<arrived, sent>>
    PROVE  EngineTyped'
<1>1. arrived \in Queues(Seq(Packet)) /\ sent \in Queues(Seq(Packet))
  BY DEF EngineTyped
<1>2. \A s \in Seq(Packet), x \in Packet : Append(s, x) \in Seq(Packet)
  BY AppendProperties
<1>3. CASE NicReceive
  <2>1. PICK x \in Packet :
           /\ arrived' = [arrived EXCEPT ![Arrival[x].port][Arrival[x].core] = Append(@, x)]
           /\ UNCHANGED sent
    BY <1>3, Zenon DEF NicReceive
  <2>2. arrived' \in Queues(Seq(Packet))
    BY <1>1, <1>2, <2>1, ZenonT(60) DEF Queues
  <2> QED BY <2>1, <2>2, Zenon DEF EngineTyped, engine
<1>4. ASSUME NEW p \in Port, NEW c \in Core, NicSend(p, c) PROVE EngineTyped'
  <2>1. PICK b : b = Head(tx[p][c])
    OBVIOUS
  <2>2. /\ tx[p][c] # << >> /\ UNCHANGED arrived
        /\ sent' = [sent EXCEPT ![p][c] = Append(@, mem[b].pkt)]
    BY <1>4, <2>1, Zenon DEF NicSend
  <2>3. tx[p][c] \in Seq(Buffer) /\ Once(tx[p][c])
    BY DEF OwnInv, NicTyped, NoRepeats, Queues
  <2>4. b \in Buffer /\ On(tx[p][c], b)
    BY <2>1, <2>2, <2>3, TailOn
  <2>5. mem[b].pkt \in Packet
    BY <2>4 DEF ContentsInv, Made, Entry
  <2>6. sent' \in Queues(Seq(Packet))
    BY <1>1, <1>2, <2>2, <2>5 DEF Queues
  <2> QED BY <2>2, <2>6 DEF EngineTyped, engine
<1>5. CASE UNCHANGED <<arrived, sent>>
  BY <1>5 DEF EngineTyped, engine
<1> QED BY <1>3, <1>4, <1>5

(* No asker and no passing flow but in Init, and nothing shown.            *)
LEMMA InitNames == Init => EngineTyped /\ NamesInv
<1> SUFFICES ASSUME Init PROVE EngineTyped /\ NamesInv
  OBVIOUS
<1>1. EngineTyped
  <2>1. IsFiniteSet({}) /\ << >> \in Seq(Packet)
    BY FS_EmptySet, EmptySeq
  <2> QED BY <2>1 DEF Init, EngineTyped, Queues
<1>2. NamesInv
  <2>1. \A p \in Port, c \in Core : tx[p][c] = << >> /\ pc[c] = "poll"
    BY DEF Init
  <2> QED BY <2>1 DEF Init, NamesInv, On
<1> QED BY <1>1, <1>2

(* No step shows a name that is not backed.                                *)
LEMMA NextNames ==
    ASSUME OwnInv, ContentsInv, Brought, EngineTyped, NamesInv, [Next]_vars
    PROVE  EngineTyped' /\ NamesInv'
<1>1. InLoopInv /\ NicTyped /\ NoRepeats
  BY DEF OwnInv
<1>2. UNCHANGED engine => UNCHANGED askers /\ passing' \subseteq passing
  BY DEF engine
<1>0. Came \subseteq Came'
  BY CameGrows DEF EngineTyped
<1>3. CASE NicReceive
  <2>1. UNCHANGED <<tx, pc, loop, copy_mbuf, engine>>
    BY <1>3, Zenon DEF NicReceive
  <2>2. EngineTyped'
    BY <1>3, <2>1, NicEngineTyped
  <2>3. \A c \in Core : Dest(c)' = Dest(c) /\ Mbuf(c)' = Mbuf(c) /\ pc'[c] = pc[c]
    BY <2>1, AllRest, RestsKeep
  <2> QED BY <1>0, <1>2, <1>3, <2>1, <2>2, <2>3, IdleRewritten, NothingShown
<1>4. ASSUME NEW p \in Port, NEW c \in Core, NicSend(p, c) PROVE EngineTyped' /\ NamesInv'
  <2>1. /\ UNCHANGED <<mem, pc, loop, copy_mbuf, engine>>
        /\ tx[p][c] # << >> /\ tx' = [tx EXCEPT ![p][c] = Tail(@)]
    BY <1>4 DEF NicSend
  <2>2. EngineTyped'
    BY <1>4, <2>1, NicEngineTyped
  <2>3. \A d \in Core : Dest(d)' = Dest(d) /\ Mbuf(d)' = Mbuf(d) /\ pc'[d] = pc[d]
    BY <2>1, AllRest, RestsKeep
  <2>4. \A q \in Port, d \in Core : \A y : On(tx'[q][d], y) => On(tx[q][d], y)
    <3>1. tx \in Queues(Seq(Buffer)) /\ tx[p][c] \in Seq(Buffer) /\ Once(tx[p][c])
      BY <1>1 DEF NicTyped, NoRepeats, Queues
    <3>2. \A y : On(Tail(tx[p][c]), y) => On(tx[p][c], y)
      BY <2>1, <3>1, TailOn
    <3> QED BY <2>1, <3>1, <3>2 DEF Queues
  <2> QED BY <1>0, <1>2, <2>1, <2>2, <2>3, <2>4, NothingShown
<1>5. ASSUME NEW c \in Core, RxBurstEmpty(c) \/ RxBurst(c) \/ Copy(c) \/ Transmit(c)
      PROVE EngineTyped' /\ NamesInv'
  <2>1. UNCHANGED <<arrived, sent, engine>>
    BY <1>5 DEF RxBurstEmpty, RxBurst, Copy, Transmit, nic
  <2>2. EngineTyped'
    BY <2>1, NicEngineTyped
  <2>3. \A d \in Core : d # c => Rests(d)
    BY <1>1, <1>5, RxBurstEmptySteps, RxBurstSteps, CopySteps, TransmitShows
  <2>4. pc'[c] # "transmit"
    BY <1>1, <1>5, RxBurstEmptySteps, RxBurstSteps, CopySteps, TransmitShows
  <2>5. \A y \in Buffer : Idle(y) \/ mem'[y] = mem[y]
    <3>1. CASE RxBurstEmpty(c) \/ RxBurst(c)
      BY <3>1 DEF RxBurstEmpty, RxBurst
    <3>2. CASE Copy(c) \/ Transmit(c)
      BY <3>2, IdleRewritten
    <3> QED BY <1>5, <3>1, <3>2
  <2>6. \A p \in Port, d \in Core : \A y \in Buffer : On(tx'[p][d], y) =>
           \/ On(tx[p][d], y)
           \/ \E e \in Core : pc[e] = "transmit" /\ Dest(e) = p /\ Mbuf(e) = y
    <3>1. CASE RxBurstEmpty(c) \/ RxBurst(c) \/ Copy(c)
      BY <3>1 DEF RxBurstEmpty, RxBurst, Copy, nic
    <3>2. CASE Transmit(c)
      BY <3>2, TransmitShows
    <3> QED BY <1>5, <3>1, <3>2
  <2>7. \A d \in Core : pc'[d] = "transmit" =>
           pc[d] = "transmit" /\ Dest(d)' = Dest(d) /\ Mbuf(d)' = Mbuf(d)
    BY <2>3, <2>4, RestsKeep DEF Rests
  <2> QED BY <1>0, <1>2, <2>1, <2>2, <2>5, <2>6, <2>7, NothingShown
<1>6. ASSUME NEW c \in Core, MainLoop(c) PROVE EngineTyped' /\ NamesInv'
  BY <1>5, <1>6, ProcessNames DEF MainLoop
<1>7. CASE FlowExpires \/ UNCHANGED vars
  <2>1. UNCHANGED <<tx, mem, pc, loop, copy_mbuf, arrived, sent, askers>> /\ passing' \subseteq passing
    BY <1>7 DEF FlowExpires, vars, nic, engine
  <2>2. EngineTyped'
    BY <2>1 DEF EngineTyped
  <2>3. \A d \in Core : Dest(d)' = Dest(d) /\ Mbuf(d)' = Mbuf(d) /\ pc'[d] = pc[d]
    BY <2>1, AllRest, RestsKeep
  <2> QED BY <1>0, <2>1, <2>2, <2>3, NothingShown
<1> QED BY <1>3, <1>4, <1>6, <1>7 DEF Next

-----------------------------------------------------------------------------
(* The theorems.                                                           *)

(* The four parts together are inductive.                                  *)
IInv == OwnInv /\ ContentsInv /\ Brought /\ EngineTyped /\ NamesInv

(* They hold in every behaviour.                                           *)
LEMMA Inductive == Spec => []IInv
<1>1. Init => IInv
  BY InitOwn, InitContents, InitBrought, InitNames DEF IInv
<1>2. IInv /\ [Next]_vars => IInv'
  <2>1. ASSUME IInv, [Next]_vars PROVE OwnInv' /\ ContentsInv' /\ Brought' /\ EngineTyped' /\ NamesInv'
    <3>1. arrived \in Queues(Seq(Packet))
      BY <2>1 DEF IInv, EngineTyped
    <3> QED BY <2>1, <3>1, NextOwn, NextContents, NextBrought, NextNames DEF IInv
  <2> QED BY <2>1 DEF IInv
<1> QED BY <1>1, <1>2, PTL DEF Spec

(* What a ring holds is in the buffers.                                    *)
LEMMA InRings ==
    ASSUME IInv, NEW p \in Port, NEW c \in Core, NEW j \in DOMAIN tx[p][c]
    PROVE  /\ Made(p, mem[tx[p][c][j]])
           /\ EntitledTo(p, mem[tx[p][c][j]].bytes)
<1>1. tx[p][c] \in Seq(Buffer)
  BY DEF IInv, OwnInv, NicTyped, Queues
<1>2. tx[p][c][j] \in Buffer
  BY <1>1, ElementOfSeq, LenProperties
<1>3. On(tx[p][c], tx[p][c][j])
  BY DEF On
<1> QED BY <1>2, <1>3 DEF IInv, ContentsInv, NamesInv

(* Every variable keeps its type: main_loop's counters stay within the     *)
(* ports, the outputs and the burst they index, and process_packet         *)
(* encrypts no address twice.                                              *)
THEOREM Typing == Spec => []TypeOK
<1>1. IInv => TypeOK
  BY DEF IInv, OwnInv, InLoopInv, LoopTyped, NicTyped, ContentsInv, Entry, EngineTyped, TypeOK
<1> QED BY <1>1, Inductive, PTL

(* main_loop owns its buffers: none is lost, freed twice or kept after it  *)
(* was handed to the NIC, with any number of ports, outputs of a port,     *)
(* cores and buffers, whatever the offload frees to which pool.            *)
THEOREM BuffersOwned == Spec => []EveryBufferInOnePlace
<1>1. IInv => EveryBufferInOnePlace
  BY OwnOnePlace DEF IInv
<1> QED BY <1>1, Inductive, PTL

(* What main_loop hands to a port is what process_packet makes for it of   *)
(* the packet as it came: copies share nothing.                            *)
THEOREM MadeForThePort == Spec => []AsIfAlone
<1>1. IInv => AsIfAlone
  BY InRings, Zenon DEF AsIfAlone, Made
<1> QED BY <1>1, Inductive, PTL

(* A name that main_loop shows to a port in a DNS packet was asked for by  *)
(* as many as the port's alpha says, counted as table_add counts, by the   *)
(* addresses as the ports show them. In a TCP flow, a name of the flow was *)
(* by some port's alpha, or multiplexer_proto let the flow pass without    *)
(* asking: for a packet without a name, or as external_ip's verdict.       *)
THEOREM NamesBacked == Spec => []NameBacked
<1>1. ASSUME IInv PROVE NameBacked
  <2>1. ASSUME NEW p \in Port, NEW c \in Core, NEW j \in DOMAIN tx[p][c]
        PROVE  LET m == mem[tx[p][c][j]].bytes
               IN  Managed(m, out_interface[p]) /\ m.found /\ m.readable =>
                     IF m.proto = "udp" THEN Backed(m.name, out_interface[p].alpha)
                     ELSE Granted(FlowOf(m)) \/ Unasked(FlowOf(m))
    <3>1. EntitledTo(p, mem[tx[p][c][j]].bytes)
      BY <1>1, InRings
    <3>2. \A n, alpha : BackedBy(askers[n], alpha) <=> Backed(n, alpha)
      BY DEF BackedBy, Backed
    <3>3. \A f : SomeBacked(f) => Granted(f)
      BY <3>2, Zenon DEF SomeBacked, Granted
    <3> QED BY <3>1, <3>2, <3>3, Zenon DEF EntitledTo
  <2> QED BY <2>1, Zenon DEF NameBacked
<1> QED BY <1>1, Inductive, PTL

-----------------------------------------------------------------------------
(* A line: what has left by a port and what waits there.                   *)

(* Of q's packets that came, the first n are in the line, in that order.   *)
SentUpTo(left, came, q, n) == n \in 0..Len(came) /\ InLine(left, came, q, n)

(* What came to q came once, and to q.                                     *)
CameOnce(came, q) ==
    /\ \A m, o \in DOMAIN came : came[m] = came[o] => m = o
    /\ \A m \in DOMAIN came : Arrival[came[m]].port = q

(* A packet from another input leaves q's line as it was.                  *)
LEMMA OtherJoins ==
    ASSUME NEW left \in Seq(Packet), NEW came \in Seq(Packet), NEW q, NEW n,
           SentUpTo(left, came, q, n), CameOnce(came, q),
           NEW z \in Packet, Arrival[z].port # q
    PROVE  SentUpTo(Append(left, z), came, q, n)
<1>1. PICK r : r = Append(left, z)
  OBVIOUS
<1>2. /\ Len(left) \in Nat /\ DOMAIN left = 1..Len(left) /\ DOMAIN r = 1..(Len(left) + 1)
      /\ \A i \in 1..Len(left) : r[i] = left[i]
      /\ r[Len(left) + 1] = z
      /\ Range(r) = Range(left) \cup {z}
  BY <1>1, AppendRange
<1>3. {y \in Range(r) : Arrival[y].port = q} = {y \in Range(left) : Arrival[y].port = q}
  BY <1>2
<1>4. ASSUME NEW h \in DOMAIN r, NEW j \in DOMAIN r, NEW m \in DOMAIN came, NEW o \in DOMAIN came,
             r[h] = came[m], r[j] = came[o]
      PROVE  h < j <=> m < o
  <2>1. r[h] # z /\ r[j] # z
    BY <1>4 DEF CameOnce
  <2>2. h \in DOMAIN left /\ j \in DOMAIN left
    BY <1>2, <2>1
  <2>3. left[h] = came[m] /\ left[j] = came[o]
    BY <1>2, <1>4, <2>2
  <2> QED BY <2>2, <2>3 DEF SentUpTo, InLine
<1> QED BY <1>1, <1>3, <1>4 DEF SentUpTo, InLine

(* The next packet from q joins q's line at the end.                       *)
LEMMA NextJoins ==
    ASSUME NEW left \in Seq(Packet), NEW came \in Seq(Packet), NEW q, NEW n,
           SentUpTo(left, came, q, n), CameOnce(came, q), n + 1 \in DOMAIN came
    PROVE  SentUpTo(Append(left, came[n + 1]), came, q, n + 1)
<1>1. PICK z : z = came[n + 1]
  OBVIOUS
<1>2. /\ Len(came) \in Nat /\ DOMAIN came = 1..Len(came) /\ z \in Packet /\ n \in Nat
      /\ Arrival[z].port = q
  BY <1>1, LenProperties, ElementOfSeq DEF SentUpTo, InLine, CameOnce
<1>3. PICK r : r = Append(left, z)
  OBVIOUS
<1>4. /\ Len(left) \in Nat /\ DOMAIN left = 1..Len(left) /\ DOMAIN r = 1..(Len(left) + 1)
      /\ \A i \in 1..Len(left) : r[i] = left[i]
      /\ r[Len(left) + 1] = z
      /\ Range(r) = Range(left) \cup {z}
  BY <1>2, <1>3, AppendRange
<1>5. {y \in Range(r) : Arrival[y].port = q} = {y \in Range(left) : Arrival[y].port = q} \cup {z}
  BY <1>2, <1>4
<1>6. {came[m] : m \in 1..(n + 1)} = {came[m] : m \in 1..n} \cup {z}
  <2>1. 1..(n + 1) = (1..n) \cup {n + 1}
    BY <1>2
  <2> QED BY <1>1, <2>1
<1>7. \A j \in DOMAIN left, o \in DOMAIN came : left[j] = came[o] => o \in 1..n
  <2>1. ASSUME NEW j \in DOMAIN left, NEW o \in DOMAIN came, left[j] = came[o] PROVE o \in 1..n
    <3>1. left[j] \in Range(left) /\ Arrival[left[j]].port = q
      BY <2>1 DEF Range, CameOnce
    <3>2. PICK m \in 1..n : came[o] = came[m]
      BY <2>1, <3>1 DEF SentUpTo, InLine
    <3>3. m \in DOMAIN came
      BY <1>2 DEF SentUpTo, InLine
    <3>4. o = m
      BY <3>2, <3>3 DEF CameOnce
    <3> QED BY <3>4
  <2> QED BY <2>1
<1>8. \A o \in DOMAIN came : came[o] = z => o = n + 1
  BY <1>1 DEF CameOnce
<1>9. ASSUME NEW h \in DOMAIN r, NEW j \in DOMAIN r, NEW m \in DOMAIN came, NEW o \in DOMAIN came,
             r[h] = came[m], r[j] = came[o]
      PROVE  h < j <=> m < o
  <2>1. h \in DOMAIN left \/ h = Len(left) + 1
    BY <1>4
  <2>2. j \in DOMAIN left \/ j = Len(left) + 1
    BY <1>4
  <2>3. CASE h \in DOMAIN left /\ j \in DOMAIN left
    <3>1. left[h] = came[m] /\ left[j] = came[o]
      BY <1>4, <1>9, <2>3
    <3> QED BY <2>3, <3>1 DEF SentUpTo, InLine
  <2>4. CASE h \in DOMAIN left /\ j = Len(left) + 1
    <3>1. m \in 1..n /\ o = n + 1
      BY <1>4, <1>7, <1>8, <1>9, <2>4
    <3> QED BY <1>2, <1>4, <2>4, <3>1
  <2>5. CASE h = Len(left) + 1 /\ j \in DOMAIN left
    <3>1. m = n + 1 /\ o \in 1..n
      BY <1>4, <1>7, <1>8, <1>9, <2>5
    <3> QED BY <1>2, <1>4, <2>5, <3>1
  <2>6. CASE h = Len(left) + 1 /\ j = Len(left) + 1
    <3>1. m = n + 1 /\ o = n + 1
      BY <1>4, <1>8, <1>9, <2>6
    <3> QED BY <1>2, <1>4, <2>6, <3>1
  <2> QED BY <2>1, <2>2, <2>3, <2>4, <2>5, <2>6
<1>10. n + 1 \in 0..Len(came)
  BY <1>2
<1> QED BY <1>1, <1>3, <1>5, <1>6, <1>9, <1>10, SMTT(60) DEF SentUpTo, InLine

(* A packet that comes to q now is in no line yet.                         *)
LEMMA OneMoreComes ==
    ASSUME NEW left \in Seq(Packet), NEW came \in Seq(Packet), NEW q, NEW n,
           SentUpTo(left, came, q, n), CameOnce(came, q),
           NEW x \in Packet, x \notin Range(came), Arrival[x].port = q
    PROVE  /\ SentUpTo(left, Append(came, x), q, n)
           /\ CameOnce(Append(came, x), q)
<1>1. PICK r : r = Append(came, x)
  OBVIOUS
<1>2. /\ Len(came) \in Nat /\ DOMAIN came = 1..Len(came) /\ DOMAIN r = 1..(Len(came) + 1)
      /\ \A i \in 1..Len(came) : r[i] = came[i]
      /\ r[Len(came) + 1] = x /\ Len(r) = Len(came) + 1
  BY <1>1, AppendRange
<1>3. \A m \in DOMAIN came : came[m] # x
  BY DEF Range
<1>4. CameOnce(r, q)
  <2>1. \A m \in DOMAIN r : Arrival[r[m]].port = q
    BY <1>2 DEF CameOnce
  <2>2. ASSUME NEW m \in DOMAIN r, NEW o \in DOMAIN r, r[m] = r[o] PROVE m = o
    BY <1>2, <1>3, <2>2 DEF CameOnce
  <2> QED BY <2>1, <2>2 DEF CameOnce
<1>5. n \in 0..Len(came) /\ n \in 0..Len(r)
  BY <1>2 DEF SentUpTo, InLine
<1>6. {r[m] : m \in 1..n} = {came[m] : m \in 1..n}
  BY <1>2, <1>5
<1>7. \A h \in DOMAIN left : left[h] # x
  <2>1. ASSUME NEW h \in DOMAIN left, left[h] = x PROVE FALSE
    <3>1. x \in {z \in Range(left) : Arrival[z].port = q}
      BY <2>1 DEF Range
    <3>2. x \in {came[m] : m \in 1..n}
      BY <3>1 DEF SentUpTo, InLine
    <3> QED BY <1>2, <1>3, <1>5, <3>2
  <2> QED BY <2>1
<1>8. ASSUME NEW h \in DOMAIN left, NEW j \in DOMAIN left, NEW m \in DOMAIN r, NEW o \in DOMAIN r,
             left[h] = r[m], left[j] = r[o]
      PROVE  h < j <=> m < o
  <2>1. m \in DOMAIN came /\ o \in DOMAIN came
    BY <1>2, <1>7, <1>8
  <2>2. left[h] = came[m] /\ left[j] = came[o]
    BY <1>2, <1>8, <2>1
  <2> QED BY <2>1, <2>2 DEF SentUpTo, InLine
<1>9. SentUpTo(left, r, q, n)
  BY <1>5, <1>6, <1>8 DEF SentUpTo, InLine
<1> QED BY <1>1, <1>4, <1>9

(* What is sent leaves the ring and joins what has left: the line stays.   *)
LEMMA HeadGoesOver ==
    ASSUME NEW u \in Seq(Packet), NEW v \in Seq(Packet), v # << >>
    PROVE  Append(u, Head(v)) \o Tail(v) = u \o v
<1>1. PICK z, t : z = Head(v) /\ t = Tail(v)
  OBVIOUS
<1>2. /\ z \in Packet /\ t \in Seq(Packet) /\ Len(t) = Len(v) - 1
      /\ \A i \in 1..Len(t) : t[i] = v[i + 1]
  BY ONLY <1>1, v \in Seq(Packet), v # << >>, HeadTailProperties, Zenon
<1>3. z = v[1] /\ Len(v) \in Nat /\ Len(v) # 0
  BY <1>1, LenProperties, EmptySeq
<1>4. PICK r : r = Append(u, z)
  OBVIOUS
<1>5. /\ r \in Seq(Packet) /\ Len(u) \in Nat /\ Len(r) = Len(u) + 1
      /\ \A i \in 1..Len(u) : r[i] = u[i]
      /\ r[Len(u) + 1] = z
  BY <1>2, <1>4, AppendRange
<1>6. /\ r \o t \in Seq(Packet) /\ Len(r \o t) = Len(r) + Len(t)
      /\ \A i \in 1..Len(r) + Len(t) : (r \o t)[i] = IF i <= Len(r) THEN r[i] ELSE t[i - Len(r)]
  BY ONLY <1>2, <1>5, ConcatProperties, Zenon
<1>7. /\ u \o v \in Seq(Packet) /\ Len(u \o v) = Len(u) + Len(v)
      /\ \A i \in 1..Len(u) + Len(v) : (u \o v)[i] = IF i <= Len(u) THEN u[i] ELSE v[i - Len(u)]
  BY ONLY u \in Seq(Packet), v \in Seq(Packet), ConcatProperties, Zenon
<1>8. PICK a, b : a = r \o t /\ b = u \o v
  OBVIOUS
<1>9. Len(a) = Len(b)
  <2>1. Len(a) = Len(r) + Len(t)
    BY ONLY <1>6, <1>8, Zenon
  <2>2. Len(b) = Len(u) + Len(v)
    BY ONLY <1>7, <1>8, Zenon
  <2>3. Len(r) = Len(u) + 1 /\ Len(t) = Len(v) - 1 /\ Len(u) \in Nat /\ Len(v) \in Nat
    BY <1>2, <1>3, <1>5
  <2> QED BY ONLY <2>1, <2>2, <2>3
<1>10. ASSUME NEW i \in 1..Len(a) PROVE a[i] = b[i]
  <2>1. i \in 1..Len(u) + Len(v) /\ i \in 1..Len(r) + Len(t)
    BY <1>6, <1>7, <1>8, <1>9
  <2>2. a[i] = IF i <= Len(r) THEN r[i] ELSE t[i - Len(r)]
    BY ONLY <1>6, <1>8, <2>1
  <2>3. b[i] = IF i <= Len(u) THEN u[i] ELSE v[i - Len(u)]
    BY ONLY <1>7, <1>8, <2>1
  <2>4. CASE i <= Len(u)
    <3>1. i \in 1..Len(u) /\ i <= Len(r)
      BY <1>5, <1>9, <2>1, <2>4
    <3> QED BY <1>5, <2>2, <2>3, <3>1
  <2>5. CASE i = Len(u) + 1
    BY <1>3, <1>5, <2>2, <2>3, <2>5
  <2>6. CASE i > Len(u) + 1
    <3>1. i - Len(r) \in 1..Len(t) /\ (i - Len(r)) + 1 = i - Len(u) /\ ~ (i <= Len(r)) /\ ~ (i <= Len(u))
      BY <1>2, <1>3, <1>5, <2>1, <2>6
    <3>2. t[i - Len(r)] = v[i - Len(u)]
      BY <1>2, <3>1
    <3> QED BY <2>2, <2>3, <3>1, <3>2
  <2> QED BY <1>5, <2>1, <2>4, <2>5, <2>6
<1>11. a = b
  <2>1. a \in Seq(Packet) /\ b \in Seq(Packet)
    BY ONLY <1>6, <1>7, <1>8
  <2> QED BY ONLY <1>9, <1>10, <2>1, SeqEqual, Zenon
<1> QED BY <1>1, <1>4, <1>8, <1>11

(* What joins the ring joins the line.                                     *)
LEMMA EndsWith ==
    ASSUME NEW u \in Seq(Packet), NEW v \in Seq(Packet), NEW z \in Packet
    PROVE  u \o Append(v, z) = Append(u \o v, z)
<1>1. PICK r, b : r = Append(v, z) /\ b = u \o v
  OBVIOUS
<1>2. /\ b \in Seq(Packet) /\ Len(b) = Len(u) + Len(v) /\ Len(u) \in Nat
      /\ \A i \in 1..Len(u) + Len(v) : b[i] = IF i <= Len(u) THEN u[i] ELSE v[i - Len(u)]
  BY <1>1, ConcatProperties, LenProperties
<1>3. /\ r \in Seq(Packet) /\ Len(v) \in Nat /\ Len(r) = Len(v) + 1
      /\ \A i \in 1..Len(v) : r[i] = v[i]
      /\ r[Len(v) + 1] = z
  BY <1>1, AppendRange
<1>4. PICK a, d : a = u \o r /\ d = Append(b, z)
  OBVIOUS
<1>5. /\ a \in Seq(Packet) /\ Len(a) = Len(u) + Len(r)
      /\ \A i \in 1..Len(u) + Len(r) : a[i] = IF i <= Len(u) THEN u[i] ELSE r[i - Len(u)]
  <2>1. /\ u \o r \in Seq(Packet) /\ Len(u \o r) = Len(u) + Len(r)
        /\ \A i \in 1..Len(u) + Len(r) : (u \o r)[i] = IF i <= Len(u) THEN u[i] ELSE r[i - Len(u)]
    BY ONLY u \in Seq(Packet), <1>3, ConcatProperties, Zenon
  <2> QED BY ONLY <1>4, <2>1
<1>6. /\ d \in Seq(Packet) /\ Len(d) = Len(b) + 1
      /\ \A i \in 1..Len(b) : d[i] = b[i]
      /\ d[Len(b) + 1] = z
  BY <1>2, <1>4, AppendRange
<1>7. ASSUME NEW i \in 1..Len(a) PROVE a[i] = d[i]
  <2>1. a[i] = IF i <= Len(u) THEN u[i] ELSE r[i - Len(u)]
    BY <1>5
  <2>2. CASE i = Len(b) + 1
    BY <1>2, <1>3, <1>6, <2>1, <2>2
  <2>3. CASE i # Len(b) + 1
    <3>1. i \in 1..Len(b) /\ i \in 1..Len(u) + Len(v)
      <4>1. Len(a) = Len(b) + 1 /\ Len(b) = Len(u) + Len(v) /\ Len(b) \in Nat
        BY ONLY <1>2, <1>3, <1>5
      <4>2. i \in 1..Len(b)
        BY ONLY <2>3, <4>1, i \in 1..Len(a)
      <4> QED BY ONLY <4>1, <4>2
    <3>2. d[i] = IF i <= Len(u) THEN u[i] ELSE v[i - Len(u)]
      BY <1>2, <1>6, <3>1
    <3>3. ~ (i <= Len(u)) => i - Len(u) \in 1..Len(v)
      BY <1>2, <1>3, <3>1
    <3> QED BY <1>3, <2>1, <3>2, <3>3
  <2> QED BY <2>2, <2>3
<1>8. Len(a) = Len(d)
  <2>1. Len(b) = Len(u) + Len(v) /\ Len(r) = Len(v) + 1 /\ Len(u) \in Nat /\ Len(v) \in Nat
    BY ONLY <1>2, <1>3
  <2>2. Len(a) = Len(u) + Len(r) /\ Len(d) = Len(b) + 1
    BY ONLY <1>5, <1>6
  <2> QED BY ONLY <2>1, <2>2
<1>9. a = d
  <2>1. a \in Seq(Packet) /\ d \in Seq(Packet)
    BY ONLY <1>5, <1>6
  <2> QED BY ONLY <1>7, <1>8, <2>1, SeqEqual, Zenon
<1> QED BY <1>1, <1>4, <1>9

-----------------------------------------------------------------------------
(* The invariant: how far q's packets have come on core c.                 *)

(* Packets of q that the core has polled, of the port that it polled last  *)
(* those before its burst, and those that it has put into q's d-th line.   *)
Fetched(q, c) == Len(arrived[q][c]) - Len(rx[q][c])
Before(c)     == Fetched(In(c), c) - Len(pkts_burst[c])

Through(q, c, d) ==
    IF In(c) # q \/ d < dest_cnt[c] THEN Fetched(q, c)
    ELSE IF d = dest_cnt[c] THEN Before(c) + k[c] - 1 ELSE Before(c)

(* The receive queue holds the last packets that came.                     *)
QueueInOrder(q, c) ==
    /\ CameOnce(arrived[q][c], q)
    /\ Fetched(q, c) \in Nat
    /\ \A n \in DOMAIN rx[q][c] : mem[rx[q][c][n]].pkt = arrived[q][c][Fetched(q, c) + n]

(* The burst holds the last ones fetched; at hand is the k-th of them.     *)
HandInOrder(c) ==
    /\ Before(c) \in Nat
    /\ \A n \in Live(c) : mem[pkts_burst[c][n]].pkt = arrived[In(c)][c][Before(c) + n]
    /\ pc[c] \in {"process", "transmit"} =>
         mem[Mbuf(c)].pkt = arrived[In(c)][c][Before(c) + k[c]]

LineInOrder(q, c, d) ==
    IsInjective(OutPort[q]) =>
        SentUpTo(Line(OutPort[q][d], c), arrived[q][c], q, Through(q, c, d))

InOrder(c) ==
    /\ HandInOrder(c)
    /\ \A q \in Input : /\ QueueInOrder(q, c)
                        /\ \A d \in DOMAIN OutPort[q] : LineInOrder(q, c, d)

OrderInv == \A c \in Core : InOrder(c)

(* The contents of buffers that anything depends on stay.                  *)
Quiet == \A y \in Buffer : Idle(y) \/ mem'[y].pkt = mem[y].pkt

(* What waits in a ring is a sequence of packets.                          *)
LEMMA WaitsFacts ==
    ASSUME OwnInv, ContentsInv, EngineTyped, NEW p \in Port, NEW c \in Core
    PROVE  /\ tx[p][c] \in Seq(Buffer) /\ DOMAIN tx[p][c] = 1..Len(tx[p][c])
           /\ Waits(p, c) \in Seq(Packet) /\ Len(Waits(p, c)) = Len(tx[p][c])
           /\ \A j \in 1..Len(tx[p][c]) : Waits(p, c)[j] = mem[tx[p][c][j]].pkt
           /\ \A j \in 1..Len(tx[p][c]) : tx[p][c][j] \in Buffer /\ On(tx[p][c], tx[p][c][j])
           /\ sent[p][c] \in Seq(Packet) /\ Line(p, c) \in Seq(Packet)
<1>1. tx[p][c] \in Seq(Buffer)
  BY DEF OwnInv, NicTyped, Queues
<1>2. DOMAIN tx[p][c] = 1..Len(tx[p][c]) /\ Len(tx[p][c]) \in Nat
  BY <1>1, LenProperties
<1>3. \A j \in 1..Len(tx[p][c]) : tx[p][c][j] \in Buffer /\ On(tx[p][c], tx[p][c][j])
  BY <1>1, <1>2, ElementOfSeq DEF On
<1>4. \A j \in 1..Len(tx[p][c]) : mem[tx[p][c][j]].pkt \in Packet
  BY <1>3 DEF ContentsInv, Made, Entry
<1>5. Waits(p, c) = [j \in 1..Len(tx[p][c]) |-> mem[tx[p][c][j]].pkt]
  BY <1>2 DEF Waits
<1>6. Waits(p, c) \in Seq(Packet) /\ Len(Waits(p, c)) = Len(tx[p][c])
  BY <1>2, <1>4, <1>5
<1>7. sent[p][c] \in Seq(Packet)
  BY DEF EngineTyped, Queues
<1>8. Line(p, c) \in Seq(Packet)
  BY <1>6, <1>7, ConcatProperties DEF Line
<1> QED BY <1>1, <1>2, <1>3, <1>5, <1>6, <1>7, <1>8

(* A ring that nobody touches.                                             *)
LEMMA LineStays ==
    ASSUME OwnInv, ContentsInv, EngineTyped, NEW p \in Port, NEW c \in Core,
           tx'[p][c] = tx[p][c], sent'[p][c] = sent[p][c], Quiet
    PROVE  Line(p, c)' = Line(p, c)
<1>1. \A j \in DOMAIN tx[p][c] : mem'[tx[p][c][j]].pkt = mem[tx[p][c][j]].pkt
  <2>1. ASSUME NEW j \in DOMAIN tx[p][c] PROVE mem'[tx[p][c][j]].pkt = mem[tx[p][c][j]].pkt
    <3>1. tx[p][c][j] \in Buffer /\ On(tx[p][c], tx[p][c][j])
      BY WaitsFacts
    <3> QED BY <3>1 DEF Quiet, Idle
  <2> QED BY <2>1
<1>2. Waits(p, c)' = Waits(p, c)
  BY <1>1 DEF Waits
<1> QED BY <1>2 DEF Line

(* A receive queue that nobody touches.                                    *)
LEMMA QueueStays ==
    ASSUME OwnInv, NEW q \in Port, NEW c \in Core,
           rx'[q][c] = rx[q][c], arrived'[q][c] = arrived[q][c], Quiet
    PROVE  /\ Fetched(q, c)' = Fetched(q, c)
           /\ QueueInOrder(q, c) => QueueInOrder(q, c)'
<1>1. Fetched(q, c)' = Fetched(q, c)
  BY DEF Fetched
<1>2. rx[q][c] \in Seq(Buffer)
  BY DEF OwnInv, NicTyped, Queues
<1>3. \A n \in DOMAIN rx[q][c] : mem'[rx[q][c][n]].pkt = mem[rx[q][c][n]].pkt
  <2>1. ASSUME NEW n \in DOMAIN rx[q][c] PROVE mem'[rx[q][c][n]].pkt = mem[rx[q][c][n]].pkt
    <3>1. rx[q][c][n] \in Buffer /\ On(rx[q][c], rx[q][c][n])
      BY <1>2, <2>1, ElementOfSeq, LenProperties DEF On
    <3> QED BY <3>1 DEF Quiet, Idle
  <2> QED BY <2>1
<1> QED BY <1>1, <1>3 DEF QueueInOrder, CameOnce

(* A core that does nothing, when at most something comes to the queues,  *)
(* is at the same packet.                                                  *)
LEMMA HandStays ==
    ASSUME OwnInv, NEW c \in Core, Rests(c), InOrder(c), Quiet,
           \A q \in Input : /\ Fetched(q, c)' = Fetched(q, c)
                            /\ \A m \in 1..Fetched(q, c) : arrived'[q][c][m] = arrived[q][c][m]
    PROVE  HandInOrder(c)'
<1>1. LoopTyped /\ InLoop(c) /\ HandInOrder(c)
  BY DEF OwnInv, InLoopInv, InOrder
<1>2. /\ In(c)' = In(c) /\ pkts_burst'[c] = pkts_burst[c] /\ k'[c] = k[c] /\ pc'[c] = pc[c]
      /\ Live(c)' = Live(c) /\ Mbuf(c)' = Mbuf(c)
  BY RestsKeep DEF Rests, In
<1>3. PICK q \in Input : q = In(c)
  BY <1>1, OutsFacts
<1>4. PICK a, b : a = arrived[q][c] /\ b = arrived'[q][c]
  OBVIOUS
<1>5. Fetched(q, c)' = Fetched(q, c) /\ \A m \in 1..Fetched(q, c) : b[m] = a[m]
  BY <1>4
<1>6. pkts_burst[c] \in Seq(Buffer) /\ Fetched(q, c) \in Nat
  BY <1>1 DEF LoopTyped, InOrder, QueueInOrder
<1>7. /\ Len(pkts_burst[c]) \in Nat /\ DOMAIN pkts_burst[c] = 1..Len(pkts_burst[c])
      /\ \A n \in DOMAIN pkts_burst[c] : pkts_burst[c][n] \in Buffer
  BY <1>6, LenProperties, ElementOfSeq
<1>8. /\ Before(c)' = Before(c) /\ Before(c) = Fetched(q, c) - Len(pkts_burst[c])
      /\ Before(c) \in Nat
  BY <1>1, <1>2, <1>3, <1>5 DEF Before, Fetched, HandInOrder
<1>9. \A n \in 1..Len(pkts_burst[c]) : b[Before(c) + n] = a[Before(c) + n]
  <2>1. \A n \in 1..Len(pkts_burst[c]) : Before(c) + n \in 1..Fetched(q, c)
    BY <1>6, <1>7, <1>8, SMTT(60)
  <2> QED BY <1>5, <2>1
<1>10. \A n \in Live(c) : mem'[pkts_burst[c][n]].pkt = b[Before(c) + n]
  <2>1. ASSUME NEW n \in Live(c) PROVE mem'[pkts_burst[c][n]].pkt = b[Before(c) + n]
    <3>1. n \in 1..Len(pkts_burst[c]) /\ pkts_burst[c][n] \in Buffer
      BY <1>7 DEF Live
    <3>2. Listed(c, pkts_burst[c][n])
      BY DEF Listed
    <3>3. mem'[pkts_burst[c][n]].pkt = mem[pkts_burst[c][n]].pkt
      BY <3>1, <3>2 DEF Quiet, Idle
    <3>4. mem[pkts_burst[c][n]].pkt = a[Before(c) + n]
      BY <1>1, <1>3, <1>4 DEF HandInOrder
    <3> QED BY <1>9, <3>1, <3>3, <3>4
  <2> QED BY <2>1
<1>11. pc[c] \in {"process", "transmit"} => mem'[Mbuf(c)].pkt = b[Before(c) + k[c]]
  <2>1. ASSUME pc[c] \in {"process", "transmit"} PROVE mem'[Mbuf(c)].pkt = b[Before(c) + k[c]]
    <3>1. Mbuf(c) \in Buffer
      BY <2>1, MbufHeld DEF OwnInv
    <3>2. mem'[Mbuf(c)].pkt = mem[Mbuf(c)].pkt
      BY <2>1, <3>1 DEF Quiet, Idle
    <3>3. k[c] \in 1..Len(pkts_burst[c])
      BY <1>1, <2>1 DEF InLoop
    <3>4. mem[Mbuf(c)].pkt = a[Before(c) + k[c]]
      BY <1>1, <1>3, <1>4, <2>1 DEF HandInOrder
    <3> QED BY <1>9, <3>2, <3>3, <3>4
  <2> QED BY <2>1
<1> QED BY <1>2, <1>3, <1>4, <1>8, <1>10, <1>11 DEF HandInOrder

(* As long as its counters stay it has put as many packets into each line. *)
LEMMA ThroughStays ==
    ASSUME NEW q \in Input, NEW c \in Core, NEW d,
           port_cnt'[c] = port_cnt[c], dest_cnt'[c] = dest_cnt[c], k'[c] = k[c],
           pkts_burst'[c] = pkts_burst[c],
           Fetched(q, c)' = Fetched(q, c)
    PROVE  Through(q, c, d)' = Through(q, c, d)
<1>1. In(c)' = In(c)
  BY DEF In
<1>2. CASE In(c) # q
  BY <1>1, <1>2 DEF Through
<1>3. CASE In(c) = q
  <2>1. Before(c)' = Before(c)
    BY <1>1, <1>3 DEF Before, Fetched
  <2> QED BY <1>1, <2>1 DEF Through
<1> QED BY <1>2, <1>3

(* Nothing came and nothing left.                                          *)
LEMMA LineInOrderStays ==
    ASSUME NEW q \in Input, NEW c \in Core, NEW d \in DOMAIN OutPort[q], LineInOrder(q, c, d),
           Line(OutPort[q][d], c)' = Line(OutPort[q][d], c),
           arrived'[q][c] = arrived[q][c], Through(q, c, d)' = Through(q, c, d)
    PROVE  LineInOrder(q, c, d)'
BY DEF LineInOrder, SentUpTo, InLine

(* An output of an input port.                                             *)
LEMMA OutputFacts ==
    ASSUME NEW q \in Input, NEW d \in DOMAIN OutPort[q]
    PROVE  /\ q \in Port /\ OutPort[q][d] \in Port /\ d \in Nat /\ d >= 1 /\ d <= Len(OutPort[q])
           /\ DOMAIN OutPort[q] = 1..Len(OutPort[q]) /\ Len(OutPort[q]) \in Nat
<1>1. OutPort[q] \in Seq(Port)
  BY ForwarderAssumption
<1>2. DOMAIN OutPort[q] = 1..Len(OutPort[q]) /\ Len(OutPort[q]) \in Nat
  BY <1>1, LenProperties
<1>3. OutPort[q][d] \in Port
  BY <1>1, <1>2, ElementOfSeq
<1> QED BY <1>2, <1>3, InputIsPort

(* A core that polls has put all that it fetched into the lines.           *)
Polls(c) == InLoopInv /\ pc[c] = "poll" /\ \A q \in Input : Fetched(q, c) \in Nat

AllThrough(c) ==
    /\ \A q \in Input : \A d \in DOMAIN OutPort[q] : Through(q, c, d) = Fetched(q, c)
    /\ Before(c) = Fetched(In(c), c) /\ Before(c) \in Nat /\ Live(c) = {}

(* A core that polls has nothing left in any line of its.                  *)
LEMMA PollingThrough == \A c \in Core : Polls(c) => AllThrough(c)
<1> SUFFICES ASSUME NEW c \in Core, Polls(c) PROVE AllThrough(c)
  OBVIOUS
<1>1. LoopTyped /\ dest_cnt[c] = 1 /\ k[c] = 1 /\ pkts_burst[c] = << >>
  BY DEF Polls, InLoopInv, InLoop
<1>2. In(c) \in Input
  BY <1>1, OutsFacts
<1>3. Before(c) = Fetched(In(c), c) /\ Before(c) \in Nat
  <2>1. Len(pkts_burst[c]) = 0
    BY <1>1
  <2>2. Fetched(In(c), c) \in Nat
    BY <1>2 DEF Polls
  <2> QED BY <2>1, <2>2 DEF Before
<1>4. ASSUME NEW q \in Input, NEW d \in DOMAIN OutPort[q] PROVE Through(q, c, d) = Fetched(q, c)
  <2>1. Fetched(q, c) \in Nat /\ d \in Nat /\ d >= 1
    BY OutputFacts DEF Polls
  <2>2. In(c) = q => Before(c) = Fetched(q, c)
    BY <1>3
  <2> QED BY <1>1, <2>1, <2>2 DEF Through
<1>5. Live(c) = {}
  BY <1>1 DEF Live
<1> QED BY <1>3, <1>4, <1>5 DEF AllThrough

(* The same of the state a step leads to.                                  *)
LEMMA PollingNext == \A c \in Core : Polls(c)' => AllThrough(c)'
<1>1. (\A c \in Core : Polls(c) => AllThrough(c))'
  BY PollingThrough, PTL
<1> QED BY <1>1

(* Of the lines, transmitting lengthens the one it is at, by one packet.   *)
LEMMA TransmitMoves ==
    ASSUME InLoopInv, NEW c \in Core, pc[c] = "transmit", NextPacket(c),
           copy_mbuf' = [copy_mbuf EXCEPT ![c] = None],
           \A q \in Input : Fetched(q, c) \in Nat,
           \A q \in Input : Fetched(q, c)' = Fetched(q, c),
           \A q \in Input : arrived'[q][c] = arrived[q][c],
           HandInOrder(c), Quiet, OwnInv
    PROVE  /\ HandInOrder(c)'
           /\ \A q \in Input : \A d \in DOMAIN OutPort[q] :
                 Through(q, c, d)' = IF q = In(c) /\ d = dest_cnt[c] THEN Through(q, c, d) + 1
                                                                    ELSE Through(q, c, d)
<1>1. /\ InLoopInv' /\ pc'[c] # "transmit"
      /\ Live(c)' = IF IsLast(c) THEN Live(c) \ {k[c]} ELSE Live(c)
      /\ \A x \in Live(c)' : pkts_burst'[c][x] = pkts_burst[c][x]
  BY NextPacketSteps
<1>2. LoopTyped /\ InLoop(c) /\ LoopTyped' /\ InLoop(c)'
  BY <1>1 DEF InLoopInv
<1>3. /\ dest_cnt[c] \in 1..Len(Outs(c)) /\ k[c] \in 1..Len(pkts_burst[c])
      /\ Len(pkts_burst[c]) \in Nat /\ DOMAIN pkts_burst[c] = 1..Len(pkts_burst[c])
  BY <1>2, Current
<1>4. In(c) \in Input /\ Outs(c) = OutPort[In(c)]
  BY <1>2, OutsFacts DEF Outs
<1>5. /\ pc \in [Core -> Labels] /\ port_cnt \in [Core -> DOMAIN InPort]
      /\ dest_cnt \in [Core -> Nat] /\ k \in [Core -> Nat] /\ pkts_burst \in [Core -> Seq(Buffer)]
  BY <1>2 DEF LoopTyped
<1>6. Before(c) \in Nat /\ Before(c) + Len(pkts_burst[c]) = Fetched(In(c), c)
  BY <1>3, <1>4 DEF HandInOrder, Before
<1>7. CASE k[c] < Len(pkts_burst[c]) \/ ~ IsLast(c)
  <2>1. port_cnt' = port_cnt /\ pkts_burst' = pkts_burst
    BY <1>7 DEF NextPacket
  <2>2. In(c)' = In(c) /\ Before(c)' = Before(c) /\ arrived'[In(c)'][c] = arrived[In(c)][c]
    BY <1>4, <2>1 DEF In, Before
  <2>3. \A n \in Live(c)' : mem'[pkts_burst'[c][n]].pkt = arrived'[In(c)'][c][Before(c)' + n]
    <3>1. ASSUME NEW n \in Live(c)' PROVE mem'[pkts_burst'[c][n]].pkt = arrived'[In(c)'][c][Before(c)' + n]
      <4>1. n \in Live(c) /\ n \in DOMAIN pkts_burst[c]
        BY <1>1, <3>1 DEF Live
      <4>2. pkts_burst[c][n] \in Buffer /\ Listed(c, pkts_burst[c][n])
        BY <1>3, <1>5, <4>1, ElementOfSeq DEF Listed
      <4>3. mem'[pkts_burst[c][n]].pkt = mem[pkts_burst[c][n]].pkt
        BY <4>2 DEF Quiet, Idle
      <4> QED BY <2>1, <2>2, <4>1, <4>3 DEF HandInOrder
    <3> QED BY <3>1
  <2>4. pc'[c] \in {"process", "transmit"} =>
           mem'[Mbuf(c)'].pkt = arrived'[In(c)'][c][Before(c)' + k'[c]]
    <3>1. ASSUME pc'[c] \in {"process", "transmit"}
          PROVE  k'[c] \in Live(c)' /\ Mbuf(c)' = pkts_burst'[c][k'[c]]
      <4>1. IsLast(c)'
        <5>1. pc'[c] = "process"
          BY <1>1, <3>1
        <5>2. copy_mbuf'[c] = None
          BY NextPacketSteps
        <5> QED BY <1>2, <5>1, <5>2 DEF InLoop
      <4>2. k'[c] \in 1..Len(pkts_burst'[c]) /\ k'[c] \in DOMAIN pkts_burst'[c]
        BY <1>2, <1>3, <2>1, <3>1 DEF InLoop
      <4> QED BY <4>1, <4>2 DEF Live, Mbuf
    <3> QED BY <2>3, <3>1
  <2>5. HandInOrder(c)'
    BY <1>6, <2>2, <2>3, <2>4 DEF HandInOrder
  <2>6. ASSUME NEW q \in Input, NEW d \in DOMAIN OutPort[q]
        PROVE  Through(q, c, d)' = IF q = In(c) /\ d = dest_cnt[c] THEN Through(q, c, d) + 1
                                                                  ELSE Through(q, c, d)
    <3>1. CASE q # In(c)
      BY <2>2, <3>1 DEF Through
    <3>2. CASE q = In(c) /\ k[c] < Len(pkts_burst[c])
      <4>1. k'[c] = k[c] + 1 /\ dest_cnt'[c] = dest_cnt[c]
        BY <1>5, <3>2 DEF NextPacket
      <4>2. d \in Nat /\ dest_cnt[c] \in Nat /\ k[c] \in Nat /\ Fetched(q, c)' = Fetched(q, c)
        BY <1>5, OutputFacts
      <4>3. CASE d < dest_cnt[c]
        BY <2>2, <3>2, <4>1, <4>2, <4>3 DEF Through
      <4>4. CASE d = dest_cnt[c]
        BY <1>6, <2>2, <3>2, <4>1, <4>2, <4>4 DEF Through
      <4>5. CASE d > dest_cnt[c]
        BY <2>2, <3>2, <4>1, <4>2, <4>5 DEF Through
      <4> QED BY <4>2, <4>3, <4>4, <4>5
    <3>3. CASE q = In(c) /\ ~ (k[c] < Len(pkts_burst[c])) /\ ~ IsLast(c)
      <4>1. k'[c] = 1 /\ dest_cnt'[c] = dest_cnt[c] + 1 /\ k[c] = Len(pkts_burst[c])
        BY <1>3, <1>5, <3>3 DEF NextPacket
      <4>2. d \in Nat /\ dest_cnt[c] \in Nat
        BY <1>3, OutputFacts
      <4>3. Fetched(q, c)' = Fetched(q, c)
        OBVIOUS
      <4>4. CASE d < dest_cnt[c]
        BY <2>2, <3>3, <4>1, <4>2, <4>3, <4>4 DEF Through
      <4>5. CASE d = dest_cnt[c]
        BY <1>6, <2>2, <3>3, <4>1, <4>2, <4>3, <4>5 DEF Through
      <4>6. CASE d > dest_cnt[c]
        BY <1>6, <2>2, <3>3, <4>1, <4>2, <4>3, <4>6 DEF Through
      <4> QED BY <4>2, <4>4, <4>5, <4>6
    <3> QED BY <1>7, <3>1, <3>2, <3>3
  <2> QED BY <2>5, <2>6
<1>8. CASE ~ (k[c] < Len(pkts_burst[c])) /\ IsLast(c)
  <2>1. pc'[c] = "poll"
    BY <1>5, <1>8 DEF NextPacket, Goto
  <2>2. AllThrough(c)'
    <3>1. Polls(c)'
      BY <1>1, <2>1 DEF Polls
    <3> QED BY <3>1, PollingNext
  <2>3. HandInOrder(c)'
    BY <2>1, <2>2 DEF HandInOrder, AllThrough
  <2>4. ASSUME NEW q \in Input, NEW d \in DOMAIN OutPort[q]
        PROVE  Through(q, c, d)' = IF q = In(c) /\ d = dest_cnt[c] THEN Through(q, c, d) + 1
                                                                  ELSE Through(q, c, d)
    <3>1. Through(q, c, d)' = Fetched(q, c) /\ Fetched(q, c) \in Nat
      BY <2>2 DEF AllThrough
    <3>2. CASE q # In(c)
      BY <3>1, <3>2 DEF Through
    <3>3. CASE q = In(c)
      <4>1. d \in Nat /\ d <= dest_cnt[c] /\ dest_cnt[c] \in Nat
        BY <1>3, <1>4, <1>8, <3>3, OutputFacts DEF IsLast
      <4>2. k[c] = Len(pkts_burst[c])
        BY <1>3, <1>8
      <4> QED BY <1>6, <3>1, <3>3, <4>1, <4>2, SMTT(60) DEF Through
    <3> QED BY <3>2, <3>3
  <2> QED BY <2>3, <2>4
<1> QED BY <1>7, <1>8

(* A core that does nothing, and to whose queues nothing comes.            *)
LEMMA CoreStays ==
    ASSUME OwnInv, ContentsInv, EngineTyped, NEW c \in Core, InOrder(c), Rests(c), Quiet,
           \A p \in Port : /\ rx'[p][c] = rx[p][c] /\ arrived'[p][c] = arrived[p][c]
                           /\ tx'[p][c] = tx[p][c] /\ sent'[p][c] = sent[p][c]
    PROVE  InOrder(c)'
<1>1. \A q \in Input : QueueInOrder(q, c)' /\ Fetched(q, c)' = Fetched(q, c)
  BY QueueStays, InputIsPort DEF InOrder
<1>2. HandInOrder(c)'
  BY <1>1, HandStays, InputIsPort
<1>3. ASSUME NEW q \in Input, NEW d \in DOMAIN OutPort[q] PROVE LineInOrder(q, c, d)'
  <2>1. q \in Port /\ OutPort[q][d] \in Port
    BY OutputFacts
  <2>2. Line(OutPort[q][d], c)' = Line(OutPort[q][d], c)
    BY <2>1, LineStays
  <2>3. Through(q, c, d)' = Through(q, c, d)
    BY <1>1, ThroughStays DEF Rests
  <2> QED BY <2>1, <2>2, <2>3, LineInOrderStays DEF InOrder
<1> QED BY <1>1, <1>2, <1>3 DEF InOrder

(* In the beginning nothing has come.                                      *)
LEMMA InitOrder == Init => OrderInv
<1> SUFFICES ASSUME Init, NEW c \in Core PROVE InOrder(c)
  BY DEF OrderInv
<1>1. /\ \A p \in Port : rx[p][c] = << >> /\ tx[p][c] = << >> /\ sent[p][c] = << >> /\ arrived[p][c] = << >>
      /\ pc[c] = "poll"
  BY DEF Init
<1>2. OwnInv
  BY InitOwn
<1>3. \A q \in Input : Fetched(q, c) = 0 /\ QueueInOrder(q, c)
  <2>1. ASSUME NEW q \in Input PROVE Fetched(q, c) = 0 /\ QueueInOrder(q, c)
    <3>1. rx[q][c] = << >> /\ arrived[q][c] = << >>
      BY <1>1, InputIsPort
    <3>2. Fetched(q, c) = 0
      BY <3>1 DEF Fetched
    <3> QED BY <3>1, <3>2 DEF QueueInOrder, CameOnce
  <2> QED BY <2>1
<1>4. AllThrough(c)
  <2>1. Polls(c)
    BY <1>1, <1>2, <1>3 DEF Polls, OwnInv
  <2> QED BY <2>1, PollingThrough
<1>5. HandInOrder(c)
  BY <1>1, <1>4 DEF HandInOrder, AllThrough
<1>6. ASSUME NEW q \in Input, NEW d \in DOMAIN OutPort[q] PROVE LineInOrder(q, c, d)
  <2>1. OutPort[q][d] \in Port /\ q \in Port
    BY OutputFacts
  <2>2. Line(OutPort[q][d], c) = << >> /\ arrived[q][c] = << >>
    <3>1. tx[OutPort[q][d]][c] = << >> /\ sent[OutPort[q][d]][c] = << >>
      BY <1>1, <2>1
    <3>2. Waits(OutPort[q][d], c) = << >>
      BY <3>1 DEF Waits
    <3> QED BY <1>1, <2>1, <3>1, <3>2 DEF Line
  <2>3. Through(q, c, d) = 0
    BY <1>3, <1>4 DEF AllThrough
  <2>4. SentUpTo(<< >>, << >>, q, 0)
    <3>1. Range(<< >>) = {} /\ DOMAIN << >> = {} /\ 1..0 = {}
      BY DEF Range
    <3>2. {z \in Range(<< >>) : Arrival[z].port = q} = {} /\ {(<< >>)[m] : m \in 1..0} = {}
      BY <3>1
    <3> QED BY <3>1, <3>2 DEF SentUpTo, InLine
  <2> QED BY <2>2, <2>3, <2>4 DEF LineInOrder
<1> QED BY <1>3, <1>5, <1>6 DEF InOrder

(* A packet comes, last.                                                   *)
LEMMA NicReceiveOrder ==
    ASSUME OwnInv, ContentsInv, EngineTyped, OrderInv, NicReceive
    PROVE  OrderInv'
<1>1. PICK x \in Packet, b \in free["pktmbuf_pool"] :
         /\ x \notin Range(arrived[Arrival[x].port][Arrival[x].core])
         /\ arrived' = [arrived EXCEPT ![Arrival[x].port][Arrival[x].core] = Append(@, x)]
         /\ mem' = [mem EXCEPT ![b] = [pkt |-> x, bytes |-> Arrival[x].bytes]]
         /\ rx' = [rx EXCEPT ![Arrival[x].port][Arrival[x].core] = Append(@, b)]
         /\ UNCHANGED <<tx, sent, pc, loop, copy_mbuf>>
  BY Zenon DEF NicReceive
<1>2. PICK p \in Input, e \in Core : p = Arrival[x].port /\ e = Arrival[x].core
  BY ForwarderAssumption
<1>3. "pktmbuf_pool" \in Pool /\ b \in Buffer /\ p \in Port
  <2>1. "pktmbuf_pool" \in Pool
    BY DEF Pool
  <2> QED BY <2>1, InputIsPort DEF OwnInv, NicTyped
<1>4. /\ rx \in Queues(Seq(Buffer)) /\ arrived \in Queues(Seq(Packet))
      /\ mem \in [Buffer -> Entry \cup {None}]
  BY DEF OwnInv, NicTyped, EngineTyped, ContentsInv
<1>5. /\ rx'[p][e] = Append(rx[p][e], b) /\ arrived'[p][e] = Append(arrived[p][e], x)
      /\ \A q \in Port, c \in Core : ~ (q = p /\ c = e) =>
            rx'[q][c] = rx[q][c] /\ arrived'[q][c] = arrived[q][c]
      /\ tx' = tx /\ sent' = sent
  BY <1>1, <1>2, <1>3, <1>4, Zenon DEF Queues
<1>6. mem'[b].pkt = x /\ \A y \in Buffer : y # b => mem'[y] = mem[y]
  BY <1>1, <1>3, <1>4, Zenon
<1>7. Idle(b) /\ Quiet
  BY <1>3, <1>6, IdleBuffers DEF Quiet
<1>8. \A c \in Core : Rests(c)
  BY <1>1, AllRest, Zenon
<1>9. \A c \in Core : c # e => InOrder(c)'
  BY <1>3, <1>5, <1>7, <1>8, CoreStays DEF OrderInv
<1>10. rx[p][e] \in Seq(Buffer) /\ arrived[p][e] \in Seq(Packet)
  BY <1>3, <1>4 DEF Queues
<1>11. PICK a, a1, r, r1 : a = arrived[p][e] /\ a1 = arrived'[p][e] /\ r = rx[p][e] /\ r1 = rx'[p][e]
  OBVIOUS
<1>12. /\ Len(a) \in Nat /\ Len(a1) = Len(a) + 1 /\ (\A i \in 1..Len(a) : a1[i] = a[i])
       /\ a1[Len(a) + 1] = x
  BY <1>5, <1>10, <1>11, AppendRange
<1>13. /\ Len(r) \in Nat /\ Len(r1) = Len(r) + 1 /\ (\A i \in 1..Len(r) : r1[i] = r[i])
       /\ r1[Len(r) + 1] = b /\ DOMAIN r1 = 1..(Len(r) + 1) /\ DOMAIN r = 1..Len(r)
  BY <1>3, <1>5, <1>10, <1>11, AppendProperties, LenProperties
<1>14. /\ Fetched(p, e) = Len(a) - Len(r) /\ Fetched(p, e)' = Len(a1) - Len(r1)
       /\ Fetched(p, e) \in Nat
  BY <1>11 DEF Fetched, OrderInv, InOrder, QueueInOrder
<1>15. Fetched(p, e)' = Fetched(p, e)
  BY <1>12, <1>13, <1>14
<1>16. CameOnce(a, p) /\ x \notin Range(a) /\ Arrival[x].port = p
  BY <1>1, <1>2, <1>11, Zenon DEF OrderInv, InOrder, QueueInOrder
<1>17. CameOnce(a1, p)
  <2>1. \A m \in 1..Len(a1) : m \in DOMAIN a \/ m = Len(a) + 1
    BY <1>10, <1>11, <1>12, LenProperties
  <2>2. DOMAIN a1 = 1..Len(a1) /\ DOMAIN a = 1..Len(a)
    <3>1. a1 \in Seq(Packet)
      BY <1>5, <1>10, <1>11, AppendProperties
    <3> QED BY <1>10, <1>11, <3>1, LenProperties
  <2>3. \A m \in DOMAIN a : a[m] # x
    BY <1>16 DEF Range
  <2> QED BY <1>12, <1>16, <2>1, <2>2, <2>3 DEF CameOnce
<1>18. QueueInOrder(p, e)'
  <2>1. ASSUME NEW n \in DOMAIN r1 PROVE mem'[r1[n]].pkt = a1[Fetched(p, e) + n]
    <3>1. CASE n = Len(r) + 1
      BY <1>6, <1>12, <1>13, <1>14, <3>1
    <3>2. CASE n # Len(r) + 1
      <4>1. n \in 1..Len(r) /\ r1[n] = r[n]
        BY <1>13, <2>1, <3>2
      <4>2. r[n] \in Buffer /\ On(r, r[n])
        BY <1>10, <1>11, <1>13, <4>1, ElementOfSeq DEF On
      <4>3. mem'[r[n]].pkt = mem[r[n]].pkt
        BY <1>3, <1>7, <1>11, <4>2 DEF Quiet, Idle
      <4>4. mem[r[n]].pkt = a[Fetched(p, e) + n]
        BY <1>11, <1>13, <4>1 DEF OrderInv, InOrder, QueueInOrder
      <4>5. Fetched(p, e) + n \in 1..Len(a)
        BY <1>12, <1>13, <1>14, <4>1
      <4> QED BY <1>12, <4>1, <4>3, <4>4, <4>5
    <3> QED BY <3>1, <3>2
  <2> QED BY <1>11, <1>14, <1>15, <1>17, <2>1, Zenon DEF QueueInOrder
<1>19. \A q \in Input : QueueInOrder(q, e)' /\ Fetched(q, e)' = Fetched(q, e)
  <2>1. ASSUME NEW q \in Input, q # p PROVE QueueInOrder(q, e)' /\ Fetched(q, e)' = Fetched(q, e)
    <3>1. q \in Port
      BY InputIsPort
    <3>2. rx'[q][e] = rx[q][e] /\ arrived'[q][e] = arrived[q][e]
      BY <1>5, <2>1, <3>1
    <3> QED BY <1>7, <3>1, <3>2, QueueStays DEF OrderInv, InOrder
  <2> QED BY <1>15, <1>18, <2>1
<1>20. HandInOrder(e)'
  <2>1. ASSUME NEW q \in Input, NEW m \in 1..Fetched(q, e) PROVE arrived'[q][e][m] = arrived[q][e][m]
    <3>1. CASE q = p
      <4>1. m \in 1..Len(a)
        BY <1>12, <1>13, <1>14, <2>1, <3>1
      <4> QED BY <1>11, <1>12, <3>1, <4>1
    <3>2. CASE q # p
      BY <1>5, <3>2, InputIsPort
    <3> QED BY <3>1, <3>2
  <2>2. InOrder(e)
    BY DEF OrderInv
  <2> QED BY <1>7, <1>8, <1>19, <2>1, <2>2, HandStays
<1>21. ASSUME NEW q \in Input, NEW d \in DOMAIN OutPort[q] PROVE LineInOrder(q, e, d)'
  <2>1. q \in Port /\ OutPort[q][d] \in Port
    BY OutputFacts
  <2>2. Line(OutPort[q][d], e)' = Line(OutPort[q][d], e)
    BY <1>5, <1>7, <2>1, LineStays
  <2>3. Through(q, e, d)' = Through(q, e, d)
    BY <1>8, <1>19, ThroughStays DEF Rests
  <2>4. LineInOrder(q, e, d)
    BY DEF OrderInv, InOrder
  <2>5. CASE q # p
    BY <1>5, <2>1, <2>2, <2>3, <2>4, <2>5, LineInOrderStays
  <2>6. CASE q = p /\ IsInjective(OutPort[q])
    <3>1. PICK left, n : left = Line(OutPort[q][d], e) /\ n = Through(q, e, d)
      OBVIOUS
    <3>2. left \in Seq(Packet)
      BY <2>1, <3>1, WaitsFacts
    <3>3. SentUpTo(left, a, q, n)
      BY <1>11, <2>4, <2>6, <3>1 DEF LineInOrder
    <3>4. SentUpTo(left, a1, q, n)
      BY <1>5, <1>10, <1>11, <1>16, <2>6, <3>2, <3>3, OneMoreComes
    <3>5. LineInOrder(q, e, d)'
      BY <1>11, <2>2, <2>3, <2>6, <3>1, <3>4 DEF LineInOrder, SentUpTo, InLine
    <3> QED BY <3>5
  <2>7. CASE ~ IsInjective(OutPort[q])
    BY <2>7 DEF LineInOrder
  <2> QED BY <2>5, <2>6, <2>7
<1> QED BY <1>9, <1>19, <1>20, <1>21 DEF OrderInv, InOrder

(* What the NIC sends stays in its line.                                   *)
LEMMA NicSendOrder ==
    ASSUME OwnInv, ContentsInv, EngineTyped, OrderInv, NEW p \in Port, NEW e \in Core, NicSend(p, e)
    PROVE  OrderInv'
<1>1. PICK b, t : b = Head(tx[p][e]) /\ t = tx[p][e]
  OBVIOUS
<1>2. /\ t # << >>
      /\ sent' = [sent EXCEPT ![p][e] = Append(@, mem[b].pkt)]
      /\ tx' = [tx EXCEPT ![p][e] = Tail(@)]
      /\ UNCHANGED <<rx, arrived, mem, pc, loop, copy_mbuf>>
  BY <1>1 DEF NicSend
<1>3. Quiet /\ \A c \in Core : Rests(c)
  BY <1>2, AllRest DEF Quiet
<1>4. tx \in Queues(Seq(Buffer)) /\ sent \in Queues(Seq(Packet))
  BY DEF OwnInv, NicTyped, EngineTyped
<1>5. /\ tx'[p][e] = Tail(t) /\ sent'[p][e] = Append(sent[p][e], mem[b].pkt)
      /\ \A q \in Port, c \in Core : ~ (q = p /\ c = e) =>
            tx'[q][c] = tx[q][c] /\ sent'[q][c] = sent[q][c]
  BY <1>1, <1>2, <1>4 DEF Queues
<1>6. \A c \in Core : c # e => InOrder(c)'
  BY <1>2, <1>3, <1>5, CoreStays DEF OrderInv
<1>7. PICK w, w1 : w = Waits(p, e) /\ w1 = Waits(p, e)'
  OBVIOUS
<1>8. /\ t \in Seq(Buffer) /\ w \in Seq(Packet) /\ Len(w) = Len(t) /\ Len(t) \in Nat
      /\ \A j \in 1..Len(t) : w[j] = mem[t[j]].pkt
      /\ sent[p][e] \in Seq(Packet)
  BY <1>1, <1>7, WaitsFacts, LenProperties
<1>9. /\ Tail(t) \in Seq(Buffer) /\ Len(Tail(t)) = Len(t) - 1
      /\ \A i \in 1..Len(Tail(t)) : Tail(t)[i] = t[i + 1]
  BY ONLY <1>2, <1>8, HeadTailProperties, Zenon
<1>10. Len(t) # 0 /\ w # << >> /\ b = t[1]
  BY <1>1, <1>2, <1>8, EmptySeq
<1>11. Head(w) = mem[b].pkt
  <2>1. Head(w) = w[1] /\ 1 \in 1..Len(t)
    BY <1>8, <1>10
  <2> QED BY <1>8, <1>10, <2>1
<1>12. w1 = Tail(w)
  <2>1. PICK u, v : u = Tail(t) /\ v = Tail(w)
    OBVIOUS
  <2>2. /\ v \in Seq(Packet) /\ Len(v) = Len(w) - 1
        /\ \A i \in 1..Len(v) : v[i] = w[i + 1]
    BY ONLY <1>8, <1>10, <2>1, HeadTailProperties, Zenon
  <2>3. Len(u) = Len(t) - 1 /\ DOMAIN u = 1..Len(u) /\ \A i \in 1..Len(u) : u[i] = t[i + 1]
    BY ONLY <1>9, <2>1, LenProperties, Zenon
  <2>4. w1 = [j \in 1..Len(u) |-> mem[u[j]].pkt]
    <3>1. mem' = mem /\ tx'[p][e] = u
      BY <1>2, <1>5, <2>1
    <3> QED BY ONLY <1>7, <2>3, <3>1, Zenon DEF Waits
  <2>5. \A j \in 1..Len(u) : mem[u[j]].pkt = v[j]
    <3>1. \A j \in 1..Len(u) : j + 1 \in 1..Len(t)
      BY <1>8, <2>3
    <3> QED BY <1>8, <2>2, <2>3, <3>1
  <2>6. v = [j \in 1..Len(u) |-> v[j]]
    BY <1>8, <2>2, <2>3, LenProperties
  <2> QED BY <2>1, <2>4, <2>5, <2>6
<1>13. Line(p, e)' = Line(p, e)
  <2>1. Append(sent[p][e], Head(w)) \o Tail(w) = sent[p][e] \o w
    BY <1>8, <1>10, HeadGoesOver, Zenon
  <2> QED BY <1>5, <1>7, <1>11, <1>12, <2>1, Zenon DEF Line
<1>14. \A q \in Input : QueueInOrder(q, e)' /\ Fetched(q, e)' = Fetched(q, e)
  BY <1>2, <1>3, QueueStays, InputIsPort DEF OrderInv, InOrder
<1>15. HandInOrder(e)'
  BY <1>2, <1>3, <1>14, HandStays DEF OrderInv
<1>16. ASSUME NEW q \in Input, NEW d \in DOMAIN OutPort[q] PROVE LineInOrder(q, e, d)'
  <2>1. q \in Port /\ OutPort[q][d] \in Port
    BY OutputFacts
  <2>2. Line(OutPort[q][d], e)' = Line(OutPort[q][d], e)
    <3>1. CASE OutPort[q][d] = p
      BY <1>13, <3>1
    <3>2. CASE OutPort[q][d] # p
      BY <1>3, <1>5, <2>1, <3>2, LineStays
    <3> QED BY <3>1, <3>2
  <2>3. Through(q, e, d)' = Through(q, e, d)
    BY <1>3, <1>14, ThroughStays DEF Rests
  <2> QED BY <1>2, <2>1, <2>2, <2>3, LineInOrderStays DEF OrderInv, InOrder
<1> QED BY <1>6, <1>14, <1>15, <1>16 DEF OrderInv, InOrder

(* A core that goes from port to port without finding anything.            *)
LEMMA RxBurstEmptyOrder ==
    ASSUME OwnInv, ContentsInv, EngineTyped, OrderInv, NEW c \in Core, RxBurstEmpty(c)
    PROVE  OrderInv'
<1>1. /\ InLoopInv /\ InLoopInv' /\ \A d \in Core : d # c => Rests(d)
      /\ pc[c] = "poll" /\ pc'[c] = "poll"
      /\ rx' = rx /\ arrived' = arrived /\ tx' = tx /\ sent' = sent /\ mem' = mem
  BY RxBurstEmptySteps DEF OwnInv, nic
<1>2. Quiet
  BY <1>1 DEF Quiet
<1>3. \A d \in Core : d # c => InOrder(d)'
  BY <1>1, <1>2, CoreStays DEF OrderInv
<1>4. \A q \in Input : QueueInOrder(q, c)' /\ Fetched(q, c)' = Fetched(q, c)
  BY <1>1, <1>2, QueueStays, InputIsPort DEF OrderInv, InOrder
<1>5. AllThrough(c) /\ AllThrough(c)'
  <2>1. \A q \in Input : Fetched(q, c) \in Nat /\ Fetched(q, c)' \in Nat
    BY <1>4 DEF OrderInv, InOrder, QueueInOrder
  <2>2. Polls(c) /\ Polls(c)'
    BY <1>1, <2>1 DEF Polls
  <2> QED BY <2>2, PollingThrough, PollingNext
<1>6. HandInOrder(c)'
  BY <1>1, <1>5 DEF HandInOrder, AllThrough
<1>7. ASSUME NEW q \in Input, NEW d \in DOMAIN OutPort[q] PROVE LineInOrder(q, c, d)'
  <2>1. q \in Port /\ OutPort[q][d] \in Port
    BY OutputFacts
  <2>2. Line(OutPort[q][d], c)' = Line(OutPort[q][d], c)
    BY <1>1, <1>2, <2>1, LineStays
  <2>3. Through(q, c, d)' = Through(q, c, d)
    BY <1>4, <1>5 DEF AllThrough
  <2> QED BY <1>1, <2>1, <2>2, <2>3, LineInOrderStays DEF OrderInv, InOrder
<1> QED BY <1>3, <1>4, <1>6, <1>7 DEF OrderInv, InOrder

(* A burst is the first part of the receive queue, in its order.           *)
LEMMA RxBurstOrder ==
    ASSUME OwnInv, ContentsInv, EngineTyped, OrderInv, NEW c \in Core, RxBurst(c)
    PROVE  OrderInv'
<1>1. PICK p, n : p = In(c) /\ n = Taken(c)
  OBVIOUS
<1>2. PICK r, r1, t : r = rx[p][c] /\ r1 = SubSeq(r, n + 1, Len(r)) /\ t = SubSeq(r, 1, n)
  OBVIOUS
<1>3. /\ InLoopInv /\ NicTyped /\ InLoopInv' /\ \A d \in Core : d # c => Rests(d)
      /\ p \in Port /\ r \in Seq(Buffer) /\ n \in 1..Len(r)
      /\ rx' = [rx EXCEPT ![p][c] = r1]
      /\ pkts_burst'[c] = t
      /\ Live(c)' = DOMAIN t /\ pc'[c] \in {"copy", "process"}
      /\ tx' = tx /\ arrived' = arrived /\ sent' = sent /\ mem' = mem /\ copy_mbuf' = copy_mbuf
  BY <1>1, <1>2, RxBurstSteps DEF OwnInv, Polled
<1>4. /\ pc[c] = "poll" /\ In(c)' = In(c) /\ dest_cnt'[c] = dest_cnt[c] /\ k'[c] = k[c]
  BY Zenon DEF RxBurst, In
<1>5. LoopTyped /\ InLoop(c) /\ LoopTyped' /\ InLoop(c)' /\ dest_cnt[c] = 1 /\ k[c] = 1 /\ copy_mbuf[c] = None
  BY <1>3, <1>4 DEF InLoopInv, InLoop
<1>6. p \in Input
  BY <1>1, <1>5, OutsFacts
<1>7. Quiet
  BY <1>3 DEF Quiet
<1>8. /\ rx'[p][c] = r1
      /\ \A q \in Port, d \in Core : ~ (q = p /\ d = c) => rx'[q][d] = rx[q][d]
  BY <1>3 DEF NicTyped, Queues
<1>9. \A d \in Core : d # c => InOrder(d)'
  BY <1>3, <1>7, <1>8, CoreStays DEF OrderInv
<1>10. /\ Len(r) \in Nat /\ n \in Nat /\ n >= 1 /\ n <= Len(r)
       /\ \A i \in 1..Len(r) : r[i] \in Buffer
  BY <1>3, LenProperties, ElementOfSeq
<1>11. t \in Seq(Buffer) /\ Len(t) = n /\ \A i \in 1..n : t[i] = r[i]
  BY <1>2, <1>10, SubSeqProperties
<1>12. r1 \in Seq(Buffer) /\ Len(r1) = Len(r) - n
  BY <1>2, <1>10, SubSeqProperties
<1>13. \A i \in 1..Len(r) - n : r1[i] = r[n + i]
  <2>1. \A i \in 1..Len(r) - (n + 1) + 1 : r1[i] = r[n + 1 + i - 1]
    BY <1>2, <1>10, SubSeqProperties
  <2>2. \A i \in 1..Len(r) - n : i \in 1..Len(r) - (n + 1) + 1 /\ n + 1 + i - 1 = n + i
    BY <1>10
  <2> QED BY <2>1, <2>2
<1>14. PICK a, f : a = arrived[p][c] /\ f = Fetched(p, c)
  OBVIOUS
<1>15. f \in Nat /\ f = Len(a) - Len(r) /\ DOMAIN r = 1..Len(r)
       /\ \A i \in 1..Len(r) : mem[r[i]].pkt = a[f + i]
  BY <1>2, <1>3, <1>6, <1>14, LenProperties, Zenon DEF Fetched, OrderInv, InOrder, QueueInOrder
<1>16. Fetched(p, c)' = f + n /\ Len(a) \in Int
  <2>1. arrived[p][c] \in Seq(Packet)
    BY <1>3 DEF EngineTyped, Queues
  <2>2. Len(a) \in Nat
    BY <1>14, <2>1, LenProperties
  <2>3. Fetched(p, c)' = Len(a) - Len(r1)
    BY <1>3, <1>8, <1>14 DEF Fetched
  <2> QED BY <1>10, <1>12, <1>15, <2>2, <2>3
<1>17. QueueInOrder(p, c)'
  <2>1. DOMAIN r1 = 1..(Len(r) - n)
    BY <1>12, LenProperties
  <2>2. ASSUME NEW i \in 1..(Len(r) - n) PROVE mem[r1[i]].pkt = a[f + n + i]
    <3>1. n + i \in 1..Len(r) /\ f + (n + i) = f + n + i
      BY <1>10, <1>15, <2>2
    <3> QED BY <1>13, <1>15, <3>1
  <2>3. CameOnce(arrived[p][c], p)
    BY <1>6 DEF OrderInv, InOrder, QueueInOrder
  <2>4. f + n \in Nat
    BY <1>10, <1>15
  <2> QED BY <1>3, <1>8, <1>14, <1>16, <2>1, <2>2, <2>3, <2>4 DEF QueueInOrder, CameOnce
<1>18. \A q \in Input : q # p => QueueInOrder(q, c)' /\ Fetched(q, c)' = Fetched(q, c)
  BY <1>3, <1>7, <1>8, QueueStays, InputIsPort DEF OrderInv, InOrder
<1>19. Before(c)' = f
  <2>1. Before(c)' = Fetched(p, c)' - Len(t)
    BY <1>1, <1>3, <1>4 DEF Before, Fetched
  <2> QED BY <1>10, <1>11, <1>15, <1>16, <2>1
<1>20. HandInOrder(c)'
  <2>1. \A i \in 1..n : mem[t[i]].pkt = a[f + i]
    BY <1>10, <1>11, <1>15
  <2>2. DOMAIN t = 1..n
    BY <1>11, LenProperties
  <2>3. pc'[c] = "process" => Mbuf(c)' = t[1]
    <3>1. pc'[c] = "process" => IsLast(c)'
      BY <1>3, <1>5 DEF InLoop
    <3> QED BY <1>3, <1>4, <1>5, <3>1 DEF Mbuf
  <2>4. 1 \in 1..n
    BY <1>10
  <2>5. pc'[c] # "transmit"
    BY <1>3
  <2>6. In(c)' = p /\ arrived'[p][c] = a /\ k'[c] = 1 /\ mem' = mem
    BY <1>1, <1>3, <1>4, <1>5, <1>14
  <2>7. Before(c)' \in Nat
    BY <1>15, <1>19
  <2>8. \A x \in Live(c)' : mem'[pkts_burst'[c][x]].pkt = arrived'[In(c)'][c][Before(c)' + x]
    BY ONLY <1>3, <1>19, <2>1, <2>2, <2>6, Zenon
  <2>9. pc'[c] \in {"process", "transmit"} =>
           mem'[Mbuf(c)'].pkt = arrived'[In(c)'][c][Before(c)' + k'[c]]
    <3>1. pc'[c] = "process" => mem'[Mbuf(c)'].pkt = a[f + 1]
      BY ONLY <2>1, <2>3, <2>4, <2>6, Zenon
    <3> QED BY ONLY <1>19, <2>5, <2>6, <3>1
  <2> QED BY ONLY <2>7, <2>8, <2>9, Zenon DEF HandInOrder
<1>21. AllThrough(c)
  <2>1. Polls(c)
    BY <1>3, <1>4 DEF Polls, OrderInv, InOrder, QueueInOrder
  <2> QED BY <2>1, PollingThrough
<1>22. ASSUME NEW q \in Input, NEW d \in DOMAIN OutPort[q] PROVE LineInOrder(q, c, d)'
  <2>1. q \in Port /\ OutPort[q][d] \in Port /\ d \in Nat /\ d >= 1
    BY OutputFacts
  <2>2. Line(OutPort[q][d], c)' = Line(OutPort[q][d], c)
    BY <1>3, <1>7, <2>1, LineStays
  <2>3. Through(q, c, d)' = Through(q, c, d)
    <3>1. Through(q, c, d) = Fetched(q, c)
      BY <1>21 DEF AllThrough
    <3>2. CASE q = p
      <4>1. Through(q, c, d)' = IF d = 1 THEN f + 1 - 1 ELSE f
        BY <1>1, <1>4, <1>5, <1>19, <2>1, <3>2 DEF Through
      <4>2. f \in Nat /\ f + 1 - 1 = f
        BY <1>15
      <4>3. Through(q, c, d)' = f
        BY ONLY <4>1, <4>2
      <4>4. Through(q, c, d) = f
        BY ONLY <1>14, <3>1, <3>2
      <4> QED BY ONLY <4>3, <4>4
    <3>3. CASE q # p
      BY <1>1, <1>4, <1>18, <3>1, <3>3 DEF Through
    <3> QED BY <3>2, <3>3
  <2> QED BY <1>3, <2>1, <2>2, <2>3, LineInOrderStays DEF OrderInv, InOrder
<1> QED BY <1>9, <1>17, <1>18, <1>20, <1>22 DEF OrderInv, InOrder

(* A copy holds the packet it was made of.                                 *)
LEMMA CopyOrder ==
    ASSUME OwnInv, ContentsInv, EngineTyped, OrderInv, NEW c \in Core, Copy(c)
    PROVE  OrderInv'
<1>1. /\ InLoopInv /\ NicTyped /\ InLoopInv' /\ (\A d \in Core : d # c => Rests(d)) /\ ~ IsLast(c)
      /\ Live(c)' = Live(c) /\ pkts_burst' = pkts_burst /\ k[c] \in Live(c)
      /\ pc'[c] = "process" /\ Mbuf(c)' = copy_mbuf'[c]
      /\ rx' = rx /\ tx' = tx /\ arrived' = arrived /\ sent' = sent
  BY CopySteps DEF OwnInv
<1>2. PICK b \in free["pktmbuf_pool2"] :
         /\ mem' = [mem EXCEPT ![b] = mem[pkts_burst[c][k[c]]]]
         /\ copy_mbuf' = [copy_mbuf EXCEPT ![c] = b]
  BY DEF Copy
<1>3. "pktmbuf_pool2" \in Pool /\ b \in Buffer
  <2>1. "pktmbuf_pool2" \in Pool
    BY DEF Pool
  <2> QED BY <1>1, <2>1 DEF NicTyped
<1>4. Idle(b)
  BY <1>3, IdleBuffers
<1>5. UNCHANGED <<port_cnt, dest_cnt, k, pkts_burst>> /\ pc[c] = "copy"
  BY DEF Copy, loop
<1>6. mem'[b] = mem[pkts_burst[c][k[c]]] /\ \A y \in Buffer : y # b => mem'[y] = mem[y]
  BY <1>2, <1>3 DEF ContentsInv
<1>7. Quiet
  BY <1>4, <1>6 DEF Quiet
<1>8. \A d \in Core : d # c => InOrder(d)'
  BY <1>1, <1>7, CoreStays DEF OrderInv
<1>9. \A q \in Input : QueueInOrder(q, c)' /\ Fetched(q, c)' = Fetched(q, c)
  BY <1>1, <1>7, QueueStays, InputIsPort DEF OrderInv, InOrder
<1>10. In(c)' = In(c) /\ Before(c)' = Before(c) /\ copy_mbuf'[c] = b
  <2>1. In(c)' = In(c)
    BY <1>5 DEF In
  <2>2. copy_mbuf \in [Core -> Buffer \cup {None}]
    BY <1>1 DEF InLoopInv, LoopTyped
  <2> QED BY <1>1, <1>2, <2>1, <2>2 DEF Before, Fetched
<1>11. HandInOrder(c)'
  <2>1. HandInOrder(c)
    BY DEF OrderInv, InOrder
  <2>2. ASSUME NEW n \in Live(c)
        PROVE  mem'[pkts_burst[c][n]].pkt = arrived[In(c)][c][Before(c) + n]
    <3>1. pkts_burst[c] \in Seq(Buffer) /\ n \in DOMAIN pkts_burst[c]
      BY <1>1 DEF InLoopInv, LoopTyped, Live
    <3>2. pkts_burst[c][n] \in Buffer /\ Listed(c, pkts_burst[c][n])
      BY <3>1, ElementOfSeq, LenProperties DEF Listed
    <3>3. mem'[pkts_burst[c][n]].pkt = mem[pkts_burst[c][n]].pkt
      BY <1>7, <3>2 DEF Quiet, Idle
    <3> QED BY <2>1, <3>3 DEF HandInOrder
  <2>3. mem'[b].pkt = arrived[In(c)][c][Before(c) + k[c]]
    BY <1>1, <1>6, <2>1 DEF HandInOrder
  <2> QED BY <1>1, <1>5, <1>10, <2>1, <2>2, <2>3 DEF HandInOrder
<1>12. ASSUME NEW q \in Input, NEW d \in DOMAIN OutPort[q] PROVE LineInOrder(q, c, d)'
  <2>1. q \in Port /\ OutPort[q][d] \in Port
    BY OutputFacts
  <2>2. Line(OutPort[q][d], c)' = Line(OutPort[q][d], c)
    BY <1>1, <1>7, <2>1, LineStays
  <2>3. Through(q, c, d)' = Through(q, c, d)
    BY <1>5, <1>9, ThroughStays
  <2> QED BY <1>1, <2>1, <2>2, <2>3, LineInOrderStays DEF OrderInv, InOrder
<1> QED BY <1>8, <1>9, <1>11, <1>12 DEF OrderInv, InOrder

(* process_packet rewrites a packet, it does not replace it.               *)
LEMMA ProcessOrder ==
    ASSUME OwnInv, ContentsInv, EngineTyped, OrderInv, NEW c \in Core, Process(c)
    PROVE  OrderInv'
<1>1. /\ InLoopInv /\ InLoopInv' /\ (\A d \in Core : d # c => Rests(d))
      /\ Live(c)' = Live(c) /\ pkts_burst' = pkts_burst
      /\ pc[c] = "process" /\ pc'[c] = "transmit"
      /\ Mbuf(c)' = Mbuf(c)
      /\ rx' = rx /\ tx' = tx /\ arrived' = arrived /\ sent' = sent
  BY ProcessSteps DEF OwnInv, nic
<1>2. UNCHANGED <<port_cnt, dest_cnt, k, pkts_burst>>
  BY DEF Process, loop
<1>3. \A y \in Buffer : mem'[y].pkt = mem[y].pkt
  <2>1. PICK b : b = Mbuf(c)
    OBVIOUS
  <2>2. PICK mm : mem' = [mem EXCEPT ![b].bytes = mm]
    BY <2>1 DEF Process
  <2>3. b \in Buffer /\ mem[b] \in Entry
    BY <1>1, <2>1, MbufHeld DEF ContentsInv, AtHand, Fresh
  <2>4. mem \in [Buffer -> Entry \cup {None}]
    BY DEF ContentsInv
  <2>5. mem'[b] = [mem[b] EXCEPT !.bytes = mm] /\ \A y \in Buffer : y # b => mem'[y] = mem[y]
    BY <2>2, <2>3, <2>4
  <2>6. mem'[b].pkt = mem[b].pkt
    BY <2>3, <2>5 DEF Entry
  <2> QED BY <2>5, <2>6
<1>4. Quiet
  BY <1>3 DEF Quiet
<1>5. \A d \in Core : d # c => InOrder(d)'
  BY <1>1, <1>4, CoreStays DEF OrderInv
<1>6. \A q \in Input : QueueInOrder(q, c)' /\ Fetched(q, c)' = Fetched(q, c)
  BY <1>1, <1>4, QueueStays, InputIsPort DEF OrderInv, InOrder
<1>7. In(c)' = In(c) /\ Before(c)' = Before(c)
  <2>1. In(c)' = In(c)
    BY <1>2 DEF In
  <2> QED BY <1>1, <2>1 DEF Before, Fetched
<1>8. HandInOrder(c)'
  <2>1. HandInOrder(c)
    BY DEF OrderInv, InOrder
  <2>2. ASSUME NEW n \in Live(c)
        PROVE  mem'[pkts_burst[c][n]].pkt = arrived[In(c)][c][Before(c) + n]
    <3>1. pkts_burst[c] \in Seq(Buffer) /\ n \in DOMAIN pkts_burst[c]
      BY <1>1 DEF InLoopInv, LoopTyped, Live
    <3>2. pkts_burst[c][n] \in Buffer
      BY <3>1, ElementOfSeq, LenProperties
    <3> QED BY <1>3, <2>1, <3>2 DEF HandInOrder
  <2>3. mem'[Mbuf(c)].pkt = arrived[In(c)][c][Before(c) + k[c]]
    <3>1. Mbuf(c) \in Buffer
      BY <1>1, MbufHeld
    <3> QED BY <1>1, <1>3, <2>1, <3>1 DEF HandInOrder
  <2> QED BY <1>1, <1>2, <1>7, <2>1, <2>2, <2>3 DEF HandInOrder
<1>9. ASSUME NEW q \in Input, NEW d \in DOMAIN OutPort[q] PROVE LineInOrder(q, c, d)'
  <2>1. q \in Port /\ OutPort[q][d] \in Port
    BY OutputFacts
  <2>2. Line(OutPort[q][d], c)' = Line(OutPort[q][d], c)
    BY <1>1, <1>4, <2>1, LineStays
  <2>3. Through(q, c, d)' = Through(q, c, d)
    BY <1>2, <1>6, ThroughStays
  <2> QED BY <1>1, <2>1, <2>2, <2>3, LineInOrderStays DEF OrderInv, InOrder
<1> QED BY <1>5, <1>6, <1>8, <1>9 DEF OrderInv, InOrder

(* The packet at hand joins the line of the port at hand.                  *)
LEMMA TransmitOrder ==
    ASSUME OwnInv, ContentsInv, EngineTyped, OrderInv, NEW c \in Core, Transmit(c)
    PROVE  OrderInv'
<1>0. PICK b, p, i : b = Mbuf(c) /\ p = Dest(c) /\ i = In(c)
  OBVIOUS
<1>1. InLoopInv /\ NicTyped /\ OneHolder /\ NoRepeats
  BY DEF OwnInv
<1>2. /\ pc[c] = "transmit" /\ NextPacket(c) /\ copy_mbuf' = [copy_mbuf EXCEPT ![c] = None]
      /\ TxBurst(p, c, b) /\ rx' = rx /\ arrived' = arrived /\ sent' = sent
  BY <1>0 DEF Transmit
<1>3. b \in Buffer /\ (IsAt(b, Bursting(c)) \/ IsAt(b, Copying(c)))
  BY <1>0, TransmitLoop
<1>4. \A d \in Core : d # c => Rests(d)
  BY <1>1, <1>2, NextPacketSteps
<1>5. p \in Port
  BY <1>0, <1>1, <1>2, MbufHeld
<1>6. ~ On(tx[p][c], b) /\ Once(tx[p][c]) /\ tx \in Queues(Seq(Buffer))
  <2>1. CASE IsAt(b, Bursting(c))
    BY <1>1, <1>5, <2>1, Distinct DEF IsAt, NoRepeats, NicTyped, Queues
  <2>2. CASE IsAt(b, Copying(c))
    BY <1>1, <1>5, <2>2, Distinct DEF IsAt, NoRepeats, NicTyped, Queues
  <2> QED BY <1>3, <2>1, <2>2
<1>7. /\ tx'[p][c] = Append(tx[p][c], b)
      /\ \A q \in Port, d \in Core : ~ (q = p /\ d = c) => tx'[q][d] = tx[q][d]
  <2>1. tx' = [tx EXCEPT ![p][c] = Append(@, b)]
    BY <1>2 DEF TxBurst
  <2> QED BY <1>5, <1>6, <2>1 DEF Queues
<1>8. /\ mem' = mem \/ mem' = [y \in Buffer |-> IF y \in done[p][c] THEN None ELSE mem[y]]
      /\ done[p][c] \subseteq Buffer
  BY <1>1, <1>2, <1>3, <1>5, <1>6, TxBurstFacts DEF NicTyped, Queues
<1>9. Quiet
  <2>1. \A y \in Buffer : y \in done[p][c] => Idle(y)
    BY <1>5, IdleBuffers
  <2> QED BY <1>8, <2>1 DEF Quiet
<1>10. \A d \in Core : d # c => InOrder(d)'
  BY <1>2, <1>4, <1>7, <1>9, CoreStays DEF OrderInv
<1>11. \A q \in Input : QueueInOrder(q, c)' /\ Fetched(q, c)' = Fetched(q, c)
  BY <1>2, <1>9, QueueStays, InputIsPort DEF OrderInv, InOrder
<1>12. /\ HandInOrder(c)'
       /\ \A q \in Input : \A d \in DOMAIN OutPort[q] :
             Through(q, c, d)' = IF q = i /\ d = dest_cnt[c] THEN Through(q, c, d) + 1
                                                            ELSE Through(q, c, d)
  BY <1>0, <1>1, <1>2, <1>9, <1>11, TransmitMoves, ZenonT(60) DEF OrderInv, InOrder, QueueInOrder
<1>13. /\ i \in Input /\ dest_cnt[c] \in DOMAIN OutPort[i] /\ p = OutPort[i][dest_cnt[c]]
       /\ k[c] \in 1..Len(pkts_burst[c]) /\ Len(pkts_burst[c]) \in Nat
  <2>1. LoopTyped /\ InLoop(c)
    BY <1>1 DEF InLoopInv
  <2>2. /\ In(c) \in Input /\ Outs(c) \in Seq(Port) /\ dest_cnt[c] \in 1..Len(Outs(c))
        /\ k[c] \in 1..Len(pkts_burst[c]) /\ Len(pkts_burst[c]) \in Nat
    BY <1>2, <2>1, Current, OutsFacts
  <2>3. dest_cnt[c] \in DOMAIN Outs(c)
    BY <2>2, LenProperties
  <2> QED BY <1>0, <2>2, <2>3 DEF Outs, Dest
<1>14. PICK z, a, m : z = mem[b].pkt /\ a = arrived[i][c] /\ m = Before(c) + k[c]
  OBVIOUS
<1>15. /\ z = a[m] /\ m \in DOMAIN a /\ a \in Seq(Packet) /\ CameOnce(a, i) /\ m \in Nat
       /\ Before(c) \in Nat
  <2>1. a \in Seq(Packet)
    BY <1>13, <1>14, InputIsPort DEF EngineTyped, Queues
  <2>2. HandInOrder(c) /\ QueueInOrder(i, c)
    BY <1>13 DEF OrderInv, InOrder
  <2>3. Before(c) \in Nat /\ z = a[m]
    BY <1>0, <1>2, <1>14, <2>2 DEF HandInOrder
  <2>4. Before(c) = Fetched(i, c) - Len(pkts_burst[c]) /\ Fetched(i, c) \in Nat
    BY <1>0, <2>2 DEF Before, QueueInOrder
  <2>5. Fetched(i, c) = Len(a) - Len(rx[i][c]) /\ Len(a) \in Nat /\ Len(rx[i][c]) \in Nat
    <3>1. rx[i][c] \in Seq(Buffer)
      BY <1>1, <1>13, InputIsPort DEF NicTyped, Queues
    <3> QED BY <1>14, <2>1, <3>1, LenProperties DEF Fetched
  <2>6. m \in 1..Len(a)
    <3>1. PICK l, s, n, e, h : /\ l = Len(a) /\ s = Len(rx[i][c]) /\ n = Len(pkts_burst[c])
                               /\ e = Before(c) /\ h = k[c]
      OBVIOUS
    <3>2. e = l - s - n /\ l \in Nat /\ s \in Nat /\ n \in Nat
      BY ONLY <1>13, <2>4, <2>5, <3>1
    <3>3. h \in 1..n /\ e \in Nat /\ m = e + h
      BY ONLY <1>13, <1>14, <2>3, <3>1
    <3>4. m \in 1..l
      BY ONLY <3>2, <3>3
    <3> QED BY <3>1, <3>4
  <2> QED BY <1>14, <2>1, <2>2, <2>3, <2>6, LenProperties DEF QueueInOrder
<1>16. z \in Packet /\ Arrival[z].port = i
  BY <1>15, ElementOfSeq, LenProperties DEF CameOnce
<1>17. Line(p, c)' = Append(Line(p, c), z)
  <2>1. PICK t, w, t1, w1 : t = tx[p][c] /\ w = Waits(p, c) /\ t1 = tx'[p][c] /\ w1 = Waits(p, c)'
    OBVIOUS
  <2>2. /\ t \in Seq(Buffer) /\ Len(t) \in Nat /\ w \in Seq(Packet) /\ Len(w) = Len(t)
        /\ \A j \in 1..Len(t) : w[j] = mem[t[j]].pkt
        /\ \A j \in 1..Len(t) : t[j] \in Buffer /\ On(t, t[j])
        /\ sent[p][c] \in Seq(Packet)
    BY <1>5, <2>1, WaitsFacts, LenProperties
  <2>3. /\ t1 \in Seq(Buffer) /\ Len(t1) = Len(t) + 1 /\ (\A j \in 1..Len(t) : t1[j] = t[j])
        /\ t1[Len(t) + 1] = b /\ DOMAIN t1 = 1..(Len(t) + 1)
    BY <1>3, <1>7, <2>1, <2>2, AppendProperties, LenProperties
  <2>4. mem'[b].pkt = z
    <3>1. ~ Idle(b)
      BY <1>0, <1>2 DEF Idle
    <3> QED BY <1>3, <1>9, <1>14, <3>1 DEF Quiet
  <2>5. \A j \in 1..Len(t) : mem'[t[j]].pkt = mem[t[j]].pkt
    BY <1>5, <1>9, <2>1, <2>2 DEF Quiet, Idle
  <2>6. w1 = [j \in 1..(Len(t) + 1) |-> mem'[t1[j]].pkt]
    BY <2>1, <2>3 DEF Waits
  <2>7. w1 = Append(w, z)
    <3>1. PICK v : v = Append(w, z)
      OBVIOUS
    <3>2. /\ v \in Seq(Packet) /\ Len(v) = Len(w) + 1 /\ (\A j \in 1..Len(w) : v[j] = w[j])
          /\ v[Len(w) + 1] = z
      BY <1>16, <2>2, <3>1, AppendRange
    <3>3. \A j \in 1..(Len(t) + 1) : mem'[t1[j]].pkt = v[j]
      <4>1. ASSUME NEW j \in 1..(Len(t) + 1) PROVE mem'[t1[j]].pkt = v[j]
        <5>1. CASE j = Len(t) + 1
          BY <2>2, <2>3, <2>4, <3>2, <5>1
        <5>2. CASE j # Len(t) + 1
          <6>1. j \in 1..Len(t)
            BY <2>2, <5>2
          <6> QED BY <2>2, <2>3, <2>5, <3>2, <6>1
        <5> QED BY <5>1, <5>2
      <4> QED BY <4>1
    <3>4. v = [j \in 1..(Len(t) + 1) |-> v[j]]
      BY <2>2, <3>2, LenProperties
    <3> QED BY <2>6, <3>1, <3>3, <3>4
  <2>8. sent[p][c] \o Append(w, z) = Append(sent[p][c] \o w, z)
    BY <1>16, <2>2, EndsWith
  <2> QED BY <1>2, <2>1, <2>7, <2>8 DEF Line
<1>18. ASSUME NEW q \in Input, NEW d \in DOMAIN OutPort[q], IsInjective(OutPort[q])
       PROVE  LineInOrder(q, c, d)'
  <2>1. q \in Port /\ OutPort[q][d] \in Port
    BY OutputFacts
  <2>2. LineInOrder(q, c, d) /\ QueueInOrder(q, c)
    BY DEF OrderInv, InOrder
  <2>3. CASE OutPort[q][d] # p
    <3>1. Line(OutPort[q][d], c)' = Line(OutPort[q][d], c)
      BY <1>2, <1>7, <1>9, <2>1, <2>3, LineStays
    <3>2. ~ (q = i /\ d = dest_cnt[c])
      BY <1>13, <2>3
    <3>3. Through(q, c, d)' = Through(q, c, d)
      BY <1>12, <3>2
    <3> QED BY <1>2, <2>1, <2>2, <3>1, <3>3, LineInOrderStays
  <2>4. CASE OutPort[q][d] = p
    <3>1. PICK left, came, n : left = Line(p, c) /\ came = arrived[q][c] /\ n = Through(q, c, d)
      OBVIOUS
    <3>2. left \in Seq(Packet) /\ came \in Seq(Packet)
      BY <1>5, <2>1, <3>1, WaitsFacts DEF EngineTyped, Queues
    <3>3. SentUpTo(left, came, q, n) /\ CameOnce(came, q)
      BY <1>18, <2>2, <2>4, <3>1 DEF LineInOrder, QueueInOrder
    <3>4. SentUpTo(Append(left, z), came, q, Through(q, c, d)')
      <4>1. CASE q # i
        <5>1. Through(q, c, d)' = n
          BY <1>12, <3>1, <4>1
        <5> QED BY <1>16, <3>2, <3>3, <4>1, <5>1, OtherJoins
      <4>2. CASE q = i
        <5>1. d = dest_cnt[c]
          BY <1>13, <1>18, <2>4, <4>2 DEF IsInjective
        <5>2. n = Before(c) + k[c] - 1
          BY <1>0, <3>1, <4>2, <5>1, <1>13, OutputFacts DEF Through
        <5>3. n + 1 = m /\ Through(q, c, d)' = n + 1
          BY <1>12, <1>13, <1>14, <1>15, <3>1, <4>2, <5>1, <5>2
        <5>4. n + 1 \in DOMAIN came /\ z = came[n + 1]
          BY <1>14, <1>15, <3>1, <4>2, <5>3
        <5> QED BY <3>2, <3>3, <5>3, <5>4, NextJoins
      <4> QED BY <4>1, <4>2
    <3>5. Line(OutPort[q][d], c)' = Append(left, z) /\ arrived'[q][c] = came
      BY <1>2, <1>17, <2>4, <3>1
    <3>6. PICK n1 : n1 = Through(q, c, d)'
      OBVIOUS
    <3> QED BY <3>4, <3>5, <3>6 DEF LineInOrder, SentUpTo, InLine
  <2> QED BY <2>3, <2>4
<1>19. ASSUME NEW q \in Input, NEW d \in DOMAIN OutPort[q] PROVE LineInOrder(q, c, d)'
  BY <1>18 DEF LineInOrder
<1> QED BY <1>10, <1>11, <1>12, <1>19 DEF OrderInv, InOrder

(* Every step keeps the order.                                             *)
LEMMA NextOrder ==
    ASSUME OwnInv, ContentsInv, EngineTyped, OrderInv, [Next]_vars
    PROVE  OrderInv'
<1>1. CASE NicReceive
  BY <1>1, NicReceiveOrder
<1>2. ASSUME NEW p \in Port, NEW c \in Core, NicSend(p, c) PROVE OrderInv'
  BY <1>2, NicSendOrder
<1>3. ASSUME NEW c \in Core, MainLoop(c) PROVE OrderInv'
  BY <1>3, RxBurstEmptyOrder, RxBurstOrder, CopyOrder, ProcessOrder, TransmitOrder DEF MainLoop
<1>4. CASE FlowExpires \/ UNCHANGED vars
  <2>1. UNCHANGED <<pc, loop, copy_mbuf, rx, tx, arrived, sent, mem>>
    BY <1>4 DEF FlowExpires, vars, nic
  <2>2. Quiet /\ \A c \in Core : Rests(c)
    BY <2>1, AllRest DEF Quiet
  <2> QED BY <2>1, <2>2, CoreStays DEF OrderInv
<1> QED BY <1>1, <1>2, <1>3, <1>4 DEF Next

(* main_loop sends what came to an input port's queue by each of the       *)
(* port's outputs in the order it came, each packet once: with any number  *)
(* of ports, cores and packets, however the bursts fall, however long the  *)
(* rings are full or the copies used up.                                   *)
THEOREM OrderKept == Spec => []SentInOrder
<1>1. Init => OrderInv
  BY InitOrder
<1>2. IInv /\ OrderInv /\ [Next]_vars => OrderInv'
  BY NextOrder DEF IInv
<1>3. ASSUME IInv, OrderInv PROVE SentInOrder
  <2>1. ASSUME NEW q \in Input, NEW c \in Core, NEW p \in Port,
               p \in Range(OutPort[q]), IsInjective(OutPort[q])
        PROVE  \E n \in 0..Len(arrived[q][c]) : InLine(Line(p, c), arrived[q][c], q, n)
    <3>1. PICK d \in DOMAIN OutPort[q] : OutPort[q][d] = p
      BY <2>1 DEF Range
    <3>2. LineInOrder(q, c, d)
      BY <1>3 DEF OrderInv, InOrder
    <3> QED BY <2>1, <3>1, <3>2 DEF LineInOrder, SentUpTo
  <2> QED BY <2>1 DEF SentInOrder
<1> QED BY <1>1, <1>2, <1>3, Inductive, PTL DEF Spec

-----------------------------------------------------------------------------
(* Which buffers each place may hold, while each port sends either         *)
(* received buffers or copies.                                             *)

LastPort(p) == \E q \in Input : p = Last(OutPort[q])

(* The buffers port p sends.                                               *)
Role(p) ==
    IF ~ RolesSeparate THEN Buffer ELSE IF LastPort(p) THEN Buf ELSE CopyBuf

PoolRoles == \A pool \in Pool : \A b \in free[pool] : Home(b) = pool

NicRoles ==
    \A p \in Port, c \in Core :
        rx[p][c] \in Seq(Buf) /\ tx[p][c] \in Seq(Role(p)) /\ done[p][c] \subseteq Role(p)

LoopRoles ==
    \A c \in Core : pkts_burst[c] \in Seq(Buf) /\ copy_mbuf[c] \in CopyBuf \cup {None}

Roles == PoolRoles /\ NicRoles /\ LoopRoles

(* RTE_ETH_TX_OFFLOAD_MBUF_FAST_FREE is set only if roles are separate.    *)
Allowed == RolesSeparate \/ ~ FastFree

(* The buffer a core transmits is of its port's role.                      *)
LEMMA MbufRole ==
    ASSUME OwnInv, LoopRoles, NEW c \in Core, pc[c] \in {"process", "transmit"}
    PROVE  Dest(c) \in Port /\ Mbuf(c) \in Role(Dest(c))
<1>1. /\ dest_cnt[c] \in 1 .. Len(Outs(c)) /\ k[c] \in 1 .. Len(pkts_burst[c])
      /\ IsLast(c) \/ copy_mbuf[c] # None
      /\ pkts_burst[c] \in Seq(Buf) /\ copy_mbuf[c] \in CopyBuf \cup {None}
  BY DEF OwnInv, InLoopInv, InLoop, LoopRoles
<1>2. In(c) \in Input /\ Outs(c) \in Seq(Port) /\ Len(Outs(c)) \in Nat /\ Len(Outs(c)) >= 1
  BY OutsFacts DEF OwnInv, InLoopInv
<1>3. Dest(c) \in Port
  BY <1>1, <1>2, ElementOfSeq DEF Dest
<1>4. CASE IsLast(c)
  <2>1. Mbuf(c) \in Buf
    BY <1>1, <1>4, ElementOfSeq DEF Mbuf
  <2>2. LastPort(Dest(c))
    BY <1>2, <1>4 DEF IsLast, Dest, Outs, Last, LastPort
  <2> QED BY <1>3, <2>1, <2>2 DEF Role, Buffer
<1>5. CASE ~ IsLast(c)
  <2>1. Mbuf(c) \in CopyBuf
    BY <1>1, <1>5 DEF Mbuf
  <2>2. dest_cnt[c] \in 1 .. Len(Outs(c)) - 1
    BY <1>1, <1>2, <1>5 DEF IsLast
  <2>3. /\ Front(Outs(c)) = [i \in 1 .. Len(Outs(c)) - 1 |-> Outs(c)[i]]
    BY <1>2 DEF Front
  <2>4. Dest(c) \in Range(Front(OutPort[In(c)]))
    BY <2>2, <2>3 DEF Dest, Outs, Range
  <2>5. RolesSeparate => ~ LastPort(Dest(c))
    BY <1>2, <2>4 DEF RolesSeparate, LastPort
  <2> QED BY <1>3, <2>1, <2>5 DEF Role, Buffer
<1> QED BY <1>4, <1>5

(* What a core transmits keeps the port's role, and what the call frees    *)
(* goes where it belongs.                                                  *)
LEMMA TxBurstRoles ==
    ASSUME Allowed, OwnInv, PoolRoles, NicRoles, NEW p \in Port, NEW c \in Core,
           NEW b \in Role(p), TxBurst(p, c, b), rx' = rx
    PROVE  PoolRoles' /\ NicRoles'
<1>1. /\ tx \in Queues(Seq(Buffer)) /\ done \in Queues(SUBSET Buffer) /\ free \in [Pool -> SUBSET Buffer]
      /\ \A x \in Port, y \in Core : /\ rx[x][y] \in Seq(Buf)
                                     /\ tx[x][y] \in Seq(Role(x)) /\ done[x][y] \subseteq Role(x)
  BY DEF OwnInv, NicTyped, NicRoles
<1>2. tx' = [tx EXCEPT ![p][c] = Append(@, b)]
  BY DEF TxBurst
<1>3. Append(tx[p][c], b) \in Seq(Role(p))
  BY <1>1, AppendProperties
<1>4. \A x \in Port, y \in Core : tx'[x][y] \in Seq(Role(x))
  BY <1>1, <1>2, <1>3 DEF Queues
<1>5. CASE UNCHANGED <<done, free>>
  BY <1>1, <1>4, <1>5 DEF PoolRoles, NicRoles, Role
<1>6. CASE free' \in Freed(done[p][c]) /\ done' = [done EXCEPT ![p][c] = {}]
  <2>1. \A x \in Port, y \in Core : done'[x][y] \subseteq Role(x)
    BY <1>1, <1>6 DEF Queues
  <2>2. NicRoles'
    BY <1>1, <1>4, <2>1 DEF NicRoles, Role
  <2>3. PoolRoles'
    <3>1. CASE ~ FastFree
      <4>1. free' = [pool \in Pool |-> free[pool] \cup {x \in done[p][c] : Home(x) = pool}]
        BY <1>6, <3>1 DEF Freed
      <4> QED BY <4>1 DEF PoolRoles, Home
    <3>2. CASE FastFree
      <4>1. PICK x \in done[p][c] : free' = [free EXCEPT ![Home(x)] = @ \cup done[p][c]]
        BY <1>6, <3>2 DEF Freed
      <4>2. \A y \in done[p][c] : Home(y) = Home(x)
        <5>1. RolesSeparate
          BY <3>2 DEF Allowed
        <5>2. done[p][c] \subseteq Buf \/ done[p][c] \subseteq CopyBuf
          BY <1>1, <5>1 DEF Role
        <5>3. Buf \cap CopyBuf = {}
          BY ForwarderAssumption
        <5> QED BY <5>2, <5>3, <4>1 DEF Home
      <4> QED BY <1>1, <4>1, <4>2 DEF PoolRoles, Home
    <3> QED BY <3>1, <3>2
  <2> QED BY <2>2, <2>3
<1> QED BY <1>5, <1>6 DEF TxBurst

(* The program starts with all buffers at home.                            *)
LEMMA InitRoles == Init => Roles
<1> SUFFICES ASSUME Init PROVE Roles
  OBVIOUS
<1>1. PoolRoles
  BY ForwarderAssumption DEF Init, Pool, Home, PoolRoles
<1>2. \A S : << >> \in Seq(S)
  BY EmptySeq
<1>3. NicRoles
  BY <1>2 DEF Init, NicRoles
<1>4. LoopRoles
  BY <1>2 DEF Init, LoopRoles
<1> QED BY <1>1, <1>3, <1>4 DEF Roles

(* A buffer from a pool's free ones is one of the pool.                    *)
LEMMA FromPool ==
    ASSUME OwnInv, PoolRoles
    PROVE  free["pktmbuf_pool"] \subseteq Buf /\ free["pktmbuf_pool2"] \subseteq CopyBuf
<1>1. \A pool \in Pool : free[pool] \subseteq Buf \cup CopyBuf
  BY DEF OwnInv, NicTyped, Buffer
<1>2. "pktmbuf_pool" \in Pool /\ "pktmbuf_pool2" \in Pool
  BY DEF Pool
<1> QED BY <1>1, <1>2 DEF PoolRoles, Home

(* Received buffers come from the received buffers' pool, copies from the  *)
(* other, and Transmit hands over a buffer of the port's role.             *)
LEMMA NextRoles ==
    ASSUME OwnInv, Roles, Allowed, [Next]_vars
    PROVE  Roles'
<1>1. PoolRoles /\ NicRoles /\ LoopRoles
  BY DEF Roles
<1>2. /\ rx \in Queues(Seq(Buffer)) /\ tx \in Queues(Seq(Buffer)) /\ done \in Queues(SUBSET Buffer)
      /\ free \in [Pool -> SUBSET Buffer]
      /\ pkts_burst \in [Core -> Seq(Buffer)] /\ copy_mbuf \in [Core -> Buffer \cup {None}]
  BY DEF OwnInv, NicTyped, InLoopInv, LoopTyped
<1>3. ASSUME UNCHANGED free PROVE PoolRoles'
  BY <1>1, <1>3 DEF PoolRoles
<1>4. ASSUME UNCHANGED <<rx, tx, done>> PROVE NicRoles'
  BY <1>1, <1>4 DEF NicRoles, Role
<1>5. ASSUME UNCHANGED <<pkts_burst, copy_mbuf>> PROVE LoopRoles'
  BY <1>1, <1>5 DEF LoopRoles
<1>6. CASE NicReceive
  <2>1. PICK x \in Packet, b \in free["pktmbuf_pool"] :
           /\ free' = [free EXCEPT !["pktmbuf_pool"] = @ \ {b}]
           /\ rx' = [rx EXCEPT ![Arrival[x].port][Arrival[x].core] = Append(@, b)]
           /\ UNCHANGED <<tx, done, loop, copy_mbuf>>
    BY <1>6, Zenon DEF NicReceive
  <2>2. Arrival[x].port \in Port /\ Arrival[x].core \in Core
    <3>1. Arrival[x] \in [port : Input, core : Core, bytes : Bytes]
      BY ForwarderAssumption
    <3> QED BY <3>1, InputIsPort
  <2>3. b \in Buf
    BY <1>1, <2>1, FromPool
  <2>4. PoolRoles'
    BY <1>1, <1>2, <2>1 DEF PoolRoles
  <2>5. Append(rx[Arrival[x].port][Arrival[x].core], b) \in Seq(Buf)
    BY <1>1, <2>2, <2>3, AppendProperties DEF NicRoles
  <2>6. NicRoles'
    BY <1>1, <1>2, <2>1, <2>2, <2>5, Zenon DEF NicRoles, Queues, Role
  <2> QED BY <1>5, <2>1, <2>4, <2>6 DEF Roles, loop
<1>7. ASSUME NEW p \in Port, NEW c \in Core, NicSend(p, c) PROVE Roles'
  <2>1. /\ tx[p][c] # << >>
        /\ done' = [done EXCEPT ![p][c] = @ \cup {Head(tx[p][c])}]
        /\ tx' = [tx EXCEPT ![p][c] = Tail(@)]
        /\ UNCHANGED <<rx, free, loop, copy_mbuf>>
    BY <1>7 DEF NicSend
  <2>2. Head(tx[p][c]) \in Role(p) /\ Tail(tx[p][c]) \in Seq(Role(p))
    BY <1>1, <2>1, HeadTailProperties DEF NicRoles
  <2>3. NicRoles'
    BY <1>1, <1>2, <2>1, <2>2, SMTT(60) DEF NicRoles, Queues, Role
  <2> QED BY <1>3, <1>5, <2>1, <2>3 DEF Roles, loop
<1>8. ASSUME NEW c \in Core, RxBurst(c) PROVE Roles'
  <2> DEFINE q == rx[In(c)][c]
             n == IF Len(q) < PKT_BURST_SZ THEN Len(q) ELSE PKT_BURST_SZ
  <2>1. In(c) \in Port
    BY OutsFacts DEF OwnInv, InLoopInv
  <2>2. q \in Seq(Buf) /\ q # << >>
    BY <1>1, <1>8, <2>1 DEF NicRoles, RxBurst
  <2>3. Len(q) \in Nat /\ n \in 1 .. Len(q)
    <3>1. Len(q) \in Nat /\ Len(q) # 0
      BY <2>2, EmptySeq, LenProperties
    <3>2. PKT_BURST_SZ \in Nat \ {0}
      BY ForwarderAssumption
    <3> QED BY <3>1, <3>2
  <2>4. SubSeq(q, 1, n) \in Seq(Buf) /\ SubSeq(q, n + 1, Len(q)) \in Seq(Buf)
    BY <2>2, <2>3, SubSeqProperties
  <2>5. /\ pkts_burst' = [pkts_burst EXCEPT ![c] = SubSeq(q, 1, n)]
        /\ rx' = [rx EXCEPT ![In(c)][c] = SubSeq(q, n + 1, Len(q))]
        /\ UNCHANGED <<tx, done, free, copy_mbuf>>
    BY <1>8 DEF RxBurst
  <2> HIDE DEF q, n
  <2>6. NicRoles'
    BY <1>1, <1>2, <2>1, <2>4, <2>5 DEF NicRoles, Queues, Role
  <2>7. LoopRoles'
    BY <1>1, <1>2, <2>4, <2>5 DEF LoopRoles
  <2> QED BY <1>3, <2>5, <2>6, <2>7 DEF Roles
<1>9. ASSUME NEW c \in Core, Copy(c) PROVE Roles'
  <2>1. PICK b \in free["pktmbuf_pool2"] :
           /\ free' = [free EXCEPT !["pktmbuf_pool2"] = @ \ {b}]
           /\ copy_mbuf' = [copy_mbuf EXCEPT ![c] = b]
    BY <1>9 DEF Copy
  <2>2. b \in CopyBuf
    BY <1>1, <2>1, FromPool
  <2>3. UNCHANGED <<rx, tx, done, pkts_burst>>
    BY <1>9 DEF Copy, loop
  <2>4. PoolRoles'
    BY <1>1, <1>2, <2>1 DEF PoolRoles
  <2>5. LoopRoles'
    BY <1>1, <1>2, <2>1, <2>2, <2>3 DEF LoopRoles
  <2> QED BY <1>4, <2>3, <2>4, <2>5 DEF Roles
<1>10. ASSUME NEW c \in Core, Transmit(c) PROVE Roles'
  <2>1. /\ pc[c] = "transmit" /\ TxBurst(Dest(c), c, Mbuf(c)) /\ rx' = rx
        /\ copy_mbuf' = [copy_mbuf EXCEPT ![c] = None] /\ NextPacket(c)
    BY <1>10 DEF Transmit
  <2>2. PoolRoles' /\ NicRoles'
    BY <1>1, <2>1, MbufRole, TxBurstRoles
  <2>3. pkts_burst' = pkts_burst \/ pkts_burst' = [pkts_burst EXCEPT ![c] = << >>]
    BY <2>1 DEF NextPacket
  <2>4. LoopRoles'
    BY <1>1, <1>2, <2>1, <2>3, EmptySeq DEF LoopRoles
  <2> QED BY <2>2, <2>4 DEF Roles
<1>11. ASSUME NEW c \in Core, MainLoop(c) PROVE Roles'
  <2>1. ASSUME RxBurstEmpty(c) \/ Process(c) PROVE Roles'
    BY <1>3, <1>4, <1>5, <2>1 DEF RxBurstEmpty, Process, nic, loop, Roles
  <2> QED BY <1>8, <1>9, <1>10, <1>11, <2>1 DEF MainLoop
<1>12. CASE FlowExpires \/ UNCHANGED vars
  BY <1>3, <1>4, <1>5, <1>12 DEF FlowExpires, vars, nic, loop, Roles
<1> QED BY <1>6, <1>7, <1>11, <1>12 DEF Next

(* main_loop, init_port: while no port sends both received buffers and     *)
(* copies, or the offload is not set, each place holds the buffers of its  *)
(* role: received buffers and copies never change places.                  *)
THEOREM BuffersKeepTheirRoles == Allowed /\ Spec => []Roles
<1>1. Init => Roles
  BY InitRoles
<1>2. IInv /\ Allowed /\ Roles /\ [Next]_vars => Roles'
  BY NextRoles DEF IInv
<1>3. Allowed => []Allowed
  <2>1. Allowed => Allowed'
    BY DEF Allowed, RolesSeparate
  <2> QED BY <2>1, PTL
<1> QED BY <1>1, <1>2, <1>3, Inductive, PTL DEF Spec

(* RTE_ETH_TX_OFFLOAD_MBUF_FAST_FREE (traffic_anon.c:394): under the same  *)
(* condition each pool gets back its own buffers, so that copying never    *)
(* drains the pool the NICs receive into, nor the other way round.         *)
THEOREM PoolsKept == Spec => []PoolsKeepTheirBuffers
<1>1. Allowed /\ IInv /\ Roles => PoolsKeepTheirBuffers
  BY DEF Roles, PoolRoles, PoolsKeepTheirBuffers
<1>2. ~ Allowed => PoolsKeepTheirBuffers
  BY DEF Allowed, PoolsKeepTheirBuffers
<1>3. ~ Allowed => []~ Allowed
  <2>1. ~ Allowed => (~ Allowed)'
    BY DEF Allowed, RolesSeparate
  <2> QED BY <2>1, PTL
<1>4. Allowed => []Allowed
  <2>1. Allowed => Allowed'
    BY DEF Allowed, RolesSeparate
  <2> QED BY <2>1, PTL
<1> QED BY <1>1, <1>2, <1>3, <1>4, BuffersKeepTheirRoles, Inductive, PTL

=============================================================================
