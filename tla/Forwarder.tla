----------------------------- MODULE Forwarder ------------------------------
(***************************************************************************)
(* The forwarding loop (main_loop, src/src/traffic_anon.c): every core     *)
(* polls its receive queue of every input port; each packet is copied for  *)
(* every output port of its input but the last, which gets the received    *)
(* buffer itself; copy or original, it is rewritten by process_packet for  *)
(* that port and put into the core's transmit queue there.                 *)
(*                                                                         *)
(* The NICs, their queues and the buffer pools are DPDK's: a transmit      *)
(* queue is a ring whose buffers come back to a pool only when the core    *)
(* calls rte_eth_tx_burst on it again. The engine is multiplexer_proto,    *)
(* with what AlphaAnon promises of the name table and one decision per TCP *)
(* flow, shared by all interfaces; which entry of the flow table holds the *)
(* decision, and who asked for external addresses, is left out (AnonEngine *)
(* and NameTable look inside).                                             *)
(***************************************************************************)
EXTENDS PacketPath, SequencesExt

CONSTANTS
    Core,         \* the forwarding threads
    Port,         \* the ports
    InPort,       \* in_interface[..].id, in order
    OutPort,      \* in_interface[..].out_port, in [the input ports -> Seq(Port)]
    out_interface,\* the settings of the ports
    FastFree,     \* whether the transmit queues free all buffers to the pool of one
    Buf, CopyBuf, \* the buffers made for pktmbuf_pool and for pktmbuf_pool2
    PKT_BURST_SZ, TX_QUEUE_SZ,
    Packet,       \* the packets that may arrive
    Arrival,      \* port, receive queue (which RSS picks) and bytes of each
    None

Input  == {InPort[i] : i \in DOMAIN InPort}
Buffer == Buf \cup CopyBuf
Pool   == {"pktmbuf_pool", "pktmbuf_pool2"}

ASSUME ForwarderAssumption ==
    /\ InPort \in Seq(Port) /\ InPort # << >>
    /\ OutPort \in [Input -> Seq(Port) \ {<< >>}]
    /\ out_interface \in [Port -> OutSetting]
    /\ FastFree \in BOOLEAN
    /\ Buf \cap CopyBuf = {} /\ None \notin Buffer \cup [pkt : Packet, bytes : Bytes]
    /\ PKT_BURST_SZ \in Nat \ {0} /\ TX_QUEUE_SZ \in Nat \ {0}
    /\ Arrival \in [Packet -> [port : Input, core : Core, bytes : Bytes]]
    /\ \A x \in Packet : /\ Arrival[x].bytes.src.under = << >>
                         /\ Arrival[x].bytes.dst.under = << >>
                         /\ ~ Arrival[x].bytes.random

VARIABLES
    rx,       \* rx[p][c]: the buffers in core c's receive queue of port p
    tx,       \* tx[p][c]: the buffers in core c's transmit queue of port p
    done,     \* done[p][c]: those the NIC has sent and nobody freed yet
    free,     \* free[pool]: the buffers in the pool
    mem,      \* mem[b]: the packet in buffer b and its bytes (None in a free one)
    pc,       \* where each core is in main_loop
    port_cnt, \* the loops' counters, from 1
    dest_cnt,
    k,
    pkts_burst, \* the buffers received
    copy_mbuf,  \* the copy being made
    askers,   \* the name table: the source addresses counted for each name
    passing,  \* the flow table: the flows with toAnon = 0
    arrived,  \* history: the packets that came to core c's queue of port p, in order
    sent      \* history: the packets that left port p from core c's queue, in order

nic    == <<rx, tx, done, free, arrived, sent>>
loop   == <<port_cnt, dest_cnt, k, pkts_burst>>
engine == <<askers, passing>>
vars   == <<nic, mem, pc, loop, copy_mbuf, engine>>

Queues(S) == [Port -> [Core -> S]]
Labels == {"poll", "copy", "process", "transmit"}

(* The addresses as process_packet makes them, and flows by them: the one  *)
(* and the other direction are one flow. One flow per pair of addresses.   *)
Shown == [host : Host, under : {<< >>} \cup {<<y>> : y \in Key}]
Flow  == {{a, b} : a, b \in Shown}

TypeOK ==
    /\ rx \in Queues(Seq(Buffer)) /\ tx \in Queues(Seq(Buffer)) /\ done \in Queues(SUBSET Buffer)
    /\ free \in [Pool -> SUBSET Buffer]
    /\ mem \in [Buffer -> [pkt : Packet, bytes : Bytes] \cup {None}]
    /\ pc \in [Core -> Labels] /\ port_cnt \in [Core -> DOMAIN InPort]
    /\ dest_cnt \in [Core -> Nat] /\ k \in [Core -> Nat]
    /\ pkts_burst \in [Core -> Seq(Buffer)] /\ copy_mbuf \in [Core -> Buffer \cup {None}]
    /\ askers \in [Name -> SUBSET Shown] /\ passing \subseteq Flow
    /\ arrived \in Queues(Seq(Packet)) /\ sent \in Queues(Seq(Packet))

Init ==
    /\ rx = [p \in Port |-> [c \in Core |-> << >>]] /\ tx = rx /\ sent = rx /\ arrived = rx
    /\ done = [p \in Port |-> [c \in Core |-> {}]]
    /\ free = [pool \in Pool |-> IF pool = "pktmbuf_pool" THEN Buf ELSE CopyBuf]
    /\ mem = [b \in Buffer |-> None]
    /\ pc = [c \in Core |-> "poll"] /\ port_cnt = [c \in Core |-> 1]
    /\ dest_cnt = [c \in Core |-> 1] /\ k = [c \in Core |-> 1]
    /\ pkts_burst = [c \in Core |-> << >>] /\ copy_mbuf = [c \in Core |-> None]
    /\ askers = [n \in Name |-> {}] /\ passing = {}

-----------------------------------------------------------------------------
(* The NICs.                                                               *)

(* A packet arrives in a buffer from pktmbuf_pool (rte_eth_rx_queue_setup  *)
(* in init_port).                                                          *)
NicReceive ==
    \E x \in Packet, b \in free["pktmbuf_pool"] :
        LET p == Arrival[x].port
            c == Arrival[x].core
        IN
        /\ x \notin Range(arrived[p][c])
        /\ arrived' = [arrived EXCEPT ![p][c] = Append(@, x)]
        /\ free' = [free EXCEPT !["pktmbuf_pool"] = @ \ {b}]
        /\ mem' = [mem EXCEPT ![b] = [pkt |-> x, bytes |-> Arrival[x].bytes]]
        /\ rx' = [rx EXCEPT ![p][c] = Append(@, b)]
        /\ UNCHANGED <<tx, done, sent, pc, loop, copy_mbuf, engine>>

NicSend(p, c) ==
    /\ tx[p][c] # << >>
    /\ LET b == Head(tx[p][c])
       IN  /\ done' = [done EXCEPT ![p][c] = @ \cup {b}]
           /\ sent' = [sent EXCEPT ![p][c] = Append(@, mem[b].pkt)]
    /\ tx' = [tx EXCEPT ![p][c] = Tail(@)]
    /\ UNCHANGED <<rx, free, arrived, mem, pc, loop, copy_mbuf, engine>>

Home(b) == IF b \in Buf THEN "pktmbuf_pool" ELSE "pktmbuf_pool2"

(* The pools after the buffers B were freed. With                          *)
(* RTE_ETH_TX_OFFLOAD_MBUF_FAST_FREE (init_port sets it) they all go where *)
(* one of them belongs.                                                    *)
Freed(B) ==
    IF FastFree
    THEN {[free EXCEPT ![Home(b)] = @ \cup B] : b \in B}
    ELSE {[pool \in Pool |-> free[pool] \cup {b \in B : Home(b) = pool}]}

(* rte_eth_tx_burst of buffer b: the buffers sent since are freed first,   *)
(* or are left for a later call if there is room.                          *)
TxBurst(p, c, b) ==
    \/ /\ Len(tx[p][c]) + Cardinality(done[p][c]) < TX_QUEUE_SZ
       /\ tx' = [tx EXCEPT ![p][c] = Append(@, b)]
       /\ UNCHANGED <<done, free, mem>>
    \/ /\ done[p][c] # {} /\ Len(tx[p][c]) < TX_QUEUE_SZ
       /\ tx' = [tx EXCEPT ![p][c] = Append(@, b)]
       /\ free' \in Freed(done[p][c])
       /\ mem' = [x \in Buffer |-> IF x \in done[p][c] THEN None ELSE mem[x]]
       /\ done' = [done EXCEPT ![p][c] = {}]

-----------------------------------------------------------------------------
(* main_loop.                                                              *)
Goto(c, label) == pc' = [pc EXCEPT ![c] = label]

In(c)   == InPort[port_cnt[c]]
Outs(c) == OutPort[In(c)]
Dest(c) == Outs(c)[dest_cnt[c]]
IsLast(c) == dest_cnt[c] = Len(Outs(c))

(* Slip: <= where main_loop has <.                                         *)
NextPortTooFar(c) == port_cnt' = [port_cnt EXCEPT ![c] = (@ % (Len(InPort) + 1)) + 1]

NextPort(c) == port_cnt' = [port_cnt EXCEPT ![c] = (@ % Len(InPort)) + 1]

RxBurstEmpty(c) ==
    /\ pc[c] = "poll" /\ rx[In(c)][c] = << >>
    /\ NextPort(c)
    /\ UNCHANGED <<nic, mem, pc, dest_cnt, k, pkts_burst, copy_mbuf, engine>>

(* The last output's packets go straight to process_packet, the others'    *)
(* are copied first.                                                       *)
FirstStep(c, d) == IF d = Len(Outs(c)) THEN "process" ELSE "copy"

RxBurst(c) ==
    /\ pc[c] = "poll" /\ rx[In(c)][c] # << >>
    /\ LET q == rx[In(c)][c]
           n == IF Len(q) < PKT_BURST_SZ THEN Len(q) ELSE PKT_BURST_SZ
       IN  /\ pkts_burst' = [pkts_burst EXCEPT ![c] = SubSeq(q, 1, n)]
           /\ rx' = [rx EXCEPT ![In(c)][c] = SubSeq(q, n + 1, Len(q))]
    /\ Goto(c, FirstStep(c, 1))
    /\ UNCHANGED <<tx, done, free, arrived, sent, mem, port_cnt, dest_cnt, k, copy_mbuf, engine>>

(* Slip: pkts_burst[0] is copied.                                          *)
CopyFirst(c) ==
    /\ pc[c] = "copy"
    /\ \E b \in free["pktmbuf_pool2"] :
         /\ free' = [free EXCEPT !["pktmbuf_pool2"] = @ \ {b}]
         /\ mem' = [mem EXCEPT ![b] = mem[pkts_burst[c][1]]]
         /\ copy_mbuf' = [copy_mbuf EXCEPT ![c] = b]
    /\ Goto(c, "process")
    /\ UNCHANGED <<rx, tx, done, arrived, sent, loop, engine>>

(* rte_pktmbuf_alloc (the core spins while pktmbuf_pool2 is empty) and the *)
(* copy of the received packet. Received packets have one segment:         *)
(* port_conf has no scattered receive.                                     *)
Copy(c) ==
    /\ pc[c] = "copy"
    /\ \E b \in free["pktmbuf_pool2"] :
         /\ free' = [free EXCEPT !["pktmbuf_pool2"] = @ \ {b}]
         /\ mem' = [mem EXCEPT ![b] = mem[pkts_burst[c][k[c]]]]
         /\ copy_mbuf' = [copy_mbuf EXCEPT ![c] = b]
    /\ Goto(c, "process")
    /\ UNCHANGED <<rx, tx, done, arrived, sent, loop, engine>>

(* Slip: the received buffer is taken where the copy was meant.            *)
MbufOriginal(c) == pkts_burst[c][k[c]]

(* The buffer to be rewritten and transmitted.                             *)
Mbuf(c) == IF IsLast(c) THEN pkts_burst[c][k[c]] ELSE copy_mbuf[c]

(* Slip: one user less is enough.                                          *)
AskEarly(m, s, v) ==
    /\ askers' = [askers EXCEPT ![m.name] = @ \cup {m.src}]
    /\ v => Cardinality(askers'[m.name]) + 1 >= s.alpha

(* table_add for the packet's name: its source, as it now is, is counted;  *)
(* the name passes (v) only if enough of them are.                         *)
Ask(m, s, v) ==
    /\ askers' = [askers EXCEPT ![m.name] = @ \cup {m.src}]
    /\ v => Cardinality(askers'[m.name]) >= s.alpha

FlowOf(m) == {m.src, m.dst}

Passes(m, flows) == m.proto = "tcp" /\ FlowOf(m) \in flows

Hidden(m) == [m EXCEPT !.readable = FALSE]
Verdict(m, v) == IF v THEN m ELSE Hidden(m)
Randomized(m) == [m EXCEPT !.random = TRUE]

(* Where external_ip is called for m, if it is, and is not told to pass:   *)
(* it makes ext of m, and flows are those that pass then. The address is   *)
(* shown, which passes a TCP flow for good; or hidden; or the flow was to  *)
(* be anonymized already: then only a destination is hidden, and the flow  *)
(* passes from now on.                                                     *)
ExternalIp(m, s, ext, flows) ==
    \/ /\ ~ CallsExternalIp(m, s) \/ Passes(m, passing)
       /\ ext = m /\ flows = passing
    \/ /\ CallsExternalIp(m, s) /\ m.proto = "udp"
       /\ ext \in {m, Randomized(m)} /\ flows = passing
    \/ /\ CallsExternalIp(m, s) /\ m.proto = "tcp" /\ ~ Passes(m, passing)
       /\ \/ ext = Randomized(m) /\ flows = passing
          \/ ext = m /\ flows = passing \cup {FlowOf(m)}
          \/ /\ m.dst.host \notin Anon
             /\ ext = Randomized(m) /\ flows = passing \cup {FlowOf(m)}

(* The decisions tlsHelloEntry and httpEntry may return where they find no *)
(* name: 0, and tlsHelloEntry also what was in a register (it has a path   *)
(* without a return).                                                      *)
NoNameFlags(m) == IF m.app = "tls" THEN {0, 1} ELSE {0}

(* The other modules, for bytes m that leave them as mm. A TCP flow's name *)
(* is asked about until the flow passes, a DNS packet's always. Without a  *)
(* name TCP passes, or what the register says; DNS packets are left alone, *)
(* or blanked (answers without records). What no module is for is blanked. *)
Modules(m, s, flows, mm) ==
    \/ /\ ~ Engaged(m, s) \/ LeftAlone(m, s) \/ (Managed(m, s) /\ Passes(m, flows))
       /\ mm = m /\ passing' = flows /\ UNCHANGED askers
    \/ /\ Engaged(m, s) /\ ~ LeftAlone(m, s) /\ ~ Managed(m, s)
       /\ mm = RemovePayload(m) /\ passing' = flows /\ UNCHANGED askers
    \/ /\ Managed(m, s) /\ m.found /\ ~ Passes(m, flows)
       /\ \E v \in BOOLEAN :
            /\ Ask(m, s, v) /\ mm = Verdict(m, v)
            /\ passing' = IF v /\ m.proto = "tcp" THEN flows \cup {FlowOf(m)} ELSE flows
    \/ /\ Managed(m, s) /\ ~ m.found /\ m.proto = "tcp" /\ ~ Passes(m, flows)
       /\ \E flag \in NoNameFlags(m) :
            passing' = IF flag = 0 THEN flows \cup {FlowOf(m)} ELSE flows
       /\ mm = m /\ UNCHANGED askers
    \/ /\ Managed(m, s) /\ ~ m.found /\ m.proto = "udp"
       /\ mm \in {m, RemovePayload(m)} /\ passing' = flows /\ UNCHANGED askers

(* multiplexer_proto, for bytes m that leave it as mm.                     *)
Engine(m, s, mm) ==
    \E ext \in {m, Randomized(m)}, flows \in {passing, passing \cup {FlowOf(m)}} :
        /\ ExternalIp(m, s, ext, flows)
        /\ Modules(ext, s, flows, mm)

(* What may become of m in it.                                             *)
Outcomes(m) == UNION {{x, Hidden(x), RemovePayload(x)} : x \in {m, Randomized(m)}}

(* process_packet for the port the packet is for, in the buffer.           *)
Process(c) ==
    /\ pc[c] = "process"
    /\ LET b == Mbuf(c)
           s == out_interface[Dest(c)]
       IN  \E m \in {ProcessPacket(mem[b].bytes, s)} : \E mm \in Outcomes(m) :
             /\ Engine(m, s, mm)
             /\ mem' = [mem EXCEPT ![b].bytes = mm]
    /\ Goto(c, "transmit")
    /\ UNCHANGED <<nic, loop, copy_mbuf>>

(* After a packet comes the next one of the burst, then the next output    *)
(* port, then the next input port.                                         *)
NextPacket(c) ==
    IF k[c] < Len(pkts_burst[c])
    THEN /\ k' = [k EXCEPT ![c] = @ + 1]
         /\ Goto(c, FirstStep(c, dest_cnt[c]))
         /\ UNCHANGED <<port_cnt, dest_cnt, pkts_burst>>
    ELSE /\ k' = [k EXCEPT ![c] = 1]
         /\ IF IsLast(c)
            THEN /\ dest_cnt' = [dest_cnt EXCEPT ![c] = 1]
                 /\ pkts_burst' = [pkts_burst EXCEPT ![c] = << >>]
                 /\ NextPort(c)
                 /\ Goto(c, "poll")
            ELSE /\ dest_cnt' = [dest_cnt EXCEPT ![c] = @ + 1]
                 /\ Goto(c, FirstStep(c, dest_cnt[c] + 1))
                 /\ UNCHANGED <<port_cnt, pkts_burst>>

(* Slip: nobody waits for room (no while around rte_eth_tx_burst).         *)
TransmitOnce(c) ==
    /\ pc[c] = "transmit"
    /\ IF Len(tx[Dest(c)][c]) < TX_QUEUE_SZ THEN TxBurst(Dest(c), c, Mbuf(c))
       ELSE UNCHANGED <<tx, done, free, mem>>
    /\ copy_mbuf' = [copy_mbuf EXCEPT ![c] = None]
    /\ NextPacket(c)
    /\ UNCHANGED <<rx, arrived, sent, engine>>

(* The core spins on rte_eth_tx_burst until the ring has room.             *)
Transmit(c) ==
    /\ pc[c] = "transmit"
    /\ TxBurst(Dest(c), c, Mbuf(c))
    /\ copy_mbuf' = [copy_mbuf EXCEPT ![c] = None]
    /\ NextPacket(c)
    /\ UNCHANGED <<rx, arrived, sent, engine>>

(* A flow expires and is forgotten (reference_flow's garbage collection).  *)
FlowExpires ==
    /\ \E f \in passing : passing' = passing \ {f}
    /\ UNCHANGED <<nic, mem, pc, loop, copy_mbuf, askers>>

MainLoop(c) == RxBurstEmpty(c) \/ RxBurst(c) \/ Copy(c) \/ Process(c) \/ Transmit(c)

Next ==
    \/ NicReceive
    \/ \E p \in Port, c \in Core : NicSend(p, c)
    \/ \E c \in Core : MainLoop(c)
    \/ FlowExpires

Spec == Init /\ [][Next]_vars

-----------------------------------------------------------------------------
(* Properties.                                                             *)

(* The places buffer b is in. An original that the last output's loop has  *)
(* transmitted is the NIC's, although pkts_burst still lists it.           *)
Places(b) ==
    {<<pool>> : pool \in {x \in Pool : b \in free[x]}}
    \cup {<<"copy_mbuf", c>> : c \in {x \in Core : copy_mbuf[x] = b}}
    \cup (UNION {{<<"pkts_burst", c, j>> :
                   j \in {x \in DOMAIN pkts_burst[c] :
                           pkts_burst[c][x] = b /\ ~ (IsLast(c) /\ x < k[c])}} : c \in Core})
    \cup (UNION {{<<"rx", p, c, j>> : j \in {x \in DOMAIN rx[p][c] : rx[p][c][x] = b}}
               \cup {<<"tx", p, c, j>> : j \in {x \in DOMAIN tx[p][c] : tx[p][c][x] = b}}
               \cup {<<"done", p, c>> : j \in {x \in {b} : x \in done[p][c]}}
                 : p \in Port, c \in Core})

(* main_loop's ownership of buffers: none is lost, freed twice, or kept    *)
(* after it was handed to the NIC, whatever the ports, the copies and the  *)
(* spinning on full queues.                                                *)
EveryBufferInOnePlace == \A b \in Buffer : Cardinality(Places(b)) = 1

(* What process_packet makes of packet x for port p, up to the engine.     *)
AtPort(x, p) == ProcessPacket(Arrival[x].bytes, out_interface[p])

(* What waits in a port's transmit queue is what process_packet makes of   *)
(* the packet as it was received, for that port alone: no copy shows what  *)
(* was rewritten for another port, and nothing is rewritten after the NIC  *)
(* has it. The engine may have hidden the name or the external address, or *)
(* blanked the payload.                                                    *)
AsIfAlone ==
    \A p \in Port, c \in Core : \A j \in DOMAIN tx[p][c] :
        LET e == mem[tx[p][c][j]]
        IN  e.bytes \in Outcomes(AtPort(e.pkt, p))

(* What left port p from core c's queue, and what waits there.             *)
Waits(p, c) == [x \in DOMAIN tx[p][c] |-> mem[tx[p][c][x]].pkt]
Line(p, c)  == sent[p][c] \o Waits(p, c)

(* Of q's packets that came, the first n are in the line, in that order.   *)
InLine(left, came, q, n) ==
    /\ {z \in Range(left) : Arrival[z].port = q} = {came[m] : m \in 1..n}
    /\ \A x, y \in DOMAIN left, m, o \in DOMAIN came :
         left[x] = came[m] /\ left[y] = came[o] => (x < y <=> m < o)

(* The packets an input port's core queue received leave every one of its  *)
(* output ports in the order they came, each once: bursts, copies and full *)
(* queues neither drop, repeat nor reorder any. (A port that is an output  *)
(* of one input twice, as main_loop is free to have it, is left aside.)    *)
SentInOrder ==
    \A q \in Input, c \in Core, p \in Port :
        p \in Range(OutPort[q]) /\ IsInjective(OutPort[q]) =>
            \E n \in 0..Len(arrived[q][c]) : InLine(Line(p, c), arrived[q][c], q, n)

(* Ports send either received buffers or copies, not both.                 *)
RolesSeparate ==
    \A p, q \in Input : Last(OutPort[p]) \notin Range(Front(OutPort[q]))

(* What RTE_ETH_TX_OFFLOAD_MBUF_FAST_FREE demands of the program: as long  *)
(* as the roles are separate each pool gets back its own buffers, so       *)
(* copying never drains the pool the NICs receive into.                    *)
PoolsKeepTheirBuffers ==
    RolesSeparate \/ ~ FastFree => \A pool \in Pool : \A b \in free[pool] : Home(b) = pool

(* Those counted for a name stand for that many hosts at least: each one   *)
(* counts once for every key its address is shown under.                   *)
Backed(n, alpha) ==
    alpha <= Cardinality({a.host : a \in askers[n]}) * Cardinality({a.under : a \in askers[n]})

(* The packets that have come.                                             *)
Came == UNION {Range(arrived[p][c]) : p \in Port, c \in Core}

(* multiplexer_proto may let the TCP flow of m pass without the count of a *)
(* name behind it: no name is found in m, or the verdict is external_ip's. *)
PassesUnasked(m, s) ==
    /\ m.proto = "tcp"
    /\ CallsExternalIp(m, s) \/ (Managed(m, s) /\ ~ m.found)

(* Something like that has come for flow f.                                *)
Unasked(f) ==
    \E x \in Came, q \in Port :
        FlowOf(AtPort(x, q)) = f /\ PassesUnasked(AtPort(x, q), out_interface[q])

(* A name of flow f has come that enough have asked for, for the alpha of  *)
(* some interface.                                                         *)
Granted(f) ==
    \E x \in Came, q \in Port :
        FlowOf(AtPort(x, q)) = f /\ Backed(AtPort(x, q).name, out_interface[q].alpha)

(* A name that a module would find, and that leaves readable, was judged   *)
(* with the alpha of the interface it leaves by. In a TCP flow, because a  *)
(* flow that passes on one interface passes on all that show the same      *)
(* addresses, it was another name of the flow perhaps, with another        *)
(* interface's alpha; or something has come that lets the flow pass        *)
(* unasked.                                                                *)
NameBacked ==
    \A p \in Port, c \in Core : \A x \in DOMAIN tx[p][c] :
        LET m == mem[tx[p][c][x]].bytes
        IN  Managed(m, out_interface[p]) /\ m.found /\ m.readable =>
                IF m.proto = "udp" THEN Backed(m.name, out_interface[p].alpha)
                ELSE Granted(FlowOf(m)) \/ Unasked(FlowOf(m))

(* What has come has left by all its output ports.                         *)
AllHaveLeft ==
    \A q \in Input, c \in Core : \A x \in Range(arrived[q][c]) :
        \A p \in Range(OutPort[q]) : x \in Range(sent[p][c])

(* main_loop waits for copies that only the cores can give back, each when *)
(* it next transmits to the port that had them, and for room in a queue,   *)
(* which only the NIC makes: as long as something has not left, a NIC has  *)
(* something to send, or a core has something to do other than wait for a  *)
(* copy or for a packet. There must be more copies than the transmit       *)
(* queues may hold back of them: TX_QUEUE_SZ for each core and port that   *)
(* gets copies.                                                            *)
WaitsForCopy(c) == pc[c] = "copy" /\ free["pktmbuf_pool2"] = {}
NothingToDo(c) == pc[c] = "poll" /\ \A p \in Input : rx[p][c] = << >>

NoStandstill ==
    /\ \A c \in Core : WaitsForCopy(c) \/ NothingToDo(c)
    /\ \A p \in Port, c \in Core : tx[p][c] = << >>
    => AllHaveLeft

=============================================================================
