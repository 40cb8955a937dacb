---------------------------- MODULE AnonEngine -----------------------------
(***************************************************************************)
(* The anonymization engine on IPv4 packets: multiplexer_proto             *)
(* (src/src/proto_mng.c) with the external-IP, TLS, HTTP and DNS modules   *)
(* it calls, over the flow table of FlowTable. The name table is what      *)
(* AlphaAnon promises of it (NameTable implements that): table_add records *)
(* the packet's source as an asker of the name and answers below alpha, or *)
(* at alpha and above if alpha sources have asked. What httpEntry and      *)
(* tlsHelloEntry find in a packet is that of HttpEntry and TlsHello.       *)
(*                                                                         *)
(* A packet is its 5-tuple; what it carries is chosen when the detector    *)
(* looks at it.                                                            *)
(***************************************************************************)
EXTENDS FlowTable, HttpEntry, TlsHello

CONSTANTS
    Setting,   \* the engine's part of the output interfaces' settings
    External,  \* the addresses outside anon_subnet_file
    Payload    \* what TCP packets carry: [kind |-> "text", bytes |-> ...] or
               \* [kind |-> "hello", hello |-> ...]

ASSUME EngineAssumption ==
    Setting \subseteq [ext : BOOLEAN, tls : BOOLEAN, http : BOOLEAN, dns : BOOLEAN, alpha : Nat]

(* httpEntry and tlsHelloEntry: the name they find, << >> if they give up, *)
(* and what they may return then.                                          *)
NameIn(p) == IF p.kind = "hello" THEN ServerName(p.hello) ELSE HostName(p.bytes)
NoNameFlags(p) == IF p.kind = "hello" THEN WithoutName(p.hello) ELSE {0}

(* The names there are.                                                    *)
Host == {NameIn(p) : p \in Payload} \ {<< >>}

VARIABLES
    askers,     \* what the name table knows: the sources that asked for each name
    seen,       \* history: the toAnon external_ip found, -1 if it was not called
    flag,       \* what the module returned to multiplexer_proto
    addr,       \* the external address of the core's packet (AddrKind)
    looked      \* history: the time of the flow's last reference_flow, or Never

flows == <<clock, chain, entry, segv>>
vars  == <<flows, pc, pkt, flusso, askers, seen, flag, addr, looked>>

Never == -1

Labels == {"idle", "extLookup", "extCall", "extStore",
           "detect", "lookup", "call", "store", "send"}

Packet == [tuple : Tuple, time : Nat, k : Setting, payload : Payload \cup {None}]

(* As received, random, or another flow's random address.                  *)
AddrKind == {"clear", "random", "foreign"}

TypeOK ==
    /\ clock \in Nat /\ chain \in [Bucket -> Seq(Address)]
    /\ entry \in [Address -> TableFlow] /\ segv \in BOOLEAN
    /\ pc \in [Core -> Labels] /\ pkt \in [Core -> Packet \cup {None}]
    /\ flusso \in [Core -> Address \cup {None}]
    /\ askers \in [External \cup Host -> SUBSET {x.src : x \in Tuple}]
    /\ seen \in [Core -> Decision] /\ flag \in [Core -> {0, 1}] /\ addr \in [Core -> AddrKind]
    /\ looked \in [Tuple -> Nat \cup {Never}]

Init ==
    /\ FlowTableInit
    /\ pc = [c \in Core |-> "idle"] /\ pkt = [c \in Core |-> None]
    /\ flusso = [c \in Core |-> None]
    /\ askers = [n \in External \cup Host |-> {}]
    /\ seen = [c \in Core |-> -1] /\ flag = [c \in Core |-> 0]
    /\ addr = [c \in Core |-> "clear"]
    /\ looked = [x \in Tuple |-> Never]

-----------------------------------------------------------------------------
(* A core is slow by at most MaxSkew between its clock read and its last   *)
(* step with the packet.                                                   *)
Tick ==
    /\ ~ segv /\ clock < MaxTime
    /\ \A c \in Core : pc[c] # "idle" => clock + 1 - pkt[c].time <= MaxSkew
    /\ clock' = clock + 1
    /\ UNCHANGED <<chain, entry, segv, pc, pkt, flusso, askers, seen, flag, addr, looked>>

At(c, label)   == ~ segv /\ pc[c] = label
Goto(c, label) == pc' = [pc EXCEPT ![c] = label]

(* ip_origin: 0 inside to inside, 1 inside to outside, 10 outside to       *)
(* inside, 11 outside to outside.                                          *)
Origin(x) == (IF x.src \in External THEN 10 ELSE 0) + (IF x.dst \in External THEN 1 ELSE 0)

ExternalAddress(x) == IF Origin(x) = 10 THEN x.src ELSE x.dst

(* A packet reaches the switch of multiplexer_proto.                       *)
Receive(c) ==
    /\ At(c, "idle")
    /\ \E x \in Tuple, k \in Setting :
         /\ CoreOf[x] = c
         /\ pkt' = [pkt EXCEPT ![c] = [tuple |-> x, time |-> clock, k |-> k, payload |-> None]]
         /\ Goto(c, IF k.ext /\ x.protocol \in {"TCP", "UDP"} /\ Origin(x) \in {1, 10}
                    THEN "extLookup" ELSE "detect")
    /\ UNCHANGED <<flows, flusso, askers, seen, flag, addr, looked>>

(* table_add for name n: v is whether the caller's "ret < k_anon" is false.*)
Ask(c, n) == askers' = [askers EXCEPT ![n] = @ \cup {pkt[c].tuple.src}]

TableAdd(c, n, v) ==
    /\ Ask(c, n)
    /\ v => Cardinality(askers'[n]) >= pkt[c].k.alpha

-----------------------------------------------------------------------------
(* reference_flow for the core's packet.                                   *)
FindFlow(c) ==
    /\ Reference(c)
    /\ looked' = [x \in Tuple |-> IF Same(x, pkt[c].tuple) THEN pkt[c].time ELSE looked[x]]

(* The external-IP module.                                                 *)
ExtReference(c) ==
    /\ At(c, "extLookup")
    /\ FindFlow(c)
    /\ Goto(c, "extCall")
    /\ UNCHANGED <<clock, pkt, askers, seen, flag, addr>>

(* The packet's core is the only one to write its flow's toAnon (RSS), so  *)
(* multiplexer_proto and external_ip read the same value.                  *)
ToAnon(c) == entry[flusso[c]].toAnon

(* "if (flusso->toAnon == -1 || flusso->toAnon == 1)" is false.            *)
ExtSkip(c) ==
    /\ At(c, "extCall") /\ ToAnon(c) = 0
    /\ Goto(c, "detect")
    /\ UNCHANGED <<flows, pkt, flusso, askers, seen, flag, addr, looked>>

(* external_ip for an undecided flow: a hidden address is drawn at random  *)
(* and remembered in the flow's entry.                                     *)
ExtJudge(c) ==
    /\ At(c, "extCall") /\ ToAnon(c) = -1
    /\ \E v \in BOOLEAN :
         /\ TableAdd(c, ExternalAddress(pkt[c].tuple), v)
         /\ flag' = [flag EXCEPT ![c] = IF v THEN 0 ELSE 1]
         /\ entry' = IF v THEN entry ELSE [entry EXCEPT ![flusso[c]].ipv4_anon = TRUE]
         /\ addr' = IF v THEN addr ELSE [addr EXCEPT ![c] = "random"]
    /\ Goto(c, "extStore")
    /\ UNCHANGED <<clock, chain, segv, pkt, flusso, seen, looked>>

(* external_ip for a flow under anonymization: only a destination gets the *)
(* address remembered; for a source that code is inside "toAnon == -1".    *)
(* The return value is 0 either way.                                       *)
ExtReuse(c) ==
    /\ At(c, "extCall") /\ ToAnon(c) = 1
    /\ addr' = IF Origin(pkt[c].tuple) = 10 THEN addr
               ELSE [addr EXCEPT ![c] = IF entry[flusso[c]].ipv4_anon THEN "random" ELSE "foreign"]
    /\ seen' = [seen EXCEPT ![c] = 1]
    /\ flag' = [flag EXCEPT ![c] = 0]
    /\ Goto(c, "extStore")
    /\ UNCHANGED <<flows, pkt, flusso, askers, looked>>

(* The UDP branch compares instead of assigning: "flusso->toAnon == 1;".   *)
ExtStore(c) ==
    /\ At(c, "extStore")
    /\ IF pkt[c].tuple.protocol = "TCP" THEN SetToAnon(c, flag[c]) ELSE UNCHANGED entry
    /\ flag' = [flag EXCEPT ![c] = 0]
    /\ Goto(c, "detect")
    /\ UNCHANGED <<clock, chain, segv, pkt, flusso, askers, seen, addr, looked>>

-----------------------------------------------------------------------------
(* proto_detector and the branch taken for what it finds.                  *)

(* isTls and isHttp: a client hello, or "get" or "post" anywhere.          *)
Detected(p) ==
    CASE p.kind = "hello" -> "tls"
      [] p.kind = "text" /\ (Find(p.bytes, "GET") # 0 \/ Find(p.bytes, "POST") # 0) -> "http"
      [] OTHER -> "other"

(* TLS and HTTP go through the flow table if their module is enabled, else *)
(* they pass as they are.                                                  *)
DetectManaged(c) ==
    /\ At(c, "detect") /\ pkt[c].tuple.protocol = "TCP"
    /\ \E p \in {x \in Payload : Detected(x) # "other"} :
         IF pkt[c].k[Detected(p)]
         THEN pkt' = [pkt EXCEPT ![c].payload = p] /\ Goto(c, "lookup")
         ELSE UNCHANGED pkt /\ Goto(c, "send")
    /\ UNCHANGED <<flows, flusso, askers, seen, flag, addr, looked>>

(* DNS over UDP asks the name table about the name of every packet it can  *)
(* parse (see DnsEntry) and has no use for the flow table.                 *)
DetectDns(c) ==
    /\ At(c, "detect") /\ pkt[c].tuple.protocol = "UDP" /\ pkt[c].k.dns
    /\ \/ \E n \in Host : Ask(c, n)
       \/ UNCHANGED askers
    /\ Goto(c, "send")
    /\ UNCHANGED <<flows, pkt, flusso, seen, flag, addr, looked>>

(* Anything else has no name left to protect: remove_payload blanks it (as *)
(* it does for DNS answers without records), or it passes as it is on the  *)
(* ports of SSH and HTTPS.                                                 *)
DetectOther(c) ==
    /\ At(c, "detect")
    /\ Goto(c, "send")
    /\ UNCHANGED <<flows, pkt, flusso, askers, seen, flag, addr, looked>>

ManagedReference(c) ==
    /\ At(c, "lookup")
    /\ FindFlow(c)
    /\ Goto(c, "call")
    /\ UNCHANGED <<clock, pkt, askers, seen, flag, addr>>

(* What the packet carries matters no more to multiplexer_proto.           *)
Forget(c) == pkt' = [pkt EXCEPT ![c].payload = None]

Skip(c) ==
    /\ At(c, "call") /\ ToAnon(c) = 0
    /\ Goto(c, "send")
    /\ Forget(c) /\ UNCHANGED <<flows, flusso, askers, seen, flag, addr, looked>>

(* Slip: the flow's decision is not asked before the name is judged.       *)
JudgeAnyway(c) ==
    /\ At(c, "call") /\ NameIn(pkt[c].payload) # << >>
    /\ \E v \in BOOLEAN :
         /\ TableAdd(c, NameIn(pkt[c].payload), v)
         /\ flag' = [flag EXCEPT ![c] = IF v THEN 0 ELSE 1]
    /\ Goto(c, "store")
    /\ Forget(c) /\ UNCHANGED <<flows, flusso, seen, addr, looked>>

(* tlsHelloEntry or httpEntry finds a name and looks it up.                *)
Judge(c) ==
    /\ At(c, "call") /\ ToAnon(c) # 0 /\ NameIn(pkt[c].payload) # << >>
    /\ \E v \in BOOLEAN :
         /\ TableAdd(c, NameIn(pkt[c].payload), v)
         /\ flag' = [flag EXCEPT ![c] = IF v THEN 0 ELSE 1]
    /\ Goto(c, "store")
    /\ Forget(c) /\ UNCHANGED <<flows, flusso, seen, addr, looked>>

(* It finds none, or gives up on it.                                       *)
NoName(c) ==
    /\ At(c, "call") /\ ToAnon(c) # 0 /\ NameIn(pkt[c].payload) = << >>
    /\ \E f \in NoNameFlags(pkt[c].payload) : flag' = [flag EXCEPT ![c] = f]
    /\ Goto(c, "store")
    /\ Forget(c) /\ UNCHANGED <<flows, flusso, askers, seen, addr, looked>>

Store(c) ==
    /\ At(c, "store")
    /\ SetToAnon(c, flag[c])
    /\ flag' = [flag EXCEPT ![c] = 0]
    /\ Goto(c, "send")
    /\ UNCHANGED <<clock, chain, segv, pkt, flusso, askers, seen, addr, looked>>

(* multiplexer_proto returns and main_loop transmits the packet.           *)
Send(c) ==
    /\ At(c, "send")
    /\ Goto(c, "idle")
    /\ pkt' = [pkt EXCEPT ![c] = None] /\ flusso' = [flusso EXCEPT ![c] = None]
    /\ seen' = [seen EXCEPT ![c] = -1] /\ flag' = [flag EXCEPT ![c] = 0]
    /\ addr' = [addr EXCEPT ![c] = "clear"]
    /\ UNCHANGED <<flows, askers, looked>>

Handle(c) ==
    \/ ExtReference(c) \/ ExtSkip(c) \/ ExtJudge(c) \/ ExtReuse(c) \/ ExtStore(c)
    \/ DetectManaged(c) \/ DetectDns(c) \/ DetectOther(c)
    \/ ManagedReference(c) \/ Skip(c) \/ Judge(c) \/ NoName(c)
    \/ Store(c)
    \/ Send(c)

Next == Tick \/ \E c \in Core : Receive(c) \/ Handle(c)

Spec == Init /\ [][Next]_vars

-----------------------------------------------------------------------------
(* Properties.                                                             *)

(* The entry a core still uses after reference_flow's unlock is in the     *)
(* table and belongs to the core's flow: no other core's garbage           *)
(* collection frees it or writes another flow over it meanwhile.           *)
EntryIsMine ==
    \A c \in Core : ~ segv /\ flusso[c] # None =>
        /\ \E j \in DOMAIN chain[FlowHash[pkt[c].tuple]] :
             chain[FlowHash[pkt[c].tuple]][j] = flusso[c]
        /\ Matches(flusso[c], pkt[c].tuple)

(* A flow that was looked up within T_OUT (less the skew of the other      *)
(* cores' clocks) has an entry: only silence makes a flow expire.          *)
ActiveFlowKept ==
    \A x \in Tuple :
        ~ segv /\ looked[x] # Never /\ clock - looked[x] <= T_OUT =>
            \E j \in DOMAIN chain[FlowHash[x]] : Matches(chain[FlowHash[x]][j], x)

(* multiplexer_proto's use of toAnon: once an entry says that its flow     *)
(* passes, no core makes it say anything else until it is given up or has  *)
(* been silent for longer than T_OUT. This is of one entry: where          *)
(* reference_flow skips it, the flow gets another one and is judged again. *)
PassedEntryStays ==
    [][\A n \in InUse(chain) \cap InUse(chain') :
         entry[n].toAnon = 0 /\ entry'[n].toAnon # 0 =>
             entry'[n].timestamp - entry[n].timestamp > T_OUT]_vars

(* src/README.md:97: a core that is about to call httpEntry will hide every*)
(* field of the request, whatever well-formed request it has: not only     *)
(* Payload's, all of Request are tried.                                    *)
AboutToHide == \E c \in Core : pc[c] = "call" /\ Detected(pkt[c].payload) = "http"

RequestHidden == AboutToHide => PlainHidden

(* And it keeps the lines of the request, plain or not, unless its URI     *)
(* contains "host" (LinesStay).                                            *)
LinesKept == AboutToHide => LinesStay

(* src/README.md:87: while a flow's entry says that it is to be anonymized,*)
(* every packet of it leaves with its external address hidden.             *)
FlowStaysAnonymous ==
    \A c \in Core : pc[c] = "send" /\ seen[c] = 1 => addr[c] # "clear"

=============================================================================
