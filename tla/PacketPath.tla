----------------------------- MODULE PacketPath -----------------------------
(***************************************************************************)
(* What process_packet (src/src/process_packet.c) makes of one packet for  *)
(* one output interface, without the engine's part, which has state: the   *)
(* MAC addresses, the IP addresses, the payload. The subnet lists are      *)
(* globals of the program, the same for every interface.                   *)
(*                                                                         *)
(* An address is a host and the keys it was encrypted under, one after the *)
(* other; CryptoPan is a permutation for each key, so two addresses differ *)
(* if their hosts differ under the same keys. Under different keys they    *)
(* are taken to differ too.                                                *)
(***************************************************************************)
EXTENDS Naturals, Sequences, FiniteSets

CONSTANTS
    Host,      \* the addresses on the input side
    Anon,      \* the hosts in a subnet of anon_net_list
    NoAnon,    \* the hosts in a subnet of no_anon_net_list
    Key,       \* the CryptoPan keys
    Name       \* the names that packets carry

Address == [host : Host, under : Seq(Key)]

Plain(h) == [host |-> h, under |-> << >>]

(* The bytes of a packet. app: what proto_detector finds in the payload,   *)
(* "safe" if that is nothing but a port is SSH's or HTTPS's; payload: the  *)
(* bytes behind the TCP, UDP or ICMP header are there, not zeros; found:   *)
(* the module for app finds the name in them; readable: so does a reader;  *)
(* random: external_ip has put another address in the external one's place.*)
Bytes ==
    [ether : {"ipv4", "ipv6", "other"}, proto : {"tcp", "udp", "icmp"},
     src : Address, dst : Address, mac : {"clear", "time", "zero"},
     app : {"tls", "http", "dns", "safe", "other"}, payload : BOOLEAN,
     name : Name, found : BOOLEAN, readable : BOOLEAN, random : BOOLEAN]

(* The settings of an output interface.                                    *)
OutSetting ==
    [anon_mac_enabled : {0, 1, 2}, anon_ip_enabled : {0, 1}, anon_ip_key_mode : {"static", "null"},
     anon_ip_key : Key, payload_drop_enabled : {0, 1}, engine : {0, 1}, alpha : Nat,
     anon_ext_ip : {0, 1}, tls : {0, 1}, http : {0, 1}, dns : {0, 1}]

-----------------------------------------------------------------------------
ProcessPacketEth(m, s) ==
    [m EXCEPT !.mac = IF s.anon_mac_enabled = 2 THEN "time"
                      ELSE IF s.anon_mac_enabled = 1 THEN "zero" ELSE @]

(* A packet from or to an exempt host is left as it is, engine and payload *)
(* included. The exemption is for IPv4 only.                               *)
Exempt(m) == m.ether = "ipv4" /\ {m.src.host, m.dst.host} \cap NoAnon # {}

Encrypts(m, s) ==
    /\ m.ether \in {"ipv4", "ipv6"} /\ ~ Exempt(m)
    /\ s.anon_ip_enabled = 1 /\ s.anon_ip_key_mode = "static"

(* anon_ip_check, then retrieve_crypto_ip or retrieve_crypto_ipv6.         *)
AnonIp(a, s) ==
    IF a.host \in Anon THEN [a EXCEPT !.under = Append(@, s.anon_ip_key)] ELSE a

ProcessPacketIp(m, s) ==
    IF Encrypts(m, s) THEN [m EXCEPT !.src = AnonIp(@, s), !.dst = AnonIp(@, s)] ELSE m

(* What comes after the addresses is done for IPv4 only.                   *)
Reaches(m) == m.ether = "ipv4" /\ ~ Exempt(m)

RemovePayload(m) == [m EXCEPT !.payload = FALSE, !.readable = FALSE]

(* l4_payload_remover removes what is behind the header, whatever the      *)
(* protocol.                                                               *)
L4PayloadRemover(m, s) ==
    IF Reaches(m) /\ s.payload_drop_enabled = 1 THEN RemovePayload(m) ELSE m

(* process_packet up to the call of the engine.                            *)
ProcessPacket(m, s) ==
    L4PayloadRemover(ProcessPacketIp(ProcessPacketEth(m, s), s), s)

(* multiplexer_proto is called.                                            *)
Engaged(m, s) == Reaches(m) /\ s.engine = 1

(* It calls external_ip: one of the addresses is inside, the other is not. *)
(* ip_origin tells only where addresses are encrypted.                     *)
CallsExternalIp(m, s) ==
    /\ Engaged(m, s) /\ m.proto \in {"tcp", "udp"} /\ s.anon_ext_ip = 1
    /\ Encrypts(m, s) /\ (m.src.host \in Anon) # (m.dst.host \in Anon)

(* It has a module look for the name.                                      *)
Managed(m, s) ==
    /\ Engaged(m, s) /\ m.payload
    /\ \/ m.proto = "tcp" /\ m.app = "tls" /\ s.tls = 1
       \/ m.proto = "tcp" /\ m.app = "http" /\ s.http = 1
       \/ m.proto = "udp" /\ m.app = "dns" /\ s.dns = 1

(* It leaves the payload alone: the module is off, or the ports are safe.  *)
(* (On the safe ports UDP is left alone only where DNS is.)                *)
LeftAlone(m, s) ==
    \/ m.proto = "tcp" /\ m.payload /\ m.app = "tls" /\ s.tls = 0
    \/ m.proto = "tcp" /\ m.payload /\ m.app = "http" /\ s.http = 0
    \/ m.app = "safe" /\ (m.proto = "tcp" \/ (m.proto = "udp" /\ s.dns = 0))

=============================================================================
