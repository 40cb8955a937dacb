--------------------------- MODULE MCAnonEngine ----------------------------
(***************************************************************************)
(* Small instances of AnonEngine: host a is inside, e is outside, and all  *)
(* flows are in one bucket.                                                *)
(***************************************************************************)
EXTENDS AnonEngine, TLC

CONSTANTS a, e, p1, p2

Packets(from, to, port, peer, protocol) ==
    [src : {from}, dst : {to}, in_port : {port}, out_port : {peer}, protocol : {protocol}]

(* A TCP flow going out and a UDP flow coming in.                          *)
TcpAndUdp == Packets(a, e, 1, 2, "TCP") \cup Packets(e, a, 2, 3, "UDP")

(* A TCP flow in both directions.                                          *)
BothWays == Packets(a, e, 1, 2, "TCP") \cup Packets(e, a, 2, 1, "TCP")

OneBucket == [x \in Tuple |-> "b"]
OnTwoCores == [x \in Tuple |-> IF x.protocol = "UDP" THEN p2 ELSE p1]
OnOneCore == [x \in Tuple |-> p1]

AllOn == {[ext |-> TRUE, tls |-> TRUE, http |-> TRUE, dns |-> TRUE, alpha |-> 1]}
ExtTls == {[ext |-> TRUE, tls |-> TRUE, http |-> FALSE, dns |-> FALSE, alpha |-> 2]}

(* A request and a hello with the name.                                    *)
SomeName == <<"n">>

Get(name) ==
    [method |-> "GET", uri |-> <<Slash>>, host |-> name, scheme |-> Spelled("HTTP"), page |-> << >>, body |-> << >>]

Text(bytes) == [kind |-> "text", bytes |-> bytes]

ClientHello(exts, length, name, behind) ==
    [kind |-> "hello", hello |-> [exts |-> exts, length |-> length, name |-> name, behind |-> behind]]

Ext(type, len) == [type |-> type, len |-> len]

Named == {Text(Wire(Get(SomeName))), ClientHello(<<Ext(43, 3), Ext(SERVER_NAME, 6)>>, 17, SomeName, 0)}

(* No name is found: a text with "get" in it; hellos without extensions,   *)
(* with extensions declared shorter than they are, and with an extension   *)
(* of a type from 256 on behind the name.                                  *)
Nameless ==
    {Text(Spelled("GET")), ClientHello(<< >>, 0, << >>, 0),
     ClientHello(<<Ext(43, 3), Ext(SERVER_NAME, 6)>>, 3, SomeName, 0),
     ClientHello(<<Ext(SERVER_NAME, 6), Ext(65281, 1)>>, 15, SomeName, 255)}

Payloads == Named \cup Nameless

(* Requests with the searched words in the wrong places, and fields at     *)
(* their limits.                                                           *)
Letters(k) == [x \in 1 .. k |-> "a"]

Uris ==
    {<<Slash>>, <<Slash, "a", Dot, "a">>}
        \cup {<<Slash>> \o Spelled(w) \o <<Slash, "a">> : w \in {"GET", "HTTP", "HOST", "REFER"}}
Hosts == {<< >>, <<"a", Dot, "b">>, Spelled("GET") \o <<Dot, "a">>, Letters(64), Letters(65)}
Pages == {<< >>, <<"a", Dot, "b", Slash, "a">>, Letters(65), Letters(66)}
Bodies == {<< >>, Spelled("GET") \o Letters(2), Spelled("HOST") \o Letters(3), Spelled("REFER") \o Letters(3)}

Requests ==
    [method : {"GET", "POST", "HEAD"}, uri : Uris, host : Hosts,
     scheme : {Spelled("HTTP"), Spelled("HTTP") \o <<"s">>}, page : Pages, body : Bodies]

(* The addresses malloc returns are interchangeable.                       *)
HeapSymmetry == Permutations(Heap)

=============================================================================
