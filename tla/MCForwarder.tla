---------------------------- MODULE MCForwarder ----------------------------
(***************************************************************************)
(* A small instance of Forwarder: hosts u1 and u2 are inside, w is outside.*)
(* All that arrives leaves by x and y, and each core gets two packets.     *)
(***************************************************************************)
EXTENDS Forwarder, TLC

CONSTANTS u1, u2, w, i, j, x, y, c1, c2, k1, k2, s1, a1, a2, a3

TwoInputs == <<i, j>>
Mirrored  == [p \in Input |-> <<x, y>>]

Group(mac, ext, alpha) ==
    [anon_mac_enabled |-> mac, anon_ip_enabled |-> 1, anon_ip_key_mode |-> "static",
     anon_ip_key |-> k1, payload_drop_enabled |-> 0, engine |-> 1, alpha |-> alpha,
     anon_ext_ip |-> ext, tls |-> 1, http |-> 0, dns |-> 1]

(* x and y show the same addresses; y hides external addresses, too, and   *)
(* wants more users for a name.                                            *)
TwoAlphas == [p \in Port |-> IF p = x THEN Group(1, 0, 2) ELSE Group(2, 1, 3)]

From(h, to, proto, app, found) ==
    [ether |-> "ipv4", proto |-> proto, src |-> Plain(h), dst |-> Plain(to), mac |-> "clear",
     app |-> app, payload |-> TRUE, name |-> s1, found |-> found, readable |-> TRUE,
     random |-> FALSE]

At(p, c, m) == [port |-> p, core |-> c, bytes |-> m]

(* Two hellos of a flow inside, one without a name; from outside, DNS over *)
(* TCP, which no module is for; a DNS question.                            *)
Traffic ==
    [a \in Packet |-> CASE a = a1 -> At(i, c1, From(u1, u2, "tcp", "tls", TRUE))
                        [] a = a2 -> At(i, c1, From(u2, u1, "tcp", "tls", FALSE))
                        [] a = a3 -> At(i, c2, From(w, u1, "tcp", "dns", TRUE))
                        [] OTHER  -> At(j, c2, From(u2, w, "udp", "dns", TRUE))]

(* The buffers of a pool are interchangeable.                              *)
PoolSymmetry == Permutations(Buf) \cup Permutations(CopyBuf)

=============================================================================
