----------------------------- MODULE SubnetList -----------------------------
(***************************************************************************)
(* The subnet lists (src/src/ip_utils.c): what ParseNetFile makes of a     *)
(* file, and the checks of an address against it. An IPv4 address is a     *)
(* word of W bits, 32 in the code, its first bit first; an IPv6 address is *)
(* a sequence of bytes of B bits each, 8 in the code. The characters of a  *)
(* line are left out: a line is what it says, or "bad" if the parser       *)
(* refuses it. An old-format entry, address and mask on two lines, is one  *)
(* line here. The arrays of the lists are sets: a check only asks whether  *)
(* an entry matches.                                                       *)
(***************************************************************************)
EXTENDS Integers, Sequences, FiniteSets

CONSTANTS W, B,
    Bytes6,      \* the bytes of an IPv6 address, 16 in the code
    MAX_SUBNETS

ASSUME SubnetAssumption == W \in Nat /\ B \in Nat \ {0} /\ Bytes6 \in Nat

Word     == [1 .. W -> {0, 1}]
Address6 == [1 .. Bytes6 -> [1 .. B -> {0, 1}]]

NetLine ==
    [kind : {"v4"}, addr : Word, bits : 0 .. W] \cup [kind : {"dotted", "old"}, addr : Word, mask : Word]
    \cup [kind : {"v6"}, addr : Address6, bits : 0 .. B * Bytes6] \cup [kind : {"bad"}]

EmptyLists == [net4 |-> {}, net6 |-> {}]

(* & on words, and the word of a prefix: its first bits. The word 0 is     *)
(* that of the empty prefix.                                               *)
And(a, b)        == [p \in 1 .. W |-> IF a[p] = 1 /\ b[p] = 1 THEN 1 ELSE 0]
PrefixMask(bits) == [p \in 1 .. W |-> IF p <= bits THEN 1 ELSE 0]
ZeroWord         == PrefixMask(0)

(* The entry for an IPv4 line. The address 0 gets the mask 0, whatever the *)
(* prefix length.                                                          *)
Net4(l) ==
    LET base == IF l.kind = "v4" /\ l.bits = 0 THEN ZeroWord ELSE l.addr
        mask == IF l.kind = "v4" THEN (IF base = ZeroWord THEN ZeroWord ELSE PrefixMask(l.bits)) ELSE l.mask
    IN  [net |-> And(base, mask), mask |-> mask]

Net6(l) == [addr |-> l.addr, bits |-> l.bits]

IsV4(l) == l.kind \in {"v4", "dotted", "old"}
IsV6(l) == l.kind = "v6"

(* The lines that are read: reading stops at the first line that is        *)
(* refused, or that follows a full list; what was read before is kept.     *)
Accepted(file) ==
    LET Refused(q) == \/ file[q].kind = "bad"
                      \/ Cardinality({x \in 1 .. q - 1 : IsV4(file[x])}) = MAX_SUBNETS
                      \/ Cardinality({x \in 1 .. q - 1 : IsV6(file[x])}) = MAX_SUBNETS
    IN  {file[q] : q \in {x \in DOMAIN file : \A y \in 1 .. x : ~ Refused(y)}}

(* The lists after a file was read over the lists old.                     *)
ParseNetFile(file, old) ==
    LET lines == Accepted(file)
    IN  [net4 |-> {Net4(l) : l \in {m \in lines : IsV4(m)}},
         net6 |-> {Net6(l) : l \in {m \in lines : IsV6(m)}}]

-----------------------------------------------------------------------------
(* anon_ip_check, no_anon_ip_check.                                        *)
IpCheck(a, lists) == \E n \in lists.net4 : And(a, n.mask) = n.net

(* The leading bits of a byte (the table masks).                           *)
Leading(byte, bits) == [p \in 1 .. B |-> IF p <= bits THEN byte[p] ELSE 0]

(* Slip: only whole bytes are compared.                                    *)
Matches6Bytes(a, n) == \A y \in 1 .. n.bits \div B : a[y] = n.addr[y]

(* match_ipv6_net: whole bytes first, then the rest of one.                *)
Matches6(a, n) ==
    LET full    == n.bits \div B
        partial == n.bits % B
    IN  /\ \A y \in 1 .. full : a[y] = n.addr[y]
        /\ partial # 0 => Leading(a[full + 1], partial) = Leading(n.addr[full + 1], partial)

MatchIpv6Net(a, lists) == \E n \in lists.net6 : Matches6(a, n)

-----------------------------------------------------------------------------
(* Reference: whether a line of a file covers an address, bit by bit.      *)
Bit6(a, p) == a[((p - 1) \div B) + 1][((p - 1) % B) + 1]

Covers(l, a) ==
    \/ l.kind = "v4" /\ \A p \in 1 .. l.bits : a[p] = l.addr[p]
    \/ l.kind \in {"dotted", "old"} /\ \A p \in 1 .. W : l.mask[p] = 1 => a[p] = l.addr[p]

Covers6(l, a) == IsV6(l) /\ \A p \in 1 .. l.bits : Bit6(a, p) = Bit6(l.addr, p)

(* Such a line is read as if its prefix length were 0.                     *)
IsZeroNet(l) == l.kind = "v4" /\ l.addr = ZeroWord /\ l.bits # 0

(* The checks find an address in the lists exactly if a line of the file   *)
(* that was accepted covers it, for both families.                         *)
ChecksAgree(file, lists) ==
    /\ \A a \in Word : IpCheck(a, lists) <=> \E l \in Accepted(file) : Covers(l, a)
    /\ \A a \in Address6 : MatchIpv6Net(a, lists) <=> \E l \in Accepted(file) : Covers6(l, a)

=============================================================================
