----------------------------- MODULE CryptoPan -----------------------------
(***************************************************************************)
(* The prefix-preserving encryption of addresses (src/src/crypto_ip.c) and *)
(* its caches: address_hash and address6_hash, LRU caches of addresses;    *)
(* fullcache, the last two words encrypted; enc_cache, the one-time pad of *)
(* the first CACHEBITS bits. Each core has a crypto_ip of its own for      *)
(* every output interface: this is one of them. The static buffer through  *)
(* which retrieve_crypto_ipv6 returns, shared by all cores, is left out,   *)
(* and so is a failing malloc, whose result is used unchecked.             *)
(*                                                                         *)
(* A word is its bits, the most significant first: htonl only changes the  *)
(* order of its bytes in memory, and leaves the masks as they are. An IPv6 *)
(* address is four words. Rijndael is any function: of its output only the *)
(* first bit is used, and of its input only the first four bytes vary, the *)
(* others being those of the pad.                                          *)
(***************************************************************************)
EXTENDS Integers, Sequences, FiniteSets

CONSTANTS
    Width,                   \* the bits of a word (32)
    CACHEBITS,               \* the bits of an index of enc_cache (20)
    MAX_CRYPTIO_CACHE_SIZE,  \* the capacity of an address cache (130000)
    Mask,                    \* CRYPTO_IPV6_MASK_0 to CRYPTO_IPV6_MASK_3
    Key,                     \* what the pad and Rijndael are under each key
    Asked,                   \* the IPv4 addresses of the packets
    Asked6                   \* the IPv6 addresses of the packets

Bit      == {0, 1}
Address  == [1..Width -> Bit]
Address6 == [1..4 -> Address]

ASSUME CryptoAssumption ==
    /\ Width \in Nat /\ CACHEBITS \in Nat /\ 0 < CACHEBITS /\ CACHEBITS < Width
    /\ MAX_CRYPTIO_CACHE_SIZE \in Nat \ {0}
    /\ Mask \in Address6
    /\ Key \subseteq [m_pad : Address, rijndael : [Address -> Bit]]
    /\ Asked \subseteq Address /\ Asked6 \subseteq Address6

VARIABLES
    key,            \* the key of the interface
    address_hash,   \* the entries [key, cpan_addr] in insertion order
    address6_hash,  \* the same for IPv6
    caches,         \* fullcache, two pairs [orig, enc], and enc_cache
    later           \* history: the IPv4 addresses asked for since each one was

vars == <<key, address_hash, address6_hash, caches, later>>

Xor(x, y)      == IF x = y THEN 0 ELSE 1
XorWord(a, b)  == [i \in 1..Width |-> Xor(a[i], b[i])]

Zeros(n) == [i \in 1..n |-> 0]
Zero     == Zeros(Width)
One      == [Zero EXCEPT ![Width] = 1]
Two      == [Zero EXCEPT ![Width - 1] = 1]
Zero6    == [i \in 1..4 |-> Zero]

(* The first bits of a word: what indexes enc_cache.                       *)
Scan(a) == [i \in 1..CACHEBITS |-> a[i]]

Caches == [fullcache : [1..2 -> [orig : Address, enc : Address]],
           enc_cache : [[1..CACHEBITS -> Bit] -> [1..CACHEBITS -> Bit]]]

TypeOK ==
    /\ key \in Key
    /\ address_hash \in Seq([key : Address, cpan_addr : Address])
    /\ address6_hash \in Seq([key : Address6, cpan_addr : Address6])
    /\ caches \in Caches
    /\ DOMAIN later \subseteq Address
    /\ later \in [DOMAIN later -> SUBSET Address]

-----------------------------------------------------------------------------
(* Slip: the input holds one bit of the address too many ("Slip": see      *)
(* ClientQueue).                                                           *)
PadBitOwn(k, a, pos) ==
    k.rijndael[[i \in 1..Width |-> IF i <= pos THEN a[i] ELSE k.m_pad[i]]]

(* The pad's bit at position pos (from 1): the first bit of the encryption *)
(* of the bits before pos, filled up with those of m_pad.                  *)
PadBit(k, a, pos) ==
    k.rijndael[[i \in 1..Width |-> IF i < pos THEN a[i] ELSE k.m_pad[i]]]

(* pp_anonymize: the encryption, with no cache.                            *)
PpAnonymize(k, a) == XorWord([i \in 1..Width |-> PadBit(k, a, i)], a)

(* cache_update: the pad of the first bits, for any address that has them. *)
CacheUpdate(k, scan) ==
    LET orig == [i \in 1..Width |-> IF i <= CACHEBITS THEN scan[i] ELSE 0]
    IN  [i \in 1..CACHEBITS |-> PadBit(k, orig, i)]

(* lookup_cache: an all-zero pad counts as absent.                         *)
LookupCache(k, enc, scan) ==
    IF enc[scan] = Zeros(CACHEBITS)
    THEN [enc EXCEPT ![scan] = CacheUpdate(k, scan)] ELSE enc

(* cpp_anonymize: the caches it leaves; its result is Result of them.      *)
CppAnonymize(k, c, a) ==
    LET full == c.fullcache
        enc  == LookupCache(k, c.enc_cache, Scan(a))
        pad  == [i \in 1..Width |-> IF i <= CACHEBITS THEN enc[Scan(a)][i]
                                                      ELSE PadBit(k, a, i)]
    IN  IF full[1].orig = a THEN c
        ELSE IF full[2].orig = a THEN [c EXCEPT !.fullcache = <<full[2], full[1]>>]
        ELSE [fullcache |-> <<[orig |-> a, enc |-> XorWord(pad, a)], full[1]>>,
              enc_cache |-> enc]

Result(c) == c.fullcache[1].enc

(* encrypt_ipv6: the caches after each of the masked words, in order.      *)
EncryptIpv6(k, c, a) ==
    LET Step(d, i) == CppAnonymize(k, d, XorWord(a[i], Mask[i]))
        c1 == Step(c, 1)    c2 == Step(c1, 2)
        c3 == Step(c2, 3)   c4 == Step(c3, 4)
    IN  <<c1, c2, c3, c4>>

Result6(cs) == [i \in 1..4 |-> Result(cs[i])]

(* The entry of an address, as a position of the cache, or 0.              *)
Find(hash, a) ==
    IF \E p \in DOMAIN hash : hash[p].key = a
    THEN CHOOSE p \in DOMAIN hash : hash[p].key = a ELSE 0

(* Slip: the entry stays where it is.                                      *)
FindAddressInPlace(hash, p) == hash

(* find_address moves the entry it finds to the end of the order.          *)
FindAddress(hash, p) ==
    SubSeq(hash, 1, p - 1) \o SubSeq(hash, p + 1, Len(hash)) \o <<hash[p]>>

(* add_address: beyond the capacity the first entry in insertion order,    *)
(* the oldest, is pruned.                                                  *)
AddAddress(hash, a, enc) ==
    LET all == Append(hash, [key |-> a, cpan_addr |-> enc])
    IN  IF Len(all) > MAX_CRYPTIO_CACHE_SIZE THEN Tail(all) ELSE all

-----------------------------------------------------------------------------
(* panon_init_cache clears the caches: word 0 looks encrypted, as 0.       *)
Cleared ==
    [fullcache |-> [i \in 1..2 |-> [orig |-> Zero, enc |-> Zero]],
     enc_cache |-> [s \in [1..CACHEBITS -> Bit] |-> Zeros(CACHEBITS)]]

(* Slip: no warm-up, the cleared caches answer for 0.0.0.0.                *)
WarmedNot(k) == CppAnonymize(k, Cleared, Zero)

(* initialize_crypto encrypts 1 and 2 before 0.0.0.0.                      *)
Warmed(k) ==
    CppAnonymize(k, CppAnonymize(k, CppAnonymize(k, Cleared, One), Two), Zero)

Init ==
    /\ key \in Key
    /\ LET w == Warmed(key)
           cs == EncryptIpv6(key, w, Zero6)
       IN  /\ address_hash = AddAddress(<< >>, Zero, Result(w))
           /\ address6_hash = AddAddress(<< >>, Zero6, Result6(cs))
           /\ caches = cs[4]
    /\ later = [a \in {Zero} |-> {}]

(* History: a is asked for after all the others.                           *)
Ask(a) ==
    later' = [b \in DOMAIN later \cup {a} |-> IF b = a THEN {} ELSE later[b] \cup {a}]

(* retrieve_crypto_ip finds the address.                                   *)
RetrieveHit(a) ==
    /\ Find(address_hash, a) # 0
    /\ address_hash' = FindAddress(address_hash, Find(address_hash, a))
    /\ Ask(a)
    /\ UNCHANGED <<key, address6_hash, caches>>

(* retrieve_crypto_ip computes the address and adds it.                    *)
RetrieveMiss(a) ==
    /\ Find(address_hash, a) = 0
    /\ caches' = CppAnonymize(key, caches, a)
    /\ address_hash' = AddAddress(address_hash, a, Result(caches'))
    /\ Ask(a)
    /\ UNCHANGED <<key, address6_hash>>

(* retrieve_crypto_ipv6 finds the address.                                 *)
Retrieve6Hit(a) ==
    /\ Find(address6_hash, a) # 0
    /\ address6_hash' = FindAddress(address6_hash, Find(address6_hash, a))
    /\ UNCHANGED <<key, address_hash, caches, later>>

(* retrieve_crypto_ipv6 computes the address and adds it.                  *)
Retrieve6Miss(a) ==
    LET cs == EncryptIpv6(key, caches, a)
    IN  /\ Find(address6_hash, a) = 0
        /\ caches' = cs[4]
        /\ address6_hash' = AddAddress(address6_hash, a, Result6(cs))
        /\ UNCHANGED <<key, address_hash, later>>

Next == \/ \E a \in Asked : RetrieveHit(a) \/ RetrieveMiss(a)
        \/ \E a \in Asked6 : Retrieve6Hit(a) \/ Retrieve6Miss(a)

Spec == Init /\ [][Next]_vars

-----------------------------------------------------------------------------
(* What retrieve_crypto_ip would return for an address.                    *)
Answer(a) ==
    LET p == Find(address_hash, a)
    IN  IF p # 0 THEN address_hash[p].cpan_addr
                 ELSE Result(CppAnonymize(key, caches, a))

(* What retrieve_crypto_ipv6 would return for an address.                  *)
Answer6(a) ==
    LET p == Find(address6_hash, a)
    IN  IF p # 0 THEN address6_hash[p].cpan_addr
                 ELSE Result6(EncryptIpv6(key, caches, a))

(* Whatever is cached, evicted or taken for absent, every address gets the *)
(* encryption that pp_anonymize computes from the key alone: a host looks  *)
(* the same in every packet, at any time and on any core with this key.    *)
CachedIsComputed ==
    /\ \A a \in Address : Answer(a) = PpAnonymize(key, a)
    /\ \A a \in Asked6 :
           Answer6(a) = [i \in 1..4 |-> PpAnonymize(key, XorWord(a[i], Mask[i]))]

(* Two words, or addresses of words, agree up to position n.               *)
AgreeUpTo(a, b, n) == \A i \in 1..n : a[i] = b[i]

(* src/README.md:63, and crypto_ip.c:272 for IPv6 ("This should in any     *)
(* case maintain the prefix-preservation property"): two addresses get     *)
(* encryptions that agree on exactly as many leading bits as they do.      *)
PrefixPreserving ==
    /\ \A a, b \in Address : \A n \in 1..Width :
           AgreeUpTo(a, b, n) <=> AgreeUpTo(Answer(a), Answer(b), n)
    /\ \A a, b \in Asked6 : \A w \in 1..4, n \in 1..Width :
           LET Agree(x, y) == AgreeUpTo(x, y, w - 1) /\ AgreeUpTo(x[w], y[w], n)
           IN  Agree(a, b) <=> Agree(Answer6(a), Answer6(b))

(* crypto_ip.c:51: "Manage the hash as a LRU cache". An address is cached  *)
(* exactly as long as fewer other addresses than the capacity have been    *)
(* asked for since it was.                                                 *)
CacheIsLru ==
    \A a \in Address :
        Find(address_hash, a) # 0 <=>
            a \in DOMAIN later /\ Cardinality(later[a]) < MAX_CRYPTIO_CACHE_SIZE

=============================================================================
