-------------------------- MODULE CryptoPanProofs --------------------------
(***************************************************************************)
(* For words of any width, every pad, every function in Rijndael's place,  *)
(* every mask and caches of any capacity: the caches change no answer, the *)
(* answers preserve the prefixes of the addresses, and the address cache   *)
(* is one of the least recently used.                                      *)
(***************************************************************************)
EXTENDS CryptoPan, SequenceTheorems, FiniteSetTheorems, WellFoundedInduction, TLAPS

Prefix   == [1..CACHEBITS -> Bit]
EncCache == [Prefix -> Prefix]
Pair     == [orig : Address, enc : Address]

(* A pad is all zeros, which counts as absent, or the one of its prefix.   *)
PadsSound(k, enc) ==
    /\ enc \in EncCache
    /\ \A s \in Prefix : enc[s] = Zeros(CACHEBITS) \/ enc[s] = CacheUpdate(k, s)

(* A pair holds a word and its encryption.                                 *)
PairSound(k, pair) == pair \in Pair /\ pair.enc = PpAnonymize(k, pair.orig)

CachesSound(k, c) ==
    /\ c \in Caches
    /\ PadsSound(k, c.enc_cache)
    /\ PairSound(k, c.fullcache[1]) /\ PairSound(k, c.fullcache[2])

Entries  == [key : Address, cpan_addr : Address]
Entries6 == [key : Address6, cpan_addr : Address6]

(* The encryption of an IPv6 address: each of its words, masked.           *)
Pp6(k, a) == [i \in 1..4 |-> PpAnonymize(k, XorWord(a[i], Mask[i]))]

(* What the caches stand for, as functions.                                *)
Encryption(k)  == [a \in Address |-> PpAnonymize(k, a)]
Encryption6(k) == [a \in Address6 |-> Pp6(k, a)]

(* An entry holds an address and its encryption.                           *)
HashSound(F, hash) == \A p \in 1..Len(hash) : hash[p].cpan_addr = F[hash[p].key]

-----------------------------------------------------------------------------
(* The words and prefixes the operators build are words and prefixes, and  *)
(* the three words of the warm-up are different.                           *)
LEMMA WordFacts ==
    /\ Width \in Nat /\ CACHEBITS \in Nat /\ 0 < CACHEBITS /\ CACHEBITS < Width
    /\ 1..CACHEBITS \subseteq 1..Width
    /\ Zero \in Address /\ One \in Address /\ Two \in Address /\ Zero6 \in Address6
    /\ One # Zero /\ Two # Zero /\ Two # One
    /\ Zeros(CACHEBITS) \in Prefix
<1>1. Width \in Nat /\ CACHEBITS \in Nat /\ 0 < CACHEBITS /\ CACHEBITS < Width
  BY CryptoAssumption
<1>2. Width \in 1..Width /\ Width - 1 \in 1..Width /\ Width # Width - 1
  BY <1>1
<1>3. Zero \in Address /\ One \in Address /\ Two \in Address
  BY <1>2 DEF Zero, One, Two, Zeros, Address, Bit
<1>4. Zero[Width] = 0 /\ Zero[Width - 1] = 0
  BY <1>2 DEF Zero, Zeros
<1>5. One[Width] = 1 /\ One[Width - 1] = 0
  BY <1>2, <1>3, <1>4 DEF One, Zero, Zeros
<1>6. Two[Width - 1] = 1
  BY <1>2, <1>3 DEF Two, Zero, Zeros
<1>7. Zero6 \in Address6 /\ Zeros(CACHEBITS) \in Prefix
  BY <1>3 DEF Zero6, Address6, Zeros, Prefix, Bit
<1>8. One # Zero /\ Two # Zero /\ Two # One
  <2>1. One # Zero
    BY <1>4, <1>5
  <2>2. Two # Zero
    BY <1>4, <1>6
  <2>3. Two # One
    BY <1>5, <1>6
  <2> QED BY <2>1, <2>2, <2>3
<1>9. 1..CACHEBITS \subseteq 1..Width
  BY <1>1
<1> QED BY <1>1, <1>3, <1>7, <1>8, <1>9

(* The exclusive or of two words is the word of the bits' exclusive ors.   *)
LEMMA XorFacts ==
    ASSUME NEW a \in Address, NEW b \in Address
    PROVE  /\ XorWord(a, b) \in Address
           /\ \A i \in 1..Width : XorWord(a, b)[i] = Xor(a[i], b[i])
  BY DEF XorWord, Xor, Address, Bit

(* The pad's bits are bits, the encryption of a word is a word.            *)
LEMMA PadFacts ==
    ASSUME NEW k \in Key, NEW a \in Address
    PROVE  /\ \A i \in Int : PadBit(k, a, i) \in Bit
           /\ PpAnonymize(k, a) \in Address
           /\ \A i \in 1..Width : PpAnonymize(k, a)[i] = Xor(PadBit(k, a, i), a[i])
           /\ Scan(a) \in Prefix
<1>1. k.m_pad \in Address /\ k.rijndael \in [Address -> Bit]
  BY CryptoAssumption
<1>2. \A n \in Int : PadBit(k, a, n) \in Bit
  <2> TAKE n \in Int
  <2> DEFINE w == [i \in 1..Width |-> IF i < n THEN a[i] ELSE k.m_pad[i]]
  <2>1. w \in Address
    BY <1>1 DEF Address
  <2> QED BY <1>1, <2>1 DEF PadBit
<1>3. [i \in 1..Width |-> PadBit(k, a, i)] \in Address
  BY <1>2 DEF Address
<1>4. /\ PpAnonymize(k, a) \in Address
      /\ \A i \in 1..Width : PpAnonymize(k, a)[i] = Xor(PadBit(k, a, i), a[i])
  BY <1>3, XorFacts DEF PpAnonymize
<1>5. Scan(a) \in Prefix
  BY WordFacts DEF Scan, Prefix, Address
<1> QED BY <1>2, <1>4, <1>5

(* The pad that enc_cache holds for a prefix is that of every word with    *)
(* the prefix: the input of each of its bits is the same.                  *)
LEMMA CacheUpdateFacts ==
    ASSUME NEW k \in Key
    PROVE  /\ \A s \in Prefix : CacheUpdate(k, s) \in Prefix
           /\ \A a \in Address : \A i \in 1..CACHEBITS :
                  CacheUpdate(k, Scan(a))[i] = PadBit(k, a, i)
<1>1. \A s \in Prefix : CacheUpdate(k, s) \in Prefix
  <2> TAKE s \in Prefix
  <2> DEFINE orig == [i \in 1..Width |-> IF i <= CACHEBITS THEN s[i] ELSE 0]
  <2>1. orig \in Address
    BY WordFacts DEF Address, Prefix, Bit
  <2>2. \A i \in 1..CACHEBITS : PadBit(k, orig, i) \in Bit
    BY <2>1, PadFacts
  <2> QED BY <2>2 DEF CacheUpdate, Prefix
<1>2. ASSUME NEW a \in Address, NEW n \in 1..CACHEBITS
      PROVE  CacheUpdate(k, Scan(a))[n] = PadBit(k, a, n)
  <2> DEFINE orig == [i \in 1..Width |-> IF i <= CACHEBITS THEN Scan(a)[i] ELSE 0]
  <2>1. CacheUpdate(k, Scan(a))[n] = PadBit(k, orig, n)
    BY DEF CacheUpdate
  <2>2. \A i \in 1..Width : i < n => orig[i] = a[i]
    BY WordFacts DEF Scan
  <2>3. [i \in 1..Width |-> IF i < n THEN orig[i] ELSE k.m_pad[i]]
        = [i \in 1..Width |-> IF i < n THEN a[i] ELSE k.m_pad[i]]
    BY <2>2
  <2> QED BY <2>1, <2>3 DEF PadBit
<1> QED BY <1>1, <1>2

(* lookup_cache leaves sound pads, and the one of the word's prefix.       *)
LEMMA LookupFacts ==
    ASSUME NEW k \in Key, NEW enc, PadsSound(k, enc), NEW a \in Address
    PROVE  /\ PadsSound(k, LookupCache(k, enc, Scan(a)))
           /\ LookupCache(k, enc, Scan(a))[Scan(a)] = CacheUpdate(k, Scan(a))
<1> DEFINE s == Scan(a)
<1>1. s \in Prefix /\ CacheUpdate(k, s) \in Prefix /\ enc \in EncCache
  BY PadFacts, CacheUpdateFacts DEF PadsSound
<1>2. CASE enc[s] = Zeros(CACHEBITS)
  <2>1. LookupCache(k, enc, s) = [enc EXCEPT ![s] = CacheUpdate(k, s)]
    BY <1>2 DEF LookupCache
  <2>2. LookupCache(k, enc, s) \in EncCache
    BY <1>1, <2>1 DEF EncCache
  <2>3. LookupCache(k, enc, s)[s] = CacheUpdate(k, s)
    BY <1>1, <2>1 DEF EncCache
  <2>4. \A r \in Prefix : r # s => LookupCache(k, enc, s)[r] = enc[r]
    BY <1>1, <2>1 DEF EncCache
  <2> QED BY <2>2, <2>3, <2>4 DEF PadsSound
<1>3. CASE enc[s] # Zeros(CACHEBITS)
  BY <1>1, <1>3 DEF LookupCache, PadsSound
<1> QED BY <1>2, <1>3

(* cpp_anonymize, the word in neither pair: its encryption becomes the     *)
(* first pair and the first pair the second.                               *)
LEMMA CppMiss ==
    ASSUME NEW k \in Key, NEW c \in Caches, PadsSound(k, c.enc_cache), NEW a \in Address,
           c.fullcache[1].orig # a, c.fullcache[2].orig # a
    PROVE  /\ CppAnonymize(k, c, a) \in Caches
           /\ PadsSound(k, CppAnonymize(k, c, a).enc_cache)
           /\ CppAnonymize(k, c, a).fullcache[1] = [orig |-> a, enc |-> PpAnonymize(k, a)]
           /\ CppAnonymize(k, c, a).fullcache[2] = c.fullcache[1]
<1> DEFINE enc == LookupCache(k, c.enc_cache, Scan(a))
           pad == [i \in 1..Width |-> IF i <= CACHEBITS THEN enc[Scan(a)][i]
                                                        ELSE PadBit(k, a, i)]
           new == [orig |-> a, enc |-> PpAnonymize(k, a)]
           d   == [fullcache |-> <<new, c.fullcache[1]>>, enc_cache |-> enc]
<1>1. PadsSound(k, enc) /\ enc[Scan(a)] = CacheUpdate(k, Scan(a))
  BY LookupFacts
<1>2. \A i \in 1..Width : pad[i] = PadBit(k, a, i)
  BY <1>1, CacheUpdateFacts, WordFacts
<1>3. pad = [i \in 1..Width |-> PadBit(k, a, i)]
  BY <1>2
<1>4. XorWord(pad, a) = PpAnonymize(k, a)
  BY <1>3 DEF PpAnonymize
<1>5. CppAnonymize(k, c, a) = d
  BY <1>4, Zenon DEF CppAnonymize
<1>6. new \in Pair /\ c.fullcache[1] \in Pair
  BY PadFacts DEF Pair, Caches
<1>7. d.fullcache \in [1..2 -> Pair] /\ d.fullcache[1] = new /\ d.fullcache[2] = c.fullcache[1]
  BY <1>6
<1>8. d \in Caches
  BY <1>1, <1>7 DEF Caches, Pair, PadsSound, EncCache, Prefix
<1> QED BY <1>1, <1>5, <1>7, <1>8

(* cpp_anonymize keeps the caches sound and answers with the encryption.   *)
LEMMA CppFacts ==
    ASSUME NEW k \in Key, NEW c, CachesSound(k, c), NEW a \in Address
    PROVE  /\ CachesSound(k, CppAnonymize(k, c, a))
           /\ Result(CppAnonymize(k, c, a)) = PpAnonymize(k, a)
<1>1. c \in Caches /\ PadsSound(k, c.enc_cache)
      /\ PairSound(k, c.fullcache[1]) /\ PairSound(k, c.fullcache[2])
  BY DEF CachesSound
<1>2. CASE c.fullcache[1].orig = a
  BY <1>1, <1>2 DEF CppAnonymize, Result, PairSound
<1>3. CASE c.fullcache[1].orig # a /\ c.fullcache[2].orig = a
  <2> DEFINE d == [c EXCEPT !.fullcache = <<c.fullcache[2], c.fullcache[1]>>]
  <2>1. CppAnonymize(k, c, a) = d
    BY <1>3 DEF CppAnonymize
  <2>2. d.fullcache = <<c.fullcache[2], c.fullcache[1]>> /\ d.enc_cache = c.enc_cache
    BY <1>1 DEF Caches
  <2>3. d.fullcache \in [1..2 -> [orig : Address, enc : Address]]
    BY <1>1, <2>2 DEF Caches
  <2>4. d \in Caches
    BY <1>1, <2>3 DEF Caches
  <2>5. d.fullcache[1] = c.fullcache[2] /\ d.fullcache[2] = c.fullcache[1]
    BY <2>2
  <2>6. Result(d) = PpAnonymize(k, a)
    BY <1>1, <1>3, <2>5 DEF Result, PairSound
  <2> QED BY <1>1, <2>1, <2>2, <2>4, <2>5, <2>6 DEF CachesSound
<1>4. CASE c.fullcache[1].orig # a /\ c.fullcache[2].orig # a
  <2>1. PairSound(k, [orig |-> a, enc |-> PpAnonymize(k, a)])
    BY PadFacts DEF PairSound, Pair
  <2>2. /\ CppAnonymize(k, c, a) \in Caches
        /\ PadsSound(k, CppAnonymize(k, c, a).enc_cache)
        /\ CppAnonymize(k, c, a).fullcache[1] = [orig |-> a, enc |-> PpAnonymize(k, a)]
        /\ CppAnonymize(k, c, a).fullcache[2] = c.fullcache[1]
    BY <1>1, <1>4, CppMiss
  <2> QED BY <1>1, <2>1, <2>2 DEF CachesSound, Result
<1> QED BY <1>2, <1>3, <1>4

(* The warm-up: after 1 and 2 no pair of the cleared cache is left, so     *)
(* 0.0.0.0 is encrypted and the caches are sound.                          *)
LEMMA WarmedFacts ==
    ASSUME NEW k \in Key
    PROVE  CachesSound(k, Warmed(k)) /\ Result(Warmed(k)) = PpAnonymize(k, Zero)
<1> DEFINE c0 == Cleared
           c1 == CppAnonymize(k, c0, One)
           c2 == CppAnonymize(k, c1, Two)
           c3 == CppAnonymize(k, c2, Zero)
<1>1. c0.fullcache[1].orig = Zero /\ c0.fullcache[2].orig = Zero
  BY DEF Cleared
<1>2. c0 \in Caches /\ PadsSound(k, c0.enc_cache)
  BY WordFacts DEF Cleared, Caches, PadsSound, EncCache, Prefix
<1>3. /\ c1 \in Caches /\ PadsSound(k, c1.enc_cache)
      /\ c1.fullcache[1] = [orig |-> One, enc |-> PpAnonymize(k, One)]
      /\ c1.fullcache[2] = c0.fullcache[1]
  BY <1>1, <1>2, CppMiss, WordFacts
<1>4. /\ c2 \in Caches /\ PadsSound(k, c2.enc_cache)
      /\ c2.fullcache[1] = [orig |-> Two, enc |-> PpAnonymize(k, Two)]
      /\ c2.fullcache[2] = c1.fullcache[1]
  <2>1. c1.fullcache[1].orig # Two /\ c1.fullcache[2].orig # Two
    BY <1>1, <1>3, WordFacts
  <2> HIDE DEF c1
  <2> QED BY <1>3, <2>1, CppMiss, WordFacts
<1>5. /\ c3 \in Caches /\ PadsSound(k, c3.enc_cache)
      /\ c3.fullcache[1] = [orig |-> Zero, enc |-> PpAnonymize(k, Zero)]
      /\ c3.fullcache[2] = c2.fullcache[1]
  <2>1. c2.fullcache[1].orig # Zero /\ c2.fullcache[2].orig # Zero
    BY <1>3, <1>4, WordFacts
  <2> HIDE DEF c2
  <2> QED BY <1>4, <2>1, CppMiss, WordFacts
<1>6. Warmed(k) = c3
  BY DEF Warmed
<1>7. PairSound(k, c3.fullcache[1]) /\ PairSound(k, c3.fullcache[2])
  <2> HIDE DEF c3, c2
  <2> QED BY <1>4, <1>5, WordFacts, PadFacts DEF PairSound, Pair
<1> HIDE DEF c3
<1> QED BY <1>5, <1>6, <1>7 DEF CachesSound, Result

(* encrypt_ipv6 keeps the caches sound and encrypts the four masked words. *)
LEMMA EncryptIpv6Facts ==
    ASSUME NEW k \in Key, NEW c, CachesSound(k, c), NEW a \in Address6
    PROVE  /\ CachesSound(k, EncryptIpv6(k, c, a)[4])
           /\ Result6(EncryptIpv6(k, c, a)) = Pp6(k, a)
<1> DEFINE w(i) == XorWord(a[i], Mask[i])
           c1 == CppAnonymize(k, c, w(1))
           c2 == CppAnonymize(k, c1, w(2))
           c3 == CppAnonymize(k, c2, w(3))
           c4 == CppAnonymize(k, c3, w(4))
<1>1. \A i \in 1..4 : w(i) \in Address
  <2> TAKE i \in 1..4
  <2>1. a[i] \in Address /\ Mask[i] \in Address
    BY CryptoAssumption DEF Address6
  <2> QED BY <2>1, XorFacts
<1>2. CachesSound(k, c1) /\ Result(c1) = PpAnonymize(k, w(1))
  BY <1>1, CppFacts
<1>3. CachesSound(k, c2) /\ Result(c2) = PpAnonymize(k, w(2))
  <2> HIDE DEF c1
  <2> QED BY <1>1, <1>2, CppFacts
<1>4. CachesSound(k, c3) /\ Result(c3) = PpAnonymize(k, w(3))
  <2> HIDE DEF c2
  <2> QED BY <1>1, <1>3, CppFacts
<1>5. CachesSound(k, c4) /\ Result(c4) = PpAnonymize(k, w(4))
  <2> HIDE DEF c3
  <2> QED BY <1>1, <1>4, CppFacts
<1>6. EncryptIpv6(k, c, a) = <<c1, c2, c3, c4>>
  BY Zenon DEF EncryptIpv6
<1>7. Result6(<<c1, c2, c3, c4>>) = Pp6(k, a)
  <2> HIDE DEF c1, c2, c3, c4
  <2> QED BY <1>2, <1>3, <1>4, <1>5 DEF Result6, Pp6
<1> HIDE DEF c4
<1> QED BY <1>5, <1>6, <1>7

(* The encryption of an IPv6 address is one, word by word under the masks. *)
LEMMA Pp6Facts ==
    ASSUME NEW k \in Key, NEW a \in Address6
    PROVE  /\ Pp6(k, a) \in Address6
           /\ \A i \in 1..4 : XorWord(a[i], Mask[i]) \in Address
<1>1. \A i \in 1..4 : XorWord(a[i], Mask[i]) \in Address
  <2> TAKE i \in 1..4
  <2>1. a[i] \in Address /\ Mask[i] \in Address
    BY CryptoAssumption DEF Address6
  <2> QED BY <2>1, XorFacts
<1>2. \A i \in 1..4 : PpAnonymize(k, XorWord(a[i], Mask[i])) \in Address
  BY <1>1, PadFacts
<1> QED BY <1>1, <1>2 DEF Pp6, Address6

-----------------------------------------------------------------------------
(* The lookup gives the position of an entry of the address, if there is   *)
(* one.                                                                    *)
LEMMA FindFacts ==
    ASSUME NEW E, NEW hash \in Seq(E), NEW a
    PROVE  /\ Find(hash, a) = 0 \/ Find(hash, a) \in 1..Len(hash)
           /\ Find(hash, a) # 0 => hash[Find(hash, a)].key = a
           /\ Find(hash, a) = 0 => \A p \in 1..Len(hash) : hash[p].key # a
<1>1. DOMAIN hash = 1..Len(hash) /\ Len(hash) \in Nat
  OBVIOUS
<1>2. CASE \E p \in DOMAIN hash : hash[p].key = a
  <2>1. Find(hash, a) = CHOOSE p \in DOMAIN hash : hash[p].key = a
    BY <1>2 DEF Find
  <2>2. Find(hash, a) \in DOMAIN hash /\ hash[Find(hash, a)].key = a
    BY <1>2, <2>1
  <2> QED BY <1>1, <2>2
<1>3. CASE ~ \E p \in DOMAIN hash : hash[p].key = a
  BY <1>1, <1>3 DEF Find
<1> QED BY <1>2, <1>3

(* find_address moves the entry to the end, the others close up.           *)
LEMMA FindAddressFacts ==
    ASSUME NEW E, NEW hash \in Seq(E), NEW p \in 1..Len(hash)
    PROVE  /\ FindAddress(hash, p) \in Seq(E)
           /\ Len(FindAddress(hash, p)) = Len(hash)
           /\ \A i \in 1..Len(hash) :
                  FindAddress(hash, p)[i] = IF i < p THEN hash[i]
                                            ELSE IF i < Len(hash) THEN hash[i + 1]
                                            ELSE hash[p]
<1> DEFINE n == Len(hash)
           l == SubSeq(hash, 1, p - 1)
           r == SubSeq(hash, p + 1, n)
<1>1. n \in Nat /\ p \in Nat /\ p >= 1 /\ p <= n
  OBVIOUS
<1>2. hash[p] \in E
  BY ElementOfSeq
<1>3. l \in Seq(E) /\ Len(l) = p - 1 /\ \A i \in 1..(p - 1) : l[i] = hash[i]
  BY <1>1
<1>4. r \in Seq(E) /\ Len(r) = n - p /\ \A i \in 1..(n - p) : r[i] = hash[p + i]
  BY <1>1
<1> HIDE DEF l, r
<1>5. /\ l \o r \in Seq(E) /\ Len(l \o r) = n - 1
      /\ \A i \in 1..(n - 1) : (l \o r)[i] = IF i < p THEN l[i] ELSE r[i - (p - 1)]
  <2>1. /\ l \o r \in Seq(E) /\ Len(l \o r) = Len(l) + Len(r)
        /\ \A i \in 1..(Len(l) + Len(r)) :
               (l \o r)[i] = IF i <= Len(l) THEN l[i] ELSE r[i - Len(l)]
    BY <1>3, <1>4, ConcatProperties, Zenon
  <2> QED BY <1>1, <1>3, <1>4, <2>1, SMTT(60)
<1>6. \A i \in 1..(n - 1) : (l \o r)[i] = IF i < p THEN hash[i] ELSE hash[i + 1]
  <2> TAKE i \in 1..(n - 1)
  <2>1. CASE i < p
    BY <1>1, <1>3, <1>5, <2>1
  <2>2. CASE ~ (i < p)
    <3>1. i - (p - 1) \in 1..(n - p) /\ p + (i - (p - 1)) = i + 1
      BY <1>1, <2>2
    <3>2. r[i - (p - 1)] = hash[p + (i - (p - 1))]
      BY <1>4, <3>1
    <3> QED BY <1>5, <2>2, <3>1, <3>2
  <2> QED BY <2>1, <2>2
<1>7. FindAddress(hash, p) = (l \o r) \o <<hash[p]>>
  BY DEF FindAddress, l, r
<1> DEFINE m == l \o r
<1>8. m \in Seq(E) /\ Len(m) = n - 1 /\ \A i \in 1..(n - 1) : m[i] = IF i < p THEN hash[i] ELSE hash[i + 1]
  BY <1>5, <1>6
<1> HIDE DEF m
<1>9. m \o <<hash[p]>> = Append(m, hash[p])
  BY <1>2, <1>8, AppendIsConcat
<1>10. /\ Append(m, hash[p]) \in Seq(E) /\ Len(Append(m, hash[p])) = n
       /\ Append(m, hash[p])[n] = hash[p]
       /\ \A i \in 1..(n - 1) : Append(m, hash[p])[i] = m[i]
  BY <1>1, <1>2, <1>8
<1>11. \A i \in 1..n : Append(m, hash[p])[i] = IF i < p THEN hash[i]
                                               ELSE IF i < n THEN hash[i + 1] ELSE hash[p]
  <2> TAKE i \in 1..n
  <2>1. CASE i \in 1..(n - 1)
    BY <1>1, <1>8, <1>10, <2>1
  <2>2. CASE i = n
    BY <1>1, <1>10, <2>2
  <2>3. i \in 1..(n - 1) \/ i = n
    BY <1>1
  <2> QED BY <2>1, <2>2, <2>3, Zenon
<1>12. FindAddress(hash, p) = Append(m, hash[p])
  BY <1>7, <1>9 DEF m
<1> QED BY <1>10, <1>11, <1>12

(* add_address puts the new entry at the end; a full cache loses its first *)
(* entry.                                                                  *)
Gone(hash) == IF Len(hash) < MAX_CRYPTIO_CACHE_SIZE THEN 0 ELSE 1

(* An added pair is the last; at MAX_CACHE_SIZE the first is gone.         *)
LEMMA AddAddressFacts ==
    ASSUME NEW E, NEW hash \in Seq(E), NEW a, NEW enc, [key |-> a, cpan_addr |-> enc] \in E
    PROVE  /\ AddAddress(hash, a, enc) \in Seq(E)
           /\ Len(AddAddress(hash, a, enc)) = Len(hash) + 1 - Gone(hash)
           /\ \A i \in 1..(Len(hash) - Gone(hash)) :
                  AddAddress(hash, a, enc)[i] = hash[i + Gone(hash)]
           /\ AddAddress(hash, a, enc)[Len(hash) + 1 - Gone(hash)]
                  = [key |-> a, cpan_addr |-> enc]
<1> DEFINE e   == [key |-> a, cpan_addr |-> enc]
           all == Append(hash, e)
           n   == Len(hash)
           M   == MAX_CRYPTIO_CACHE_SIZE
<1>1. n \in Nat /\ M \in Nat /\ M > 0
  BY CryptoAssumption
<1> HIDE DEF e
<1>2. e \in E
  BY DEF e
<1>3. all \in Seq(E) /\ Len(all) = n + 1
  BY <1>2
<1>4. all[n + 1] = e /\ \A i \in 1..n : all[i] = hash[i]
  BY <1>1, <1>2
<1>5. AddAddress(hash, a, enc) = IF Len(all) > M THEN Tail(all) ELSE all
  BY DEF AddAddress, e
<1> HIDE DEF all
<1>6. CASE n < M
  <2>1. AddAddress(hash, a, enc) = all /\ Gone(hash) = 0
    BY <1>1, <1>3, <1>5, <1>6 DEF Gone
  <2> QED BY <1>1, <1>3, <1>4, <2>1 DEF e
<1>7. CASE ~ (n < M)
  <2>1. AddAddress(hash, a, enc) = Tail(all) /\ Gone(hash) = 1
    BY <1>1, <1>3, <1>5, <1>7 DEF Gone
  <2>2. all \in Seq(E) /\ Len(all) \in Nat /\ all # << >>
    BY <1>1, <1>3
  <2>3. /\ Tail(all) \in Seq(E) /\ Len(Tail(all)) = Len(all) - 1
        /\ \A i \in 1..Len(Tail(all)) : Tail(all)[i] = all[i + 1]
    BY <2>2, HeadTailProperties, Zenon
  <2>4. /\ Len(Tail(all)) = Len(hash)
        /\ \A i \in 1..Len(hash) : Tail(all)[i] = all[i + 1]
    BY <1>1, <1>3, <2>3
  <2>5. \A i \in 1..(Len(hash) - 1) : Tail(all)[i] = hash[i + 1]
    BY <1>1, <1>4, <2>4
  <2>6. Len(hash) \in 1..Len(hash)
    BY <1>1, <1>7
  <2>7. Tail(all)[Len(hash)] = e
    BY <1>4, <2>4, <2>6
  <2>8. Len(hash) = Len(hash) + 1 - Gone(hash) /\ Len(hash) - 1 = Len(hash) - Gone(hash)
    BY <1>1, <2>1
  <2> QED BY <2>1, <2>3, <2>4, <2>5, <2>7, <2>8 DEF e
<1> QED BY <1>6, <1>7

-----------------------------------------------------------------------------
(* Two words that disagree somewhere disagree at a first position.         *)
LEMMA FirstDisagreement ==
    ASSUME NEW a \in Address, NEW b \in Address, NEW n \in 0..Width, ~ AgreeUpTo(a, b, n)
    PROVE  \E d \in 1..n : a[d] # b[d] /\ AgreeUpTo(a, b, d - 1)
<1> DEFINE D == {d \in 1..n : a[d] # b[d]}
<1>1. n \in Nat
  BY CryptoAssumption
<1>2. D \subseteq Nat /\ D # {}
  BY <1>1 DEF AgreeUpTo
<1>3. PICK d \in D : \A x \in D : ~ (<<x, d>> \in OpToRel(<, Nat))
  BY <1>2, NatLessThanWellFounded, WFMin, Zenon
<1>4. d \in 1..n /\ a[d] # b[d]
  BY <1>3
<1>5. ASSUME NEW i \in 1..(d - 1) PROVE a[i] = b[i]
  <2>1. i \in 1..n /\ i < d /\ i \in Nat /\ d \in Nat
    BY <1>1, <1>4
  <2>2. SUFFICES ASSUME a[i] # b[i] PROVE FALSE
    OBVIOUS
  <2>3. i \in D
    BY <2>1, <2>2
  <2>4. <<i, d>> \in {ss \in Nat \X Nat : ss[1] < ss[2]}
    BY <2>1
  <2> QED BY <1>3, <2>3, <2>4 DEF OpToRel
<1> QED BY <1>4, <1>5 DEF AgreeUpTo

(* The encryption preserves exactly the common prefix: a bit of the pad    *)
(* depends only on the bits before it, so the first bit in which two words *)
(* differ is xored with the same bit and is the first to differ.           *)
LEMMA PpPrefix ==
    ASSUME NEW k \in Key, NEW a \in Address, NEW b \in Address, NEW n \in 0..Width
    PROVE  AgreeUpTo(a, b, n) <=> AgreeUpTo(PpAnonymize(k, a), PpAnonymize(k, b), n)
<1>1. Width \in Nat /\ n \in Nat /\ n <= Width
  BY CryptoAssumption
<1>2. ASSUME NEW d \in 1..Width, AgreeUpTo(a, b, d - 1)
      PROVE  PadBit(k, a, d) = PadBit(k, b, d)
  <2>1. \A i \in 1..Width : i < d => a[i] = b[i]
    BY <1>1, <1>2 DEF AgreeUpTo
  <2>2. [i \in 1..Width |-> IF i < d THEN a[i] ELSE k.m_pad[i]]
        = [i \in 1..Width |-> IF i < d THEN b[i] ELSE k.m_pad[i]]
    BY <2>1
  <2> QED BY <2>2 DEF PadBit
<1>3. ASSUME AgreeUpTo(a, b, n), NEW i \in 1..n
      PROVE  PpAnonymize(k, a)[i] = PpAnonymize(k, b)[i]
  <2>1. i \in 1..Width /\ AgreeUpTo(a, b, i - 1) /\ a[i] = b[i]
    BY <1>1, <1>3 DEF AgreeUpTo
  <2>2. PadBit(k, a, i) = PadBit(k, b, i)
    BY <1>2, <2>1
  <2> QED BY <2>1, <2>2, PadFacts
<1>4. ASSUME ~ AgreeUpTo(a, b, n)
      PROVE  ~ AgreeUpTo(PpAnonymize(k, a), PpAnonymize(k, b), n)
  <2>1. PICK d \in 1..n : a[d] # b[d] /\ AgreeUpTo(a, b, d - 1)
    BY <1>4, FirstDisagreement
  <2>2. d \in 1..Width
    BY <1>1
  <2>3. PadBit(k, a, d) = PadBit(k, b, d)
    BY <1>2, <2>1, <2>2
  <2>4. /\ PpAnonymize(k, a)[d] = Xor(PadBit(k, a, d), a[d])
        /\ PpAnonymize(k, b)[d] = Xor(PadBit(k, b, d), b[d])
    BY <2>2, PadFacts
  <2>5. PadBit(k, a, d) \in Bit /\ a[d] \in Bit /\ b[d] \in Bit
    BY <2>2, PadFacts, SMTT(60) DEF Address
  <2>6. PpAnonymize(k, a)[d] # PpAnonymize(k, b)[d]
    BY <2>1, <2>3, <2>4, <2>5 DEF Xor, Bit
  <2> QED BY <2>6 DEF AgreeUpTo
<1> QED BY <1>3, <1>4 DEF AgreeUpTo

(* A mask preserves exactly the common prefix.                             *)
LEMMA MaskPrefix ==
    ASSUME NEW a \in Address, NEW b \in Address, NEW m \in Address, NEW n \in 0..Width
    PROVE  AgreeUpTo(a, b, n) <=> AgreeUpTo(XorWord(a, m), XorWord(b, m), n)
<1>1. Width \in Nat /\ n \in Nat /\ n <= Width
  BY CryptoAssumption
<1>2. ASSUME NEW i \in 1..n
      PROVE  a[i] = b[i] <=> XorWord(a, m)[i] = XorWord(b, m)[i]
  <2>1. i \in 1..Width
    BY <1>1
  <2>2. a[i] \in Bit /\ b[i] \in Bit /\ m[i] \in Bit
    BY <2>1 DEF Address
  <2>3. XorWord(a, m)[i] = Xor(a[i], m[i]) /\ XorWord(b, m)[i] = Xor(b[i], m[i])
    BY <2>1, XorFacts
  <2> QED BY <2>2, <2>3 DEF Xor, Bit
<1> QED BY <1>2 DEF AgreeUpTo

(* Masked and encrypted words agree on exactly the prefix of the words.    *)
LEMMA MaskedPrefix ==
    ASSUME NEW k \in Key, NEW a \in Address6, NEW b \in Address6,
           NEW i \in 1..4, NEW n \in 0..Width
    PROVE  /\ AgreeUpTo(a[i], b[i], n) <=> AgreeUpTo(Pp6(k, a)[i], Pp6(k, b)[i], n)
           /\ a[i] = b[i] <=> Pp6(k, a)[i] = Pp6(k, b)[i]
<1>1. /\ a[i] \in Address /\ b[i] \in Address /\ Mask[i] \in Address
      /\ XorWord(a[i], Mask[i]) \in Address /\ XorWord(b[i], Mask[i]) \in Address
  BY CryptoAssumption, Pp6Facts DEF Address6
<1>2. /\ Pp6(k, a)[i] = PpAnonymize(k, XorWord(a[i], Mask[i]))
      /\ Pp6(k, b)[i] = PpAnonymize(k, XorWord(b[i], Mask[i]))
  BY DEF Pp6
<1>3. ASSUME NEW m \in 0..Width
      PROVE  AgreeUpTo(a[i], b[i], m) <=> AgreeUpTo(Pp6(k, a)[i], Pp6(k, b)[i], m)
  <2> DEFINE x == XorWord(a[i], Mask[i])
             y == XorWord(b[i], Mask[i])
  <2>1. AgreeUpTo(a[i], b[i], m) <=> AgreeUpTo(x, y, m)
    BY <1>1, MaskPrefix
  <2> HIDE DEF x, y
  <2>2. AgreeUpTo(x, y, m) <=> AgreeUpTo(PpAnonymize(k, x), PpAnonymize(k, y), m)
    BY <1>1, PpPrefix DEF x, y
  <2> QED BY <1>2, <2>1, <2>2 DEF x, y
<1>4. Width \in 0..Width
  BY CryptoAssumption
<1>5. \A x, y \in Address : x = y <=> AgreeUpTo(x, y, Width)
  <2> SUFFICES ASSUME NEW x \in Address, NEW y \in Address, AgreeUpTo(x, y, Width)
               PROVE  x = y
    BY DEF AgreeUpTo
  <2>1. x = [j \in 1..Width |-> x[j]] /\ y = [j \in 1..Width |-> y[j]]
    BY DEF Address
  <2>2. \A j \in 1..Width : x[j] = y[j]
    BY DEF AgreeUpTo
  <2> QED BY <2>1, <2>2
<1>6. Pp6(k, a)[i] \in Address /\ Pp6(k, b)[i] \in Address
  BY <1>1, <1>2, PadFacts
<1> QED BY <1>1, <1>3, <1>4, <1>5, <1>6

-----------------------------------------------------------------------------
(* The history after a is asked for.                                       *)
Asked1(l, a) == [b \in DOMAIN l \cup {a} |-> IF b = a THEN {} ELSE l[b] \cup {a}]

IsCached(hash, b) == \E p \in 1..Len(hash) : hash[p].key = b

(* What makes the cache one of the least recently used: no address twice,  *)
(* behind each entry exactly the addresses asked for since its own, and    *)
(* an address that is gone has seen all of a full cache being asked for.   *)
InOrder(hash, l) ==
    /\ Len(hash) <= MAX_CRYPTIO_CACHE_SIZE
    /\ \A p, q \in 1..Len(hash) : hash[p].key = hash[q].key => p = q
    /\ \A p \in 1..Len(hash) :
           /\ hash[p].key \in DOMAIN l
           /\ \A b : b \in l[hash[p].key] <=> \E q \in (p + 1)..Len(hash) : hash[q].key = b
    /\ \A b \in DOMAIN l : ~ IsCached(hash, b) =>
           /\ Len(hash) = MAX_CRYPTIO_CACHE_SIZE
           /\ \A q \in 1..Len(hash) : hash[q].key \in l[b]

(* An address found in the cache: its entry moves behind all the others.   *)
LEMMA HitInOrder ==
    ASSUME NEW hash \in Seq(Entries), NEW l, InOrder(hash, l), NEW p \in 1..Len(hash)
    PROVE  InOrder(FindAddress(hash, p), Asked1(l, hash[p].key))
<1> DEFINE a   == hash[p].key
           n   == Len(hash)
           new == FindAddress(hash, p)
           f(i) == IF i < p THEN i ELSE IF i < n THEN i + 1 ELSE p
           g(q) == IF q < p THEN q ELSE IF q = p THEN n ELSE q - 1
           l1  == Asked1(l, a)
<1>1. n \in Nat /\ p \in Nat /\ p >= 1 /\ p <= n
  OBVIOUS
<1>2. new \in Seq(Entries) /\ Len(new) = n
  BY FindAddressFacts
<1>3. \A i \in 1..n : f(i) \in 1..n /\ new[i] = hash[f(i)] /\ g(f(i)) = i
  <2> TAKE i \in 1..n
  <2>1. new[i] = IF i < p THEN hash[i] ELSE IF i < n THEN hash[i + 1] ELSE hash[p]
    BY FindAddressFacts
  <2>2. f(i) \in 1..n /\ g(f(i)) = i
    BY <1>1
  <2> QED BY <2>1, <2>2
<1>4. \A q \in 1..n : g(q) \in 1..n /\ f(g(q)) = q
  BY <1>1
<1>5. \A q \in 1..n : new[g(q)] = hash[q]
  <2> HIDE DEF f, g, new
  <2> QED BY <1>3, <1>4
<1>6. \A i, j \in 1..n : new[i].key = new[j].key => i = j
  <2> SUFFICES ASSUME NEW i \in 1..n, NEW j \in 1..n, new[i].key = new[j].key
               PROVE  i = j
    OBVIOUS
  <2> HIDE DEF f, g, new
  <2>1. hash[f(i)].key = hash[f(j)].key
    BY <1>3
  <2>2. f(i) = f(j)
    BY <1>3, <2>1 DEF InOrder
  <2> QED BY <1>3, <2>2
<1>7. new[n].key = a
  BY <1>1, <1>3
<1>8. DOMAIN l1 = DOMAIN l \cup {a} /\ l1[a] = {} /\ \A b : b \in DOMAIN l /\ b # a => l1[b] = l[b] \cup {a}
  <2> HIDE DEF a, l1
  <2>1. l1 = Asked1(l, a)
    BY DEF l1
  <2> QED BY <2>1 DEF Asked1
<1> HIDE DEF l1, new
<1>9. ASSUME NEW i \in 1..n
      PROVE  /\ new[i].key \in DOMAIN l1
             /\ \A b : b \in l1[new[i].key] <=> \E j \in (i + 1)..n : new[j].key = b
  <2>1. CASE i = n
    <3>1. (i + 1)..n = {}
      BY <1>1, <2>1
    <3> QED BY <1>7, <1>8, <2>1, <3>1
  <2>2. CASE i # n
    <3>1. i < n /\ i + 1 \in 1..n /\ n \in (i + 1)..n
      BY <1>1, <2>2
    <3>2. new[i] = hash[f(i)] /\ f(i) \in 1..n
      BY <1>3
    <3>3. new[i].key # a
      BY <1>1, <1>6, <1>7, <3>1
    <3>4. new[i].key \in DOMAIN l
      BY <3>2 DEF InOrder
    <3>5. l1[new[i].key] = l[hash[f(i)].key] \cup {a}
      BY <1>8, <3>2, <3>3, <3>4
    <3>6. \A b : b \in l[hash[f(i)].key] <=> \E q \in (f(i) + 1)..n : hash[q].key = b
      BY <3>2 DEF InOrder
    <3>7. ASSUME NEW b, b \in l1[new[i].key]
          PROVE  \E j \in (i + 1)..n : new[j].key = b
      <4>1. CASE b = a
        BY <1>7, <3>1, <4>1
      <4>2. CASE b # a
        <5>1. PICK q \in (f(i) + 1)..n : hash[q].key = b
          BY <3>5, <3>6, <3>7, <4>2
        <5>2. q \in 1..n /\ q # p /\ f(i) < q
          BY <1>1, <3>2, <4>2, <5>1
        <5>3. g(q) \in (i + 1)..n
          BY <1>1, <3>1, <5>2
        <5>4. new[g(q)].key = b
          BY <1>5, <5>1, <5>2
        <5> QED BY <5>3, <5>4
      <4> QED BY <4>1, <4>2
    <3>8. ASSUME NEW j \in (i + 1)..n
          PROVE  new[j].key \in l1[new[i].key]
      <4>1. CASE j = n
        BY <1>7, <3>5, <4>1
      <4>2. CASE j # n
        <5>1. j \in 1..n /\ j < n /\ i < j
          BY <1>1, <4>2
        <5>2. f(j) \in (f(i) + 1)..n
          BY <1>1, <5>1
        <5>3. new[j] = hash[f(j)]
          BY <1>3, <5>1
        <5>4. new[j].key \in l[hash[f(i)].key]
          BY <3>6, <5>2, <5>3
        <5> QED BY <3>5, <5>4
      <4> QED BY <4>1, <4>2
    <3>9. new[i].key \in DOMAIN l1
      BY <1>8, <3>4
    <3> QED BY <3>7, <3>8, <3>9
  <2> QED BY <2>1, <2>2
<1>10. ASSUME NEW b \in DOMAIN l1, ~ IsCached(new, b)
       PROVE  n = MAX_CRYPTIO_CACHE_SIZE /\ \A q \in 1..n : new[q].key \in l1[b]
  <2>1. \A q \in 1..n : hash[q].key # b
    BY <1>2, <1>4, <1>5, <1>10 DEF IsCached
  <2>2. b # a /\ b \in DOMAIN l /\ ~ IsCached(hash, b)
    BY <1>8, <2>1 DEF IsCached
  <2>3. n = MAX_CRYPTIO_CACHE_SIZE /\ \A q \in 1..n : hash[q].key \in l[b]
    BY <2>2 DEF InOrder
  <2>4. \A q \in 1..n : new[q].key \in l[b]
    BY <1>3, <2>3
  <2> QED BY <1>8, <2>2, <2>3, <2>4
<1>11. InOrder(new, l1)
  <2>1. Len(new) <= MAX_CRYPTIO_CACHE_SIZE
    BY <1>2 DEF InOrder
  <2> QED BY <1>2, <1>6, <1>9, <1>10, <2>1, SMTT(60) DEF InOrder
<1> QED BY <1>11 DEF new, l1

(* An address that is not cached: its entry goes to the end, and the first *)
(* one leaves a full cache.                                                *)
LEMMA MissInOrder ==
    ASSUME NEW hash \in Seq(Entries), NEW l, InOrder(hash, l), NEW a \in Address,
           NEW enc \in Address, ~ IsCached(hash, a)
    PROVE  InOrder(AddAddress(hash, a, enc), Asked1(l, a))
<1> DEFINE n   == Len(hash)
           g   == Gone(hash)
           m   == n + 1 - g
           new == AddAddress(hash, a, enc)
           l1  == Asked1(l, a)
           M   == MAX_CRYPTIO_CACHE_SIZE
<1>1. n \in Nat /\ M \in Nat /\ M > 0 /\ n <= M
  BY CryptoAssumption DEF InOrder
<1>2. (g = 0 /\ n < M) \/ (g = 1 /\ n = M)
  BY <1>1 DEF Gone
<1>3. m \in Nat /\ m >= 1 /\ m <= M
  BY <1>1, <1>2
<1>4. [key |-> a, cpan_addr |-> enc] \in Entries
  BY DEF Entries
<1>5. /\ Len(new) = m
      /\ \A i \in 1..(m - 1) : new[i] = hash[i + g] /\ i + g \in 1..n
      /\ new[m].key = a
  <2>1. /\ Len(new) = m
        /\ \A i \in 1..(n - g) : new[i] = hash[i + g]
        /\ new[m] = [key |-> a, cpan_addr |-> enc]
    BY <1>4, AddAddressFacts
  <2> HIDE DEF new
  <2> QED BY <1>1, <1>2, <2>1
<1>6. DOMAIN l1 = DOMAIN l \cup {a} /\ l1[a] = {} /\ \A b : b \in DOMAIN l /\ b # a => l1[b] = l[b] \cup {a}
  <2> HIDE DEF l1
  <2>1. l1 = Asked1(l, a)
    BY DEF l1
  <2> QED BY <2>1 DEF Asked1
<1>7. \A q \in 1..n : hash[q].key # a
  BY DEF IsCached
<1> HIDE DEF new, l1
<1>8. \A i, j \in 1..m : new[i].key = new[j].key => i = j
  <2> SUFFICES ASSUME NEW i \in 1..m, NEW j \in 1..m, new[i].key = new[j].key
               PROVE  i = j
    OBVIOUS
  <2>1. CASE i = m \/ j = m
    BY <1>3, <1>5, <1>7, <2>1
  <2>2. CASE i # m /\ j # m
    <3>1. i \in 1..(m - 1) /\ j \in 1..(m - 1)
      BY <1>3, <2>2
    <3>2. hash[i + g].key = hash[j + g].key /\ i + g \in 1..n /\ j + g \in 1..n
      BY <1>5, <3>1
    <3>3. i + g = j + g
      BY <3>2 DEF InOrder
    <3> QED BY <1>2, <3>1, <3>3
  <2> QED BY <2>1, <2>2
<1>9. ASSUME NEW i \in 1..m
      PROVE  /\ new[i].key \in DOMAIN l1
             /\ \A b : b \in l1[new[i].key] <=> \E j \in (i + 1)..m : new[j].key = b
  <2>1. CASE i = m
    <3>1. (i + 1)..m = {}
      BY <1>3, <2>1
    <3> QED BY <1>5, <1>6, <2>1, <3>1
  <2>2. CASE i # m
    <3>1. i \in 1..(m - 1) /\ m \in (i + 1)..m
      BY <1>3, <2>2
    <3>2. new[i] = hash[i + g] /\ i + g \in 1..n
      BY <1>5, <3>1
    <3>3. new[i].key # a /\ new[i].key \in DOMAIN l
      BY <1>7, <3>2 DEF InOrder
    <3>4. l1[new[i].key] = l[hash[i + g].key] \cup {a}
      BY <1>6, <3>2, <3>3
    <3>5. \A b : b \in l[hash[i + g].key] <=> \E q \in ((i + g) + 1)..n : hash[q].key = b
      BY <3>2 DEF InOrder
    <3>6. ASSUME NEW b, b \in l1[new[i].key]
          PROVE  \E j \in (i + 1)..m : new[j].key = b
      <4>1. CASE b = a
        BY <1>5, <3>1, <4>1
      <4>2. CASE b # a
        <5>1. PICK q \in ((i + g) + 1)..n : hash[q].key = b
          BY <3>4, <3>5, <3>6, <4>2
        <5>2. q - g \in (i + 1)..(m - 1) /\ q - g \in 1..(m - 1) /\ (q - g) + g = q
          BY <1>1, <1>2, <3>1, <5>1
        <5>3. new[q - g] = hash[q]
          BY <1>5, <5>2
        <5>4. q - g \in (i + 1)..m
          BY <1>3, <5>2
        <5> QED BY <5>1, <5>3, <5>4
      <4> QED BY <4>1, <4>2
    <3>7. ASSUME NEW j \in (i + 1)..m
          PROVE  new[j].key \in l1[new[i].key]
      <4>1. CASE j = m
        BY <1>5, <3>4, <4>1
      <4>2. CASE j # m
        <5>1. j \in 1..(m - 1)
          BY <1>3, <3>1, <4>2
        <5>2. new[j] = hash[j + g] /\ j + g \in ((i + g) + 1)..n
          BY <1>1, <1>2, <1>5, <3>1, <5>1, SMTT(60)
        <5>3. new[j].key \in l[hash[i + g].key]
          BY <3>5, <5>2
        <5> QED BY <3>4, <5>3
      <4> QED BY <4>1, <4>2
    <3>8. new[i].key \in DOMAIN l1
      BY <1>6, <3>3
    <3> QED BY <3>6, <3>7, <3>8
  <2> QED BY <2>1, <2>2
<1>10. ASSUME NEW b \in DOMAIN l1, ~ IsCached(new, b)
       PROVE  m = M /\ \A q \in 1..m : new[q].key \in l1[b]
  <2>1. \A q \in 1..m : new[q].key # b
    BY <1>5, <1>10 DEF IsCached
  <2>2. b # a /\ b \in DOMAIN l
    BY <1>3, <1>5, <1>6, <2>1
  <2>3. l1[b] = l[b] \cup {a}
    BY <1>6, <2>2
  <2>4. n = M /\ \A q \in 1..(m - 1) : hash[q + g].key \in l[b]
    <3>1. CASE ~ IsCached(hash, b)
      <4>1. n = M /\ \A q \in 1..n : hash[q].key \in l[b]
        BY <2>2, <3>1 DEF InOrder
      <4> QED BY <1>5, <4>1
    <3>2. CASE IsCached(hash, b)
      <4>1. PICK q \in 1..n : hash[q].key = b
        BY <3>2 DEF IsCached
      <4>2. ~ (q - g \in 1..(m - 1))
        <5>1. SUFFICES ASSUME q - g \in 1..(m - 1) PROVE FALSE
          OBVIOUS
        <5>2. new[q - g] = hash[(q - g) + g] /\ (q - g) + g = q /\ q - g \in 1..m
          BY <1>2, <1>3, <1>5, <5>1
        <5> QED BY <2>1, <4>1, <5>2
      <4>3. g = 1 /\ q = 1 /\ n = M
        BY <1>1, <1>2, <4>2
      <4>4. \A c : c \in l[b] <=> \E r \in 2..n : hash[r].key = c
        <5>1. 1 \in 1..n /\ hash[1].key = b
          BY <1>1, <4>1, <4>3
        <5>2. \A c : c \in l[hash[1].key] <=> \E r \in (1 + 1)..n : hash[r].key = c
          BY <5>1 DEF InOrder
        <5>3. (1 + 1)..n = 2..n
          OBVIOUS
        <5> QED BY <5>1, <5>2, <5>3
      <4>5. \A r \in 1..(m - 1) : r + g \in 2..n
        BY <1>1, <1>3, <4>3
      <4> QED BY <4>3, <4>4, <4>5
    <3> QED BY <3>1, <3>2
  <2>5. m = M
    BY <1>1, <1>2, <2>4
  <2>6. ASSUME NEW q \in 1..m PROVE new[q].key \in l1[b]
    <3>1. CASE q = m
      BY <1>5, <2>3, <3>1
    <3>2. CASE q # m
      <4>1. q \in 1..(m - 1)
        BY <1>3, <3>2
      <4> QED BY <1>5, <2>3, <2>4, <4>1
    <3> QED BY <3>1, <3>2
  <2> QED BY <2>5, <2>6
<1>11. InOrder(new, l1)
  BY <1>3, <1>5, <1>8, <1>9, <1>10 DEF InOrder
<1> QED BY <1>11 DEF new, l1

-----------------------------------------------------------------------------
(* The inductive invariant.                                                *)
Typed ==
    /\ TypeOK
    /\ \A b \in DOMAIN later : IsFiniteSet(later[b])

Sound ==
    /\ CachesSound(key, caches)
    /\ HashSound(Encryption(key), address_hash)
    /\ HashSound(Encryption6(key), address6_hash)

Inv == Typed /\ Sound /\ InOrder(address_hash, later)
(* An address that was asked for enters the history with its type.         *)
LEMMA AskTyped ==
    ASSUME Typed, NEW a \in Address, Ask(a)
    PROVE  /\ DOMAIN later' \subseteq Address
           /\ later' \in [DOMAIN later' -> SUBSET Address]
           /\ \A b \in DOMAIN later' : IsFiniteSet(later'[b])
           /\ later' = Asked1(later, a)
<1>1. later' = Asked1(later, a)
  BY DEF Ask, Asked1
<1>2. DOMAIN later' = DOMAIN later \cup {a}
  BY DEF Ask
<1>3. \A b \in DOMAIN later : later[b] \in SUBSET Address /\ IsFiniteSet(later[b])
  BY DEF Typed, TypeOK
<1>4. ASSUME NEW b \in DOMAIN later'
      PROVE  later'[b] \in SUBSET Address /\ IsFiniteSet(later'[b])
  <2>1. CASE b = a
    <3>1. later'[b] = {}
      BY <1>2, <2>1 DEF Ask
    <3> QED BY <3>1, FS_EmptySet
  <2>2. CASE b # a
    <3>1. later'[b] = later[b] \cup {a} /\ b \in DOMAIN later
      BY <1>2, <1>4, <2>2 DEF Ask
    <3>2. IsFiniteSet(later[b] \cup {a})
      BY <1>3, <3>1, FS_AddElement
    <3> QED BY <1>3, <3>1, <3>2
  <2> QED BY <2>1, <2>2
<1>5. DOMAIN later' \subseteq Address
  BY <1>2 DEF Typed, TypeOK
<1>6. later' = [b \in DOMAIN later' |-> later'[b]]
  BY DEF Ask
<1>7. later' \in [DOMAIN later' -> SUBSET Address]
  BY <1>4, <1>6
<1> QED BY <1>1, <1>4, <1>5, <1>7

(* What a sound cache has as its result is an address.                     *)
LEMMA SoundResult ==
    ASSUME NEW k \in Key, NEW c, CachesSound(k, c)
    PROVE  Result(c) \in Address
  BY DEF CachesSound, PairSound, Pair, Result

(* A search fails just for the addresses that are not cached.              *)
LEMMA NotFound ==
    ASSUME NEW E, NEW hash \in Seq(E), NEW a
    PROVE  Find(hash, a) = 0 <=> ~ IsCached(hash, a)
  BY FindFacts DEF IsCached

(* Moving an entry, or adding a sound one, keeps the entries sound.        *)
LEMMA HashSoundKept ==
    ASSUME NEW A, NEW F, NEW hash \in Seq([key : A, cpan_addr : A]), HashSound(F, hash)
    PROVE  /\ \A p \in 1..Len(hash) : HashSound(F, FindAddress(hash, p))
           /\ \A a, enc \in A : enc = F[a] => HashSound(F, AddAddress(hash, a, enc))
<1>1. Len(hash) \in Nat
  OBVIOUS
<1>2. ASSUME NEW p \in 1..Len(hash) PROVE HashSound(F, FindAddress(hash, p))
  <2> DEFINE new == FindAddress(hash, p)
  <2>1. /\ Len(new) = Len(hash)
        /\ \A i \in 1..Len(hash) :
               new[i] = IF i < p THEN hash[i]
                        ELSE IF i < Len(hash) THEN hash[i + 1] ELSE hash[p]
    BY FindAddressFacts
  <2> HIDE DEF new
  <2>2. \A i \in 1..Len(hash) : \E q \in 1..Len(hash) : new[i] = hash[q]
    BY <1>1, <2>1
  <2>3. \A i \in 1..Len(hash) : new[i].cpan_addr = F[new[i].key]
    <3> TAKE i \in 1..Len(hash)
    <3>1. PICK q \in 1..Len(hash) : new[i] = hash[q]
      BY <2>2
    <3>2. hash[q].cpan_addr = F[hash[q].key]
      BY DEF HashSound
    <3> QED BY <3>1, <3>2
  <2>4. HashSound(F, new)
    BY <2>1, <2>3, Zenon DEF HashSound
  <2> QED BY <2>4 DEF new
<1>3. ASSUME NEW a \in A, NEW enc \in A, enc = F[a]
      PROVE  HashSound(F, AddAddress(hash, a, enc))
  <2> DEFINE new == AddAddress(hash, a, enc)
             m   == Len(hash) + 1 - Gone(hash)
  <2>1. [key |-> a, cpan_addr |-> enc] \in [key : A, cpan_addr : A]
    OBVIOUS
  <2>2. /\ Len(new) = m
        /\ \A i \in 1..(Len(hash) - Gone(hash)) : new[i] = hash[i + Gone(hash)]
        /\ new[m] = [key |-> a, cpan_addr |-> enc]
    <3> DEFINE E == [key : A, cpan_addr : A]
    <3>1. hash \in Seq(E) /\ [key |-> a, cpan_addr |-> enc] \in E
      BY <2>1
    <3> HIDE DEF E
    <3> QED BY <3>1, AddAddressFacts
  <2> HIDE DEF new
  <2>3. \A i \in 1..m : i = m \/ (i \in 1..(Len(hash) - Gone(hash)) /\ i + Gone(hash) \in 1..Len(hash))
    BY <1>1 DEF Gone
  <2>4. \A i \in 1..m : new[i].cpan_addr = F[new[i].key]
    <3> TAKE i \in 1..m
    <3>1. CASE i = m
      BY <1>3, <2>2, <3>1
    <3>2. CASE i # m
      BY <2>2, <2>3, <3>2 DEF HashSound
    <3> QED BY <3>1, <3>2
  <2>5. HashSound(F, new)
    BY <2>2, <2>4 DEF HashSound
  <2> QED BY <2>5 DEF new
<1> QED BY <1>2, <1>3

(* The caches start with the zero addresses and what they are encrypted    *)
(* to.                                                                     *)
LEMMA InitEstablishes == Init => Inv
<1> SUFFICES ASSUME Init PROVE Inv
  OBVIOUS
<1> DEFINE w  == Warmed(key)
           cs == EncryptIpv6(key, w, Zero6)
<1>1. key \in Key /\ Zero \in Address /\ Zero6 \in Address6
  BY WordFacts DEF Init
<1>2. CachesSound(key, w) /\ Result(w) = PpAnonymize(key, Zero)
  BY <1>1, WarmedFacts
<1> HIDE DEF w
<1>3. CachesSound(key, cs[4]) /\ Result6(cs) = Pp6(key, Zero6)
  BY <1>1, <1>2, EncryptIpv6Facts
<1> HIDE DEF cs
<1>4. /\ address_hash = AddAddress(<< >>, Zero, Result(w))
      /\ address6_hash = AddAddress(<< >>, Zero6, Result6(cs))
      /\ caches = cs[4] /\ later = [b \in {Zero} |-> {}]
  BY DEF Init, w, cs
<1>5. PpAnonymize(key, Zero) \in Address /\ Pp6(key, Zero6) \in Address6
  BY <1>1, PadFacts, Pp6Facts
<1> DEFINE e  == [key |-> Zero, cpan_addr |-> Result(w)]
           e6 == [key |-> Zero6, cpan_addr |-> Result6(cs)]
<1>6. address_hash = <<e>> /\ address6_hash = <<e6>>
  <2>1. \A x : Len(Append(<< >>, x)) = 1 /\ Append(<< >>, x) = <<x>>
    OBVIOUS
  <2>2. ~ (1 > MAX_CRYPTIO_CACHE_SIZE)
    BY CryptoAssumption
  <2> QED BY <1>4, <2>1, <2>2 DEF AddAddress
<1>7. e \in Entries /\ e6 \in Entries6
  BY <1>1, <1>2, <1>3, <1>5 DEF Entries, Entries6
<1>8. Typed
  <2>1. address_hash \in Seq(Entries) /\ address6_hash \in Seq(Entries6)
    BY <1>6, <1>7
  <2>2. later \in [DOMAIN later -> SUBSET Address] /\ DOMAIN later \subseteq Address
    BY <1>1, <1>4
  <2>3. \A b \in DOMAIN later : IsFiniteSet(later[b])
    BY <1>4, FS_EmptySet
  <2> QED BY <1>1, <1>3, <1>4, <2>1, <2>2, <2>3
          DEF Typed, TypeOK, CachesSound, Entries, Entries6
<1>9. Sound
  <2>1. HashSound(Encryption(key), <<e>>)
    BY <1>1, <1>2 DEF HashSound, Encryption
  <2>2. HashSound(Encryption6(key), <<e6>>)
    BY <1>1, <1>3 DEF HashSound, Encryption6
  <2> QED BY <1>3, <1>4, <1>6, <2>1, <2>2 DEF Sound
<1>10. InOrder(address_hash, later)
  <2>1. Len(<<e>>) = 1 /\ <<e>>[1].key = Zero
    OBVIOUS
  <2>2. DOMAIN later = {Zero} /\ later[Zero] = {}
    BY <1>4
  <2>3. 1 <= MAX_CRYPTIO_CACHE_SIZE
    BY CryptoAssumption
  <2> HIDE DEF e
  <2> QED BY <1>6, <2>1, <2>2, <2>3 DEF InOrder, IsCached
<1> QED BY <1>8, <1>9, <1>10 DEF Inv

(* A hit moves a pair to the end of the cache.                             *)
LEMMA RetrieveHitKeeps ==
    ASSUME Inv, NEW a \in Asked, RetrieveHit(a)
    PROVE  Inv'
<1> DEFINE p == Find(address_hash, a)
<1>1. a \in Address /\ address_hash \in Seq(Entries) /\ Typed /\ Sound
  BY CryptoAssumption DEF Inv, Typed, TypeOK, Entries
<1>2. p \in 1..Len(address_hash) /\ address_hash[p].key = a
  BY <1>1, FindFacts DEF RetrieveHit
<1>3. /\ address_hash' = FindAddress(address_hash, p) /\ Ask(a)
      /\ UNCHANGED <<key, address6_hash, caches>>
  BY DEF RetrieveHit
<1> HIDE DEF p
<1>4. Typed'
  <2>1. address_hash' \in Seq(Entries)
    BY <1>1, <1>2, <1>3, FindAddressFacts
  <2> QED BY <1>1, <1>3, <2>1, AskTyped DEF Typed, TypeOK, Entries
<1>5. Sound'
  <2>1. HashSound(Encryption(key), FindAddress(address_hash, p))
    BY <1>1, <1>2, HashSoundKept DEF Sound, Entries
  <2> QED BY <1>1, <1>3, <2>1 DEF Sound
<1>6. InOrder(address_hash', later')
  <2>1. InOrder(FindAddress(address_hash, p), Asked1(later, a))
    BY <1>1, <1>2, HitInOrder DEF Inv
  <2> QED BY <1>1, <1>3, <2>1, AskTyped
<1> QED BY <1>4, <1>5, <1>6 DEF Inv

(* A miss adds the pair it computes.                                       *)
LEMMA RetrieveMissKeeps ==
    ASSUME Inv, NEW a \in Asked, RetrieveMiss(a)
    PROVE  Inv'
<1> DEFINE c   == CppAnonymize(key, caches, a)
           enc == Result(c)
<1>1. a \in Address /\ address_hash \in Seq(Entries) /\ key \in Key /\ Typed /\ Sound
  BY CryptoAssumption DEF Inv, Typed, TypeOK, Entries
<1>2. CachesSound(key, c) /\ enc = PpAnonymize(key, a) /\ enc \in Address
  BY <1>1, CppFacts, PadFacts DEF Sound
<1> HIDE DEF c
<1>3. /\ caches' = c /\ address_hash' = AddAddress(address_hash, a, enc) /\ Ask(a)
      /\ UNCHANGED <<key, address6_hash>> /\ Find(address_hash, a) = 0
  BY DEF RetrieveMiss, c
<1> HIDE DEF enc
<1>4. Typed'
  <2>1. [key |-> a, cpan_addr |-> enc] \in Entries
    BY <1>1, <1>2 DEF Entries
  <2>2. address_hash' \in Seq(Entries)
    BY <1>1, <1>3, <2>1, AddAddressFacts
  <2>3. caches' \in Caches
    BY <1>2, <1>3 DEF CachesSound
  <2> QED BY <1>1, <1>3, <2>2, <2>3, AskTyped DEF Typed, TypeOK, Entries
<1>5. Sound'
  <2>1. enc = Encryption(key)[a]
    BY <1>1, <1>2 DEF Encryption
  <2>2. HashSound(Encryption(key), AddAddress(address_hash, a, enc))
    BY <1>1, <1>2, <2>1, HashSoundKept DEF Sound, Entries
  <2> QED BY <1>1, <1>2, <1>3, <2>2 DEF Sound
<1>6. InOrder(address_hash', later')
  <2>1. ~ IsCached(address_hash, a)
    BY <1>1, <1>3, NotFound
  <2>2. InOrder(AddAddress(address_hash, a, enc), Asked1(later, a))
    BY <1>1, <1>2, <2>1, MissInOrder DEF Inv
  <2> QED BY <1>1, <1>3, <2>2, AskTyped
<1> QED BY <1>4, <1>5, <1>6 DEF Inv

(* An IPv6 hit does so in the other cache.                                 *)
LEMMA Retrieve6HitKeeps ==
    ASSUME Inv, NEW a \in Asked6, Retrieve6Hit(a)
    PROVE  Inv'
<1> DEFINE p == Find(address6_hash, a)
<1>1. address6_hash \in Seq(Entries6) /\ Typed /\ Sound
  BY DEF Inv, Typed, TypeOK, Entries6
<1>2. p \in 1..Len(address6_hash)
  BY <1>1, FindFacts DEF Retrieve6Hit
<1>3. /\ address6_hash' = FindAddress(address6_hash, p)
      /\ UNCHANGED <<key, address_hash, caches, later>>
  BY DEF Retrieve6Hit
<1> HIDE DEF p
<1>4. Typed'
  <2>1. address6_hash' \in Seq(Entries6)
    BY <1>1, <1>2, <1>3, FindAddressFacts
  <2> QED BY <1>1, <1>3, <2>1 DEF Typed, TypeOK, Entries6
<1>5. Sound'
  <2>1. HashSound(Encryption6(key), FindAddress(address6_hash, p))
    BY <1>1, <1>2, HashSoundKept DEF Sound, Entries6
  <2> QED BY <1>1, <1>3, <2>1 DEF Sound
<1> QED BY <1>3, <1>4, <1>5 DEF Inv

(* An IPv6 miss adds the pair it computes, word by word.                   *)
LEMMA Retrieve6MissKeeps ==
    ASSUME Inv, NEW a \in Asked6, Retrieve6Miss(a)
    PROVE  Inv'
<1> DEFINE cs  == EncryptIpv6(key, caches, a)
           enc == Result6(cs)
<1>1. a \in Address6 /\ address6_hash \in Seq(Entries6) /\ key \in Key /\ Typed /\ Sound
  BY CryptoAssumption DEF Inv, Typed, TypeOK, Entries6
<1>2. CachesSound(key, cs[4]) /\ enc = Pp6(key, a) /\ enc \in Address6
  BY <1>1, EncryptIpv6Facts, Pp6Facts DEF Sound
<1> HIDE DEF cs
<1>3. /\ caches' = cs[4] /\ address6_hash' = AddAddress(address6_hash, a, enc)
      /\ UNCHANGED <<key, address_hash, later>>
  BY DEF Retrieve6Miss, cs
<1> HIDE DEF enc
<1>4. Typed'
  <2>1. [key |-> a, cpan_addr |-> enc] \in Entries6
    BY <1>1, <1>2 DEF Entries6
  <2>2. address6_hash' \in Seq(Entries6)
    BY <1>1, <1>3, <2>1, AddAddressFacts
  <2>3. caches' \in Caches
    BY <1>2, <1>3 DEF CachesSound
  <2> QED BY <1>1, <1>3, <2>2, <2>3 DEF Typed, TypeOK, Entries6
<1>5. Sound'
  <2>1. enc = Encryption6(key)[a]
    BY <1>1, <1>2 DEF Encryption6
  <2>2. HashSound(Encryption6(key), AddAddress(address6_hash, a, enc))
    BY <1>1, <1>2, <2>1, HashSoundKept DEF Sound, Entries6
  <2> QED BY <1>1, <1>2, <1>3, <2>2 DEF Sound
<1> QED BY <1>3, <1>4, <1>5 DEF Inv

(* The inductive invariant holds in every reachable state.                 *)
THEOREM Invariance == Spec => []Inv
<1>1. Inv /\ [Next]_vars => Inv'
  <2> SUFFICES ASSUME Inv, [Next]_vars PROVE Inv'
    OBVIOUS
  <2>1. ASSUME NEW a \in Asked, RetrieveHit(a) PROVE Inv'
    BY <2>1, RetrieveHitKeeps
  <2>2. ASSUME NEW a \in Asked, RetrieveMiss(a) PROVE Inv'
    BY <2>2, RetrieveMissKeeps
  <2>3. ASSUME NEW a \in Asked6, Retrieve6Hit(a) PROVE Inv'
    BY <2>3, Retrieve6HitKeeps
  <2>4. ASSUME NEW a \in Asked6, Retrieve6Miss(a) PROVE Inv'
    BY <2>4, Retrieve6MissKeeps
  <2>5. CASE UNCHANGED vars
    BY <2>5 DEF vars, Inv, Typed, TypeOK, Sound
  <2> QED BY <2>1, <2>2, <2>3, <2>4, <2>5 DEF Next
<1> QED BY <1>1, InitEstablishes, PTL DEF Spec
(* The variables keep their types, whatever is asked for and evicted.      *)
THEOREM Typing == Spec => []TypeOK
<1>1. Inv => TypeOK
  BY DEF Inv, Typed
<1> QED BY <1>1, Invariance, PTL

-----------------------------------------------------------------------------
(* Every answer, from a cache or computed, is the encryption.              *)
LEMMA AnswerFacts ==
    ASSUME Inv
    PROVE  /\ key \in Key
           /\ \A a \in Address : Answer(a) = PpAnonymize(key, a)
           /\ \A a \in Address6 : Answer6(a) = Pp6(key, a)
<1>1. /\ key \in Key /\ CachesSound(key, caches)
      /\ address_hash \in Seq(Entries) /\ address6_hash \in Seq(Entries6)
      /\ HashSound(Encryption(key), address_hash)
      /\ HashSound(Encryption6(key), address6_hash)
  BY DEF Inv, Typed, TypeOK, Sound, Entries, Entries6
<1>2. ASSUME NEW a \in Address PROVE Answer(a) = PpAnonymize(key, a)
  <2> DEFINE p == Find(address_hash, a)
  <2>1. CASE p = 0
    <3>1. Answer(a) = Result(CppAnonymize(key, caches, a))
      BY <2>1 DEF Answer
    <3> QED BY <1>1, <3>1, CppFacts
  <2>2. CASE p # 0
    <3>1. Answer(a) = address_hash[p].cpan_addr
      BY <2>2 DEF Answer
    <3>2. p \in 1..Len(address_hash) /\ address_hash[p].key = a
      BY <1>1, <2>2, FindFacts
    <3>3. address_hash[p].cpan_addr = Encryption(key)[a]
      <4> HIDE DEF p
      <4> QED BY <1>1, <3>2 DEF HashSound
    <3> QED BY <3>1, <3>3 DEF Encryption
  <2> QED BY <2>1, <2>2
<1>3. ASSUME NEW a \in Address6 PROVE Answer6(a) = Pp6(key, a)
  <2> DEFINE p == Find(address6_hash, a)
  <2>1. CASE p = 0
    <3>1. Answer6(a) = Result6(EncryptIpv6(key, caches, a))
      BY <2>1 DEF Answer6
    <3> QED BY <1>1, <3>1, EncryptIpv6Facts
  <2>2. CASE p # 0
    <3>1. Answer6(a) = address6_hash[p].cpan_addr
      BY <2>2 DEF Answer6
    <3>2. p \in 1..Len(address6_hash) /\ address6_hash[p].key = a
      BY <1>1, <2>2, FindFacts
    <3>3. address6_hash[p].cpan_addr = Encryption6(key)[a]
      <4> HIDE DEF p
      <4> QED BY <1>1, <3>2 DEF HashSound
    <3> QED BY <3>1, <3>3 DEF Encryption6
  <2> QED BY <2>1, <2>2
<1> QED BY <1>1, <1>2, <1>3

(* An address gets the encryption that its key determines, in whatever     *)
(* order addresses are asked for, cached and evicted (crypto_ip.c:241).    *)
THEOREM AnswersComputed == Spec => []CachedIsComputed
<1>1. Inv => CachedIsComputed
  <2> SUFFICES ASSUME Inv PROVE CachedIsComputed
    OBVIOUS
  <2>1. Asked6 \subseteq Address6
    BY CryptoAssumption
  <2> QED BY <2>1, AnswerFacts DEF CachedIsComputed, Pp6
<1> QED BY <1>1, Invariance, PTL

(* Two addresses get answers with exactly their common prefix, IPv4 and    *)
(* IPv6 (README.md:63, crypto_ip.c:272).                                   *)
THEOREM PrefixesPreserved == Spec => []PrefixPreserving
<1>1. Inv => PrefixPreserving
  <2> SUFFICES ASSUME Inv PROVE PrefixPreserving
    OBVIOUS
  <2>1. /\ key \in Key /\ Asked6 \subseteq Address6
        /\ 1..Width \subseteq 0..Width /\ Width \in Nat
    BY AnswerFacts, CryptoAssumption
  <2>2. ASSUME NEW a \in Address, NEW b \in Address, NEW n \in 1..Width
        PROVE  AgreeUpTo(a, b, n) <=> AgreeUpTo(Answer(a), Answer(b), n)
    <3>1. Answer(a) = PpAnonymize(key, a) /\ Answer(b) = PpAnonymize(key, b)
      BY AnswerFacts
    <3> QED BY <2>1, <3>1, PpPrefix
  <2>3. ASSUME NEW a \in Asked6, NEW b \in Asked6, NEW w \in 1..4, NEW n \in 1..Width
        PROVE  (AgreeUpTo(a, b, w - 1) /\ AgreeUpTo(a[w], b[w], n)) <=>
               (AgreeUpTo(Answer6(a), Answer6(b), w - 1)
                /\ AgreeUpTo(Answer6(a)[w], Answer6(b)[w], n))
    <3>1. Answer6(a) = Pp6(key, a) /\ Answer6(b) = Pp6(key, b)
      BY <2>1, AnswerFacts
    <3>2. AgreeUpTo(a[w], b[w], n) <=> AgreeUpTo(Answer6(a)[w], Answer6(b)[w], n)
      BY <2>1, <3>1, MaskedPrefix
    <3>3. \A i \in 1..4 : a[i] = b[i] <=> Answer6(a)[i] = Answer6(b)[i]
      <4> TAKE i \in 1..4
      <4>1. 0 \in 0..Width /\ a \in Address6 /\ b \in Address6
        BY <2>1
      <4> QED BY <2>1, <3>1, <4>1, MaskedPrefix
    <3>4. \A i \in 1..(w - 1) : i \in 1..4
      OBVIOUS
    <3>5. AgreeUpTo(a, b, w - 1) <=> AgreeUpTo(Answer6(a), Answer6(b), w - 1)
      BY <3>3, <3>4 DEF AgreeUpTo
    <3> QED BY <3>2, <3>5
  <2> QED BY <2>2, <2>3 DEF PrefixPreserving
<1> QED BY <1>1, Invariance, PTL

(* The size of an interval.                                                *)
LEMMA IntervalSize ==
    ASSUME NEW m \in Nat, NEW n \in Nat, m <= n + 1
    PROVE  IsFiniteSet(m..n) /\ Cardinality(m..n) = (n + 1) - m
<1>1. m \in Int /\ n \in Int
  OBVIOUS
<1>2. IsFiniteSet(m..n) /\ Cardinality(m..n) = IF m > n THEN 0 ELSE n - m + 1
  BY ONLY <1>1, FS_Interval, Zenon
<1> QED BY <1>2

(* The address cache holds exactly the addresses since whose last use      *)
(* fewer others were asked for than it has room for: an entry that is      *)
(* still in use is never the one evicted (crypto_ip.c:51).                 *)
THEOREM LeastRecentlyUsed == Spec => []CacheIsLru
<1>1. Inv => CacheIsLru
  <2> SUFFICES ASSUME Inv, NEW a \in Address
               PROVE  Find(address_hash, a) # 0 <=>
                          /\ a \in DOMAIN later
                          /\ Cardinality(later[a]) < MAX_CRYPTIO_CACHE_SIZE
    BY DEF CacheIsLru
  <2> DEFINE n == Len(address_hash)
             M == MAX_CRYPTIO_CACHE_SIZE
             K(q) == address_hash[q].key
  <2>1. /\ address_hash \in Seq(Entries) /\ n \in Nat /\ M \in Nat /\ n <= M
        /\ \A b \in DOMAIN later : IsFiniteSet(later[b])
        /\ InOrder(address_hash, later)
    BY CryptoAssumption DEF Inv, Typed, TypeOK, Entries, InOrder
  <2>2. Find(address_hash, a) = 0 <=> ~ IsCached(address_hash, a)
    BY <2>1, NotFound
  <2>3. ASSUME NEW p \in 1..n, K(p) = a
        PROVE  a \in DOMAIN later /\ Cardinality(later[a]) < M
    <3>1. a \in DOMAIN later /\ \A b : b \in later[a] <=> \E q \in (p + 1)..n : K(q) = b
      BY <2>1, <2>3 DEF InOrder
    <3> DEFINE at == [b \in later[a] |-> CHOOSE q \in (p + 1)..n : K(q) = b]
    <3>2. \A b \in later[a] : at[b] \in (p + 1)..n /\ K(at[b]) = b
      BY <3>1
    <3>3. at \in Injection(later[a], (p + 1)..n)
      <4> HIDE DEF at
      <4>1. at \in [later[a] -> (p + 1)..n]
        BY <3>2 DEF at
      <4>2. \A b, c \in later[a] : at[b] = at[c] => b = c
        BY <3>2
      <4> QED BY <4>1, <4>2 DEF Injection, IsInjective
    <3>4. IsFiniteSet((p + 1)..n) /\ Cardinality((p + 1)..n) = (n + 1) - (p + 1)
      <4>1. p + 1 \in Nat /\ p + 1 <= n + 1
        BY <2>1
      <4> HIDE DEF n
      <4> QED BY <2>1, <4>1, IntervalSize
    <3>5. Cardinality(later[a]) <= Cardinality((p + 1)..n)
      BY <3>3, <3>4, FS_Injection
    <3>6. Cardinality(later[a]) \in Nat /\ Cardinality((p + 1)..n) \in Nat
      BY <2>1, <3>1, <3>4, FS_CardinalityType
    <3> QED BY <2>1, <3>1, <3>4, <3>5, <3>6
  <2>4. ASSUME ~ IsCached(address_hash, a), a \in DOMAIN later
        PROVE  Cardinality(later[a]) >= M
    <3>1. n = M /\ \A q \in 1..n : K(q) \in later[a]
      BY <2>1, <2>4 DEF InOrder
    <3> DEFINE f == [q \in 1..n |-> K(q)]
    <3>2. f \in Injection(1..n, later[a])
      <4>1. \A q, r \in 1..n : K(q) = K(r) => q = r
        BY <2>1 DEF InOrder
      <4> QED BY <3>1, <4>1 DEF Injection, IsInjective
    <3>3. Cardinality(1..n) <= Cardinality(later[a])
      BY <2>1, <2>4, <3>2, FS_Injection
    <3>4. Cardinality(1..n) = n
      <4> HIDE DEF n
      <4>1. Cardinality(1..n) = (n + 1) - 1
        BY <2>1, IntervalSize
      <4> QED BY <2>1, <4>1
    <3>5. Cardinality(later[a]) \in Nat
      BY <2>1, <2>4, FS_CardinalityType
    <3> QED BY <2>1, <3>1, <3>3, <3>4, <3>5
  <2>5. IsCached(address_hash, a) => a \in DOMAIN later /\ Cardinality(later[a]) < M
    BY <2>3 DEF IsCached
  <2>6. a \in DOMAIN later => Cardinality(later[a]) \in Nat
    BY <2>1, FS_CardinalityType
  <2> QED BY <2>1, <2>2, <2>4, <2>5, <2>6
<1> QED BY <1>1, Invariance, PTL
=============================================================================
