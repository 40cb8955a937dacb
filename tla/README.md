# Alpha-MON in TLA+

Alpha-MON is a traffic anonymizer on DPDK. Each core polls its receive queue of
every input port, rewrites each packet for every output port it is mirrored to
(MAC and IP addresses, payload, names) and transmits it. The heart of it is
*alpha-anonymization*: a name (a DNS name, a TLS server name, an HTTP host, an
external address) stays readable only if at least `alpha` users were linked to it
in the last `delta` seconds.

This directory holds the TLA+ specifications of the program, the TLC models that
check them, and TLAPS proofs. Source paths are those of the repository: the code is
in `src/src/`, its documentation is `src/README.md`.

## 1. The system

### 1.1 Components

| Component | Code | State it keeps | Operations | Module |
|---|---|---|---|---|
| Client queue | `lru.c` | per name: a doubly linked list of clients (most recent first), `client_list` of 900 cells, `n_entry` | `referencePage`, `Enqueue`, `prune` | ClientQueue, ClientLru, LruList |
| Name table | `proto_mng.c` (`table_init`, `table_add`) | 10,000-bucket hash table of names, each with a queue; `bitMap` with a mutex and a counter per bucket | `table_add` | NameTable, AlphaAnon |
| Flow table | `flow_mng.c` | 2,000,003-bucket hash table of TCP and UDP flows with a decision `toAnon` and a random address, a mutex per bucket | `reference_flow` | FlowTable |
| Engine | `proto_mng.c` (`multiplexer_proto`, `dnsEntry`), `ext-ip_mng.c`, `tls_mng.c`, `http_mng.c`, `dns_mng.c`, `proto_finder.c` | none of its own: it reads and writes flow entries after their lock was released | one call per packet | AnonEngine |
| HTTP requests | `http_mng.c` | positions in the packet it searches and rewrites | `httpEntry` | HttpEntry |
| TLS hellos | `tls_mng.c` | the position in the hello's extensions | `tlsHelloEntry` | TlsHello |
| Address encryption | `crypto_ip.c` | per core and interface: two LRU caches of addresses, `fullcache` (two words), `enc_cache` (2^20 pads) | `initialize_crypto`, `retrieve_crypto_ip`, `retrieve_crypto_ipv6` | CryptoPan |
| Packet processing | `process_packet.c` | subnet lists | `process_packet_init`, `process_packet` | PacketPath |
| Subnet lists | `ip_utils.c` | two lists of IPv4 and IPv6 prefixes, the same for all interfaces | `ParseNetFile`, the four checks of an address | SubnetList |
| Configuration | `traffic_anon.c` (`parse_args`, `parse_ini`), `ini.c` | `config`, `in_interface`, `out_interface`, `used_ports` | one callback per entry of the INI file | Configuration |
| DNS messages | `proto_mng.c` (`dnsEntry`), `dns_mng.c` | position and length while it walks the packet it rewrites | `dnsEntry`, `ReadName` | DnsEntry |
| Forwarder | `traffic_anon.c` (`main_loop`, `init_port`) | receive and transmit queues, two buffer pools | receive, copy, process, transmit | Forwarder |
| Third-party code | `rijndael.c`, `uthash.h`, `base64.h`, `library/` | | | not modelled; Rijndael is an arbitrary function in CryptoPan |

`PROJECT.json` has the list with what is left out of each, the source lines of
every definition, and the hazards.

### 1.2 How they interact

    main
      parse_args -> ini_parse_stream -> parse_ini    one thread, before anything else
      process_packet_init -> ParseNetFile            for every interface, into the same lists
    main_loop (one per core)
      process_packet        reads the clock once, before any lock
        retrieve_crypto_ip  this core's caches only
        multiplexer_proto   detects the protocol
          reference_flow    bucket mutex -> pointer to a shared entry, used after the unlock
          external_ip, tlsHelloEntry, httpEntry, dnsEntry
            table_add       bucket mutex held from the walk to the answer
              prune, referencePage

The cores share the name table and the flow table, and nothing else but the buffer
pools and one static buffer of the IPv6 encryption. All output interfaces share
the same two tables although each has its own `alpha` and `delta`.

### 1.3 What is hard

* *Stale time.* The clock is read when a packet is taken up and used after waiting
  for a mutex: references reach a list out of time order, and `prune` stops at the
  first entry that is fresh.
* *Pruning only above alpha*: the count that decides is not always of fresh users.
* *A chain cleaned while it is walked*, with a loop bound that shrinks under the
  loop counter.
* *Pointers kept after the unlock* of the flow table while other cores collect its
  expired entries.
* *One decision per flow for two questions* (its external address and its host
  name), asked twice per packet, with early returns that leave it undecided, passing
  or unassigned.
* *Values that mean "empty"*: zero in the encryption caches, -1 in `toAnon`, an
  `ipv4_anon` nobody wrote.
* *Unchecked `malloc`* in the tables, some of them with a lock held.
* *Buffers that change hands*: the last output of an input gets the received buffer, the others copies from
  another pool, and a NIC gives a buffer back only when its queue is used again. The cores spin meanwhile.
* *One table for all interfaces*, each with its own `alpha`, `delta` and key.
* *Configuration by the order of lines*: a port's settings are a copy taken at one line of the file.
* *A walk over bytes it rewrites*: `ReadName` follows lengths and pointers among the letters it overwrites, and
  `dnsEntry` keeps a length beside its position; `httpEntry` searches for words among the letters it overwrites.

### 1.4 What makes it correct

* Client queue: list, flags and counter agree; the list is sorted up to the delay
  between a clock read and the lock; no fresh client is dropped; a count above alpha
  is of fresh clients; the code never reads `tail->timestamp` of an empty list;
  loops end.
* Name table: what is returned is never more than the users that asked; for a name alone in its bucket it is never
  less than the fresh users with a `client_list` cell of their own; a core's position in a chain is never removed by
  another core; the mutex is released; it is an implementation of AlphaAnon.
* Flow table: the entry a core holds is its flow's until it is done; only silence
  makes a flow expire; an entry that lets its flow pass is not decided again.
* Engine: a flow under anonymization stays so, and so does a flow let pass (the code does neither: section 5); a name is
  readable only if alpha users account for it, or its flow was let pass on other grounds.
* Encryption: caching is invisible; prefixes are preserved.
* Forwarder: every buffer is in one place; a port sends what its own settings make of the packet as it was received;
  packets leave once and in order; cores that wait for copies and for room in a queue do not wait for each other for good;
  buffers return to their pool.
* Configuration: `main_loop` polls the ports of the mappings, each once, with their outputs in order; a port has the
  settings its group gave before the port's line; an address is internal if a line of the subnet file covers it (of the
  interface's own group: the code keeps one list for all, section 5).
* HTTP: host, URI and Referer of a request are hidden to the last letter, its lines stay lines.
* DNS: the walk is at a record whenever it reads one, keeps the structure, and leaves nothing readable behind it.

## 2. Modules

| Module | What it is |
|---|---|
| `ClientQueue` | The queue as operators on a record `[lru, active, n_entry]`: `Enqueue`, `MoveToFront`, `Prune`, `ReferencePage`, also with a failing `malloc` |
| `ClientLru` | One queue over time: references with late stamps, walk prunes, the clock |
| `LruList` | The same over `ClientQueue`, with `malloc`ed nodes, `prev`/`next`/`head`/`tail`, one iteration of `prune` per step; refines `ClientLru` |
| `AlphaAnon` | What alpha-anonymization promises, with no table, lock or clock |
| `NameTable` | `table_add` on several cores, one action per loop iteration or branch; refines `AlphaAnon` |
| `FlowTable` | The data and `reference_flow` of the flow table, as a part for `AnonEngine` |
| `AnonEngine` | `multiplexer_proto` and the modules it calls, over `FlowTable` over `HttpEntry` and `TlsHello`, and over what `AlphaAnon` promises of the name table |
| `HttpEntry` | `httpEntry` on the bytes of one request, as operators, and what it should achieve |
| `TlsHello` | The walk of `tlsHelloEntry` over the extensions of a hello, as operators |
| `CryptoPan` | One interface's encryption on one core, with all its caches |
| `PacketPath` | What `process_packet` makes of one packet for one interface, as operators |
| `Forwarder` | `main_loop` on several cores with the NICs' queues and both pools, over `PacketPath` and over what `AlphaAnon` promises of the name table |
| `SubnetList` | `ParseNetFile` and the checks of an address, with a reference reading bit by bit |
| `Configuration` | The INI reader, `parse_ini` and `process_packet_init`, over `SubnetList` |
| `DnsEntry` | `dnsEntry` and `ReadName` on the bytes of one message |
| `MC*` | Instances for TLC |
| `QueueProofs`, `ClientLruProofs` | TLAPS proofs about `ClientQueue` and `ClientLru` |
| `LruListProofs` | TLAPS proofs about `LruList`: the pointers, and that it implements `ClientLru` |
| `NameTableProofs` | TLAPS proofs about `NameTable`, on the lemmas of `QueueProofs`: the table, that it implements `AlphaAnon`, and that it forgets no asker |
| `ForwarderProofs` | TLAPS proofs about `Forwarder`: who has a buffer, what is in it, in which order it leaves, which names it shows, which pool it returns to |
| `AnonEngineProofs` | TLAPS proofs about `HttpEntry`, `FlowTable` and `AnonEngine` |
| `CryptoPanProofs` | TLAPS proofs about `CryptoPan` |
| `ConfigurationProofs` | TLAPS proofs about `SubnetList` and `Configuration` |

`ClientQueue` is extended by `ClientLru`, `LruList` and `NameTable`, so what is proved
about its operators is about all three. `NameTable` implements `AlphaAnon`, and
`AnonEngine` uses the name table only through what `AlphaAnon` says: who asks is
recorded, and a name that passes has `alpha` askers. `Forwarder` composes the loop, `process_packet` and the shared
tables, with the engine as one step: every module that may be called, with every verdict it may give. `Configuration` establishes what `Forwarder` assumes of its constants
(`LoopIsReady`, which section 4.8 proves, is the code's side of `ForwarderAssumption`).

### 2.1 State and code

* **ClientQueue.** `lru` is the list from `head` to `tail`, each element the `client_hash`
  and `timestamp` of a `struct lru`; `active[s]` is `client_list[s].active`; `lru_ptr` is
  the element's position (`LruList` has the pointer itself). A client is its cell:
  users whose `getHashClient` collides are one client, in the model as in the code.
  Time is in seconds, as the code compares `tv_sec`.
* **LruList.** `prev`, `next`, `stamp` and `client_hash` are the fields of the nodes, `pc`
  the place in `referencePage` or `prune`; `EnqueueNode` is `Enqueue` on nodes, `Relink` and `Restamp` are the two other ways
  through `referencePage`. `ImplementsClientLru` maps the pointers to the
  sequence and the intermediate steps to stutters.
* **NameTable.** `chain[b]` is the bucket's chain of `names`, `number[b]` is
  `bitMap[b].number`, `lock[b]` the mutex, `cur` and `i` are `curr_name` and the loop
  counter. `Arrive` is everything before the mutex (clock, parsing, `rand`), `Answer`
  what the branches of the tail end have in common. `referencePage` is one step: it runs
  under the mutex and `LruList` looks inside it. The condition `33 <= probability <= 66` is
  always true in C, so the third kind of walk in the source never runs.
* **FlowTable, AnonEngine.** A bucket is the sequence of addresses of its entries, the first
  being the static one. `reference_flow` is one step, since it runs under the bucket's
  mutex (`Unlinked` is the chain without the entries it collects); everything after it works on `flusso`, an address, without a lock, one action
  per read, module call or write of `toAnon`. A packet's addresses are its tuple, `addr` says what the external one
  has become. What a TCP packet carries (`Payload`) is chosen when the detector looks at it, and `HttpEntry` and `TlsHello` say
  which name is found in it. A freed
  entry is handed out again by `malloc`; a `NULL` from `malloc` and the collection of the
  last entry of a chain (`flow_mng.c:80`) kill the process (`segv`), after which nothing happens.
  A hash collision of two flows is in the instance.
* **HttpEntry, TlsHello.** A request is a sequence of bytes, a byte a letter, a separator, or the first letter of a
  word that `httpEntry` searches for; `Letter` are the others, as many as one likes. `Find` is `strcasestr`; `HostName`, `UriStop` and `HideReferer` have the loops
  with their limits (64 characters, the packet's length counted from its start, the first `http`). A hello is the types and lengths of
  its extensions, the name, and the byte behind it, since the name is taken for a C string.
* **CryptoPan.** A word is a function from positions to bits. `caches` is `fullcache` and
  `enc_cache`, shared by IPv4 and IPv6; the two address caches are sequences in
  `uthash`'s insertion order. The key is any function from inputs to a bit, which is all
  the code uses of Rijndael.

* **PacketPath, Forwarder.** A buffer is an identity and `mem[b]` its bytes: the addresses with the keys they were
  encrypted under, the MAC addresses' state, whether the payload is there, the name and whether it is readable.
  `rx[p][c]` and `tx[p][c]` are core `c`'s queues of port `p`, `done[p][c]` the buffers the NIC has sent and no
  `rte_eth_tx_burst` has freed yet. `port_cnt`, `dest_cnt` and `k` are the loops' counters, from 1. The queues' and
  the pools' behaviour is DPDK's and modelled from how it is used; `FastFree` is the offload that `init_port` asks
  for. The engine is one step, since `AnonEngine` is about its steps, but it takes every decision that the code takes:
  `ExternalIp` is what `external_ip` may return for a packet that crosses the border (`CallsExternalIp`), and a TCP flow passes by its verdict;
  `Modules` is what follows, by `Managed` (a module is on and is for what the packet carries), `LeftAlone` (its module is off, or
  the ports are SSH's or HTTPS's) and neither (the payload goes). A module may find no name in the packet (`found`), which lets a TCP flow pass without
  anybody having asked. A flow is its pair of addresses as the port shows it (`FlowOf`), so interfaces with one key share
  its decision (`passing`), which `FlowExpires` forgets at any time. `Line` is what left a port's queue and what waits in it: the order of
  the packets is a statement about this one sequence.
* **SubnetList.** A line is what it says, in one of the forms the parser knows, or `bad`. A list is the set of the entries
  below its total: a check asks only whether one of them matches. Words are sequences of bits, an IPv6 address one of bytes of `B` bits;
  masks and prefixes work on words of `W` bits as they do on 32.
* **Configuration.** `ini` is the file as lines, `pos` the lines read, `section` and `prev_name` those of
  `ini_parse_stream`. `config` is `None` before `malloc` and after `free`; `Junk` is what nobody wrote there. An
  access outside an array, the end of `out_port` included, is taken to kill the process (`phase = "dead"`), after which nothing is said.
* **DnsEntry.** `buf` is the message byte by byte, `buff` the code's position and `len` its length, kept apart as in
  the code. One action per record. A letter is one byte, so is what `randChar` leaves: the properties do not tell
  letters apart. Two checks for names of `NAME_DNS` characters (`proto_mng.c:453`, and the bound of the loop in `ReadName`) are left out, since
  no message of the model has such a name. `HiddenSoFar` leaves out the data of authority records that are not NS (`LeftAlone`),
  although `src/README.md:95` speaks of all kinds of names: the code has no case for them.
History variables (`lastAsk`, `asked`, `looked`, `seen`, `later`, `arrived`, `sent`, `known`) record what happened for
the properties and guard nothing.

### 2.2 Slips

Definitions marked *Slip* are not part of any specification. Each is the definition
after it with an error a maintainer could make (a dropped guard, a missing reset, a
strict comparison made inclusive). `PROJECT.json` pairs each property with a slip that violates it
under the same configuration, which shows that the instance is large enough for the property
to notice.

## 3. What TLC checks

| Run | Instance | Shows |
|---|---|---|
| `client_lru` | 4 clients, 2 interfaces, clock to 4, skew 1, symmetric clients | `QueueConsistent`, `StampIsLastAsk`, `SortedWithinSkew`, `NoFreshClientForgotten`, `FreshAboveAlpha`, `ReferenceKeepsItsClient` |
| `lru_list` | 3 clients, 3 nodes, clock to 2 | the pointers stay well formed, no `NULL` is followed, calls return, `ClientLru` is implemented |
| `name_shared` | 2 cores, 3 users in 2 cells, 1 name, 2 interfaces | no fresh asker is forgotten; `AlphaAnon` is implemented, so no answer exceeds the askers |
| `name_buckets` | 2 cores, 3 names in a bucket, failing `malloc` | nobody removes the node another core stands on; nodes are consistent and never empty; `number` covers the chain; the mutex is released |
| `engine` | 2 cores, a TCP and a UDP flow in one bucket, 2 heap entries, timeout 1, skew 1, clock to 3; 6 payloads, 2880 requests | `EntryIsMine`, `ActiveFlowKept`, `PassedEntryStays`, `RequestHidden`, `LinesKept` |
| `crypto_pan` | words of 3 bits, 2 bits of them cached, caches of 2 entries, 2 pads and every Rijndael | `CachedIsComputed`, `PrefixPreserving`, `CacheIsLru` |
| `forwarder` | 2 cores, each with 2 packets for both outputs, which have alphas 2 and 3 and the external-address module on for one; 4 + 3 buffers, bursts of 2, queues of 1 | `EveryBufferInOnePlace`, `AsIfAlone`, `SentInOrder`, `NameBacked`, `NoStandstill` |
| `config` | INI files in every order of a few blocks, with indented lines, and the README's sample; subnet files of up to 3 lines, read for two interfaces | `MappingsServed`, `LoopIsReady`, `SettingsAsRead`, `PairChecked`, `NetsOfOneGroup` |
| `dns` | queries, errors and answers with up to 2 answers, an authority and an additional record; names of 1 and 2 labels, compressed or not; failing `malloc` | `WalkInStep`, `StructureKept`, `HiddenSoFar`, `AddressesObfuscated` |
| `name_stale`, `engine_sticky`, `config_documented` | as small as the trace needs | what the documentation says and the code does not do (section 5) |

`name_shared` and `forwarder` also check their modules' `TypeOK`. Those of `ClientLru`, `AnonEngine` and
`CryptoPan` tell less than the other properties do; they are proved (section 4).

`RequestHidden` and `LinesKept` are about `httpEntry` alone, which has no state between two packets: they say that at any moment a
core may call it, it would do right by every request of `Request`, not only by those of `Payload` that the flows carry.

`SettingsAsRead` is about files with no indented line (`Flush`); what an indented one does is in the model and in the instance.
`MappingsServed` and `NetsOfOneGroup` have premises, too (`PortZeroFirst`, `OnlyFilesOf`, `HasZeroNet`). They exclude what the code
gets wrong: `config_documented` states without them what the documentation says, and is violated. `AddressesObfuscated`
has the premise `NoAlias` for the same reason (section 5).

### 3.1 Bounds, and why they are enough

* *Clients* (4): alpha is 1 and 2, so lists grow beyond every alpha, are pruned at every
  length, and a middle element, the head and the tail are all moved. The list code looks at the
  head, the tail, a node and its neighbours only, so three nodes (`lru_list`) have every shape.
* *Clock and skew*: only differences with `delta`, `T_OUT` and the skew matter. The clock goes at
  least one past `delta + skew`, so everything can become stale and be asked for again.
* *Names in a bucket* (3): the first node is static and the last is never cleaned, so three is the least with a
  removable node. What longer chains do (a walk that removes several nodes and leaves its loop before the end) is
  in the proofs, which hold for any number of names.
* *Cores* (2): one bucket's mutex admits one core at a time, so a second core gives every
  interleaving with a change by somebody else.
* *Flows* (2 in a bucket, on two cores): the least in which a core's garbage collection meets another
  core's flow. RSS keeps all packets of a flow on one core.
* *Heap* (2): the flow entries beside the bucket's own; when they are used up `malloc` fails.
* *Keys*: with three-bit words `Rijndael` is asked about four inputs only, since the last
  bit of an input is always the pad's, so sixteen functions for each pad are all there are.
* *Forwarder*: queues of one slot, so the cores spin on full ones; both cores send by the same ports, and one of these gets copies. The traffic is two
  hellos of a flow inside, one without a name; DNS over TCP from outside, for which there is no module; and a DNS question. So a flow
  passes on each of the three grounds there are: its name, a packet without one, and `external_ip`. With two users and alphas 2 and 3 a name falls
  short of alpha at one interface and has it at the other. No host is exempt in this instance; `MadeForThePort` (section 4.3) has no such limit.
* *Copies* (3): a transmit queue holds back up to `TX_QUEUE_SZ` copies that were sent, until the core sends by that port again, which it
  may be about to do only when it has a copy. So there must be more copies than `TX_QUEUE_SZ` for each core and port that gets
  copies. Here these are two (two cores, a port, queues of one), both cores take packets to be copied, and three
  copies are enough: two held back and one in a core's hands leave the other waiting until the first has transmitted. With
  `CopyBuf = {d1, d2}` TLC finds a standstill: both copies are held back, and no core that has something to send can get
  one. In the program `mempool_elem_nb * 20` copies (655,360 with the README's sample) stand against 4096 slots for
  each core and port, so it takes some 160 such queues to run out.
* *INI files*: up to four mapping lines over four ports (port 0 among them); settings by orders of
  the blocks allocate, group, port, end, with a second group, a repeated entry and an indented block anywhere. The
  effect of a line depends on what came before only through the variables, all of which these orders set and overwrite.
* *Words*: `W = 3`, and IPv6 addresses of two bytes of two bits, so prefixes end inside and at the end of a byte;
  `MAX_SUBNETS = 2` is exceeded by files of three lines.
* *Requests*: three methods; URIs, hosts, referring pages and bodies with each of the searched words where it does not
  belong; fields one short of a limit and one past it. Forty-eight of them are well-formed and within the limits (`Plain`).
* *DNS*: two answers are the least in which a miscount in one is felt in the next (two addresses, or an alias and an address), and in which an answer's name
  points into the data of one already rewritten.

`CHECK_DEADLOCK FALSE` is set where the process may die (`segv`, a core that found its table without memory) and
where the modelled activity ends (`config`, `dns`). Everywhere else TLC checks that the system never stops.

### 3.2 Fairness

Safety runs assume none. `lru_list` assumes weak fairness of the steps of a call that has
begun (a loop in C runs on), never of a call beginning. `name_buckets` assumes weak fairness of the steps
of a core that holds a mutex: cores are DPDK worker threads, each pinned to its processor. Nothing is assumed of the clock, or of
who gets a contended mutex. `NoStandstill` is a safety property: it names the states in which every core would wait for ever.

## 4. What is proved

### 4.1 The client queue

`QueueProofs` and `ClientLruProofs` prove, for any set of clients, any settings, any skew and any
clock bound, these theorems about `ClientLru!Spec`:

| Theorem | States |
|---|---|
| `Invariance` | the inductive invariant `IInv` |
| `TypeCorrect` | `[]TypeOK` |
| `Consistency` | `[]QueueConsistent`: list, flags and counter agree |
| `StampsExact` | `[]StampIsLastAsk`: a listed client's stamp is that of its last reference |
| `Sortedness` | `[]SortedWithinSkew` |
| `FreshKept` | `[]NoFreshClientForgotten` |
| `AboveAlphaFresh` | the action property `FreshAboveAlpha` |
| `ClientKept` | the action property `ReferenceKeepsItsClient` |

The assumptions are the modules' own: `QueueAssumption` (alpha and delta are natural numbers) and
`LruAssumption` (so are the skew and the clock bound).

*The argument.* `SortedWithinSkew` alone is not inductive: a reference puts its stamp before the head, which is fine
only because no stamp in the list is ahead of the clock (`StampsPast`) and the new one is at most `MaxSkew`
behind it. `NoFreshClientForgotten` needs that a stamp in the list *is* the client's last
reference (`StampIsLastAsk`), or pruning could drop the entry of a client that asked again
since. Both need the list, the flags and the counter to agree, since `Touch` decides by the flag whether to move
or to enqueue. `IInv` is the conjunction of these with `TypeOK`. Every action leaves a list that is
the old one, or the old one with an element moved to the front or added there, cut to a prefix; the lemmas
of `QueueProofs` say so of each operator, and `PrefixIInv` is the step they
have in common. `SettledFresh` then gets `FreshAboveAlpha` from the order of the list: `prune` stops at the
last fresh entry, and everything before it is at most `MaxSkew` older.

### 4.2 The name table

`NameTableProofs` proves, for any cores, names, users, buckets, hash functions, settings, skew and clock bound, and
for a `malloc` that may fail or not (`TableAssumption`), about `NameTable!Spec`:

| Theorem | States |
|---|---|
| `TableInvariance` | the inductive invariant `IInv` |
| `TableTypes` | `[]TypeOK` |
| `CursorsLive` | `[]CurrNameIsLive`: a core's position is a node of the chain |
| `NodesStayConsistent` | `[]NodesConsistent`: every node's queue is consistent and not empty |
| `NumberBounds` | `[]NumberCoversChain`: `number` covers the chain |
| `AskersKept` | `[]NoAskerForgotten`, if `malloc` does not fail and the users are finitely many: an answer for a name alone in its bucket counts all fresh users whose cell is theirs alone |

*The argument.* Mutual exclusion carries the rest. `IInv` is `TypeOK` with three parts. `LocksInv`: a core past the lock holds
its bucket's mutex, so two cores past it are in different buckets (lemma `Exclusion`). `CursorsInv`: a core that walks has
its cursor in its chain, or the bucket is unused. `ChainsInv`: every node's queue is consistent and, while the process
lives, not empty; `number` is at least the chain's length, and 0 only for an unused bucket. `NodesConsistent` needs the cursor in the chain, or a core would
write to no node; the cursor needs that no other core removes a node of the bucket, which is the mutex. A step of core `c` changes only the chain of the bucket it
has locked (`HeldStep`), so the cursors of the others stay where they are (`OthersStay`). What it does to the chain is one
of three things (`QueueReplaced`, `NodeRemoved`, `NodeAppended`), and what it does to a queue is in the lemmas of
`QueueProofs` about `ReferencePage` and `Prune`. There is one lemma for each action.

`NoAskerForgotten` is about names in a bucket of their own (with others, the walk may take a name for missing: section 5) and users with a
cell of their own. It rests on `KeptInv`: from its first call on such a name has one node, the bucket's only one, in whose queue
each user that asked within every delta is listed with the stamp of its last call (`Remembers`); a core that has its
answer has this node's count. `prune` removes only what is stale at the time of the call that prunes, which is not after the clock
(`CallsPast`), and no other user stamps the cell. If the `malloc` in `Enqueue` fails, a user that asked is not listed, hence the hypothesis.

### 4.3 The forwarder

`ForwarderProofs` proves, for any cores, ports, settings, buffers, packets and sizes (`ForwarderAssumption`), roles separate or not unless
said otherwise:

| Theorem | States |
|---|---|
| `Typing` | `[]TypeOK` |
| `BuffersOwned` | `[]EveryBufferInOnePlace` |
| `MadeForThePort` | `[]AsIfAlone`: a port gets what its own settings make of the packet as it came |
| `NamesBacked` | `[]NameBacked`: a readable name in a DNS packet has the askers that alpha demands; in a TCP packet, a name of its flow had those that some interface's alpha demands, or something came that lets the flow pass unasked |
| `OrderKept` | `[]SentInOrder`: a port sends an input's packets in their order, each once |
| `BuffersKeepTheirRoles` | if roles are separate or `FAST_FREE` is off, an invariant of where the buffers of each pool are |
| `PoolsKept` | `[]PoolsKeepTheirBuffers`: then each pool gets back its own buffers |

*The argument.* The invariant has five parts, each resting on those before it.

* `OwnInv`: every buffer has one holder (`OneHolder`: a pool, a core's copy, its burst, or one of the queues of a port and a core), and
  no queue or burst lists a buffer twice (`NoRepeats`). That a set of places has one member cannot be pushed through a step
  directly; that there is a holder `h` such that each possible holder has the buffer if and only if it is `h` can: an action names
  the new holder. `InLoop` ties it to the counters: a core has a copy just between `Copy` and `Transmit` on the way to
  a port that is not the last, and of its burst it still owns what its last output has not taken.
* `ContentsInv`: what is in a receive queue or burst is as it came (`Fresh`), what is in a port's ring was made for that port (`Made`).
  It needs ownership: each write of a buffer is to one that nobody has (`Idle`) or that the writing core alone has (`AtHandOnly`).
* `EngineTyped`: only addresses as ports show them are counted, encrypted at most once, and finitely many for a name.
* `NamesInv`: a counted address is a pair of a host and the keys it is under, so alpha askers are no more than their hosts
  times their keys (`CountedBacked`); askers are never taken back (`BackedStays`), so what was backed when the engine looked is backed when
  the packet leaves. A flow that passes does so on one of three grounds, and for each there is a packet that came: a name of the flow that was backed
  (`Granted`), a packet in which a module found no name, or one for which `external_ip` was called (`Unasked`). What has come stays
  so (`CameFrom`), and an interface shows all packets of a flow under the same addresses (`AtPort`), so the ground outlives the step.
* `OrderInv`: the receive queue holds the last packets that came, the burst the last ones fetched, the buffer at hand the `k`-th of them,
  and of an input's packets exactly those are in the line of its output number `d`, in their order, that the loops' counters say were passed to
  it (`Through`). So a step has to be right only about where it takes a packet from and that it goes to the end of a line;
  a NIC that sends moves the border within the line (`HeadGoesOver`). It needs `OwnInv` for the contents of buffers to stay while they wait.

`PoolsKeepTheirBuffers` has an invariant of its own: what comes back is what a core put into a
transmit queue, so it follows a buffer all the way. The receive queues and the bursts hold buffers of the first
pool, `copy_mbuf` one of the second whenever the core is past the allocation, a port's queues hold what the port's role
says; with separate roles `IsLast` decides the role of the destination.

### 4.4 The name table keeps alpha-anonymization's promise

`NameTableProofs` also proves the refinement, `Spec => KeepsPromise`, for any cores, names, buckets, hash functions, settings, skew and clock
bound, `malloc` failing or not. Its one hypothesis is that the users are finitely many (`IsFiniteSet(User)`: they are IPv4 addresses), without which counting them means nothing.

| Theorem | States |
|---|---|
| `ListedClientsAsked` | in addition to `IInv`, every client listed for a name is the cell of a user that asked for it, and a core that found a node found its own name's |
| `PromiseKept` | `Spec => KeepsPromise` |

*The argument.* `Found`, `CreateFirst`, `CreateAppend` and `CreateFails` map to the question and its answer being fixed, `Release` to
the answer being used, all others to stutters, the cleaning of queues and nodes included: `AlphaAnon` forgets nobody. An answer is
`n_entry` of a consistent queue, so the length of a list without repetitions, whose entries map one to one into the cells of the askers: it is at most their number.
The step needs that the node a core stands on is its name's, although other cores may have cleaned the chain before: `CursorsLive` and the mutex.

### 4.5 The flow table and the engine

`AnonEngineProofs` proves, for any tuples, cores, buckets, hash, heap, settings, payloads, requests and clock bound (`FlowAssumption`,
`EngineAssumption`, `RequestAssumption`):

| Theorem | States |
|---|---|
| `Typing` | `[]TypeOK` |
| `EntriesKept` | `[]EntryIsMine`, if `MaxSkew <= T_OUT` |
| `OnlySilenceExpires` | `[]ActiveFlowKept` |
| `PassedEntryKept` | the action property `PassedEntryStays`, if `MaxSkew <= T_OUT`: an entry that lets its flow pass keeps to it (not the flow, which may get another entry: section 5) |
| `FieldsHidden` | `[]RequestHidden`: of a plain request `httpEntry` hides host, URI and referring page, to the last letter, and nothing else |
| `LinesLeft` | `[]LinesKept`: no end of a line of a request's head is overwritten, unless its URI contains "host"; the lines are in the model's order |

`MaxSkew <= T_OUT` says that no packet is handled for longer than `T_OUT`, 300 seconds in the code. It is needed: a core that slept longer
would find its entry collected. `OnlySilenceExpires` does without it.

*The argument.* `Walk` visits positions in an order that skips; all the invariant needs of it is what `reference_flow` leaves
(`Serves`): the chains start with their bucket's own entry, no entry is linked twice (`Apart`), what is unlinked or written over has expired at the
time of the core's packet, and the core has an entry of its flow with that time in it. `ReferenceServes` proves this of each
way the function ends. That the chain without the removed entries is again a chain (`Unlinked`, a counted choice of positions) is the
lemma family about `Rank`, by induction over intervals of numbers through well-founded minima. The invariant then says: a core between the unlock and the end of its packet owns its entry
(`Owns`), stamped with its packet's time; two cores own different ones, since `RSS` gives a flow to one core (`OwnersDiffer`); and another core's
collection, at a time at most `MaxSkew` later, does not find it expired. For `ActiveFlowKept`, `Remembered` keeps for every tuple an entry stamped
no earlier than its last lookup.

`RequestHidden` and `LinesKept` do not depend on the state; they are about what `httpEntry` computes from a request with fields of any length,
made of any letters. There is no recursion in it, since a search is the least of a set of positions. The proof lays out the bytes line by line
(`FirstLine`, `SecondLine`, `ThirdLine`) and follows the function: each word it searches for is found where it belongs (`FindAt`) although the
fields before it are random letters by then (`FindIs`), each loop stops where its field ends and not at its other limits, and what one
mask writes leaves the places of the next searches alone. `LinesKept` does not know which places are found, so it says of any
place a word can be found at that the loop behind it stops at or before the end of that line (`AnyText`, `AnyHidden`). It leaves out URIs with "host" in
them, with which it is false (section 5), and the body.

### 4.6 The encryption

`CryptoPanProofs` proves, for words of any width, any division into cached and computed bits, any pad, any function in
Rijndael's place, any masks and any capacity:

| Theorem | States |
|---|---|
| `Invariance` | the inductive invariant `Inv` |
| `Typing` | `[]TypeOK` |
| `AnswersComputed` | `[]CachedIsComputed`: caching is invisible |
| `PrefixesPreserved` | `[]PrefixPreserving` |
| `LeastRecentlyUsed` | `[]CacheIsLru` |

*The argument.* Each pad in `enc_cache` is zero, which means empty, or the right one; each pair in `fullcache` is one that the key
computes. The cleared pairs both caches start with are not, but the warm-up in `initialize_crypto` pushes them out, so `Init` establishes
the invariant. The entries of the address caches then hold what was computed when they were added. Two
words agree on a prefix just as long as their encryptions do: the pad of a position depends on the bits before it only, and at the first
differing position, which exists by well-foundedness of the naturals, the results differ too. For the eviction order, `InOrder` relates the cache's sequence to
the history `later` of what was asked for after each address.

### 4.7 The list's pointers

`LruListProofs` proves, for any cells, settings and skew, and any finite number of nodes that is enough for the cells (`NodeAssumption`,
`QueueAssumption`; a failing `malloc` is `NameTable`'s subject):

| Theorem | States |
|---|---|
| `ListInvariance` | the inductive invariant `IInv` |
| `ListStaysWellFormed` | `[]ListWellFormed` |
| `ListDereferences` | `[]NoNullDereference` |
| `ListImplementsClientLru` | `Spec => ImplementsClientLru` |

*The argument.* `ListWellFormed` follows `next` from `head`, and what a step does to such a path cannot be said by following it again. `IInv`
says instead that there is a path: a function `p` from `1..n_entry` to nodes, one to one, that begins at `head`, ends at `tail`, has exactly the live
nodes, with `next` and `prev` stepping along it both ways (`Along`). An action names the new path: the old one behind a new node, the
old one with a node moved to its front, or without its last node. `PathIs` shows that following `next` gives `p` back, which is `ListWellFormed`.
With `CellsInv` (a node and its client's cell point at each other) the path is the sequence of `ClientLru` (`WalkedAs`), and each action is
what `ClientQueue` does to it. An iteration of `prune` is a stutter, because while it runs the abstract queue is already the one that `Prune` leaves: `PruneTail`
frees what `Prune` would drop, and `PruneStop` comes at the first entry it would keep. That `tail` is not `NULL` needs `CallInv`: the head carries the
stamp of the call that prunes, so `prune` does not empty the list within `referencePage`, and the walk returns once it has.

### 4.8 The configuration

`ConfigurationProofs` proves, for INI files of any length in any order of their lines, any subnet files, any number of interfaces
and any widths (`ConfigurationAssumption`, `SubnetAssumption`):

| Theorem | States |
|---|---|
| `PortsReady` | `[]LoopIsReady`: each polled port is polled once, has outputs, and all of them are initialised |
| `PortsServed` | `[]MappingsServed`: if port 0 is the first input or none, each mapping is served, in the order of the lines, and nothing else is |
| `SettingsRead` | `[]SettingsAsRead`: in a file without indented lines, a port's settings are those of its group before the port's line |
| `PairsChecked` | `[]PairChecked`: no delta of zero with an alpha written before it |
| `NetsRead` | `[]NetsOfOneGroup`: if all interfaces that encrypt name the same two files, every interface was told whether to, and neither file has a net of the address 0 with a length above 0, then the checks of an address agree with the accepted lines of these files, bit by bit |

*The argument.* The properties read the file at once, the code line by line, so the invariants relate the variables to the lines up to `pos`.

* `HeaderInv`: `section` is that of the last section line, and `prev_name` the name of the last entry behind it, with nothing but continuing lines in between. So the
  reader takes the next line for a continuation if and only if the text says it is one (`NextContinues`), and an entry is in the section in which the
  reader is (`EntryHere`).
* `PortsInv`: the polled entries are different ports with outputs. The entry behind them looks like port 0's to the search, and may have got outputs
  already: the invariant says what it may hold.
* `ServedInv`: a polled entry's outputs are the values of the lines of its port up to `pos`, in order. No mapping was continued, since that would have killed the
  process: the text of a continuing line names no port.
* `SettingsInv`: each group in memory agrees with its lines since the last allocation (`ConfigAgrees`), each port with those of its group
  before the port's line (`OutAgrees`), for any file. A continuing line changes what an *earlier* entry says, so both are about the values as known at a line,
  and the value of an entry does not change once a line behind it is read that does not continue it (`ValuesKept`). A delta is refused if it is not positive
  and alpha is more, so all the invariant says of a delta is that a positive one is kept (`Tells`).
* `NetsInv`: the lists are those of the last interface so far that encrypts, whatever they held before (`ReadAnew`). With one pair of files
  it does not matter which interface that was (`NetsAreThose`).

That the lists agree with the files is about `&`, `/ 8` and `% 8`: a masked address equals a masked network if and only if the bits under the
mask are the same (`MaskedAgree`), and the whole bytes and the bits left over are together exactly the bits of the prefix (`BitsAre`, `CoversBits`).

### 4.9 What is only model-checked

* Liveness (`CallsReturn`, `MutexReleased`): under fairness it is out of the prover's reach.
* `NoStandstill`: it needs a count of the copies that each queue holds back.
* `WalkInStep`, `StructureKept`, `HiddenSoFar` and `AddressesObfuscated` of `DnsEntry`: the module builds and reads messages by recursive operators, over whose
  results the prover has no induction.

## 5. Where code and documentation part

Three runs find counterexamples; `PROJECT.json` quotes the lines.

1. `name_stale`: pruning starts above alpha, so a name passes on the strength of exactly alpha clients that asked
   long ago.
2. `engine_sticky`: the external address of a flow under anonymization reappears in the answers, and from the
   third packet on.
3. `config_documented`: an INI file with two groups, written as `src/README.md` would have it, and a subnet file for each. The state in which
   `main_loop` starts violates each part of `AsDocumented`, and both halves of its last:
   * `AnyMappingServed`: port 0 is found in the first empty entry of `in_interface` if another input came first: it is then never
     polled (`traffic_anon.c:521`).
   * `SettingsAsWritten`: the sample in `src/README.md` indents `external_ip`, `dns`, `tls` and `http`. To `ini.c`
     an indented line continues the entry before it (`INI_ALLOW_MULTILINE`, `ini.h:72`): `parse_ini` is called with `engine` and the
     line's text, `atoi` makes 0 of it, and the engine is off.
   * `NetsOfOwnGroup`, for port 2: the subnet files are settings of a group, but one list serves all interfaces, that of the last
     (`process_packet.c:36`).
   * `NetsOfOwnGroup`, for port 3, whose group's files are the last ones: a line with the address 0 covers every address, whatever its
     prefix length (`ip_utils.c:178`).

Others were met on the way. The models contain them, and no property says the opposite:

* A TCP flow that was let pass may be judged again, against `src/README.md:88`: after a removal `reference_flow` skips an entry without
  comparing it, so a flow may get a second one, undecided, whose `ipv4_anon` nobody wrote and `external_ip` may use (`flow_mng.c:96`).
  `PassedEntryStays` is about the entry.
* So is a UDP flow, at every packet: its branch compares `toAnon` where it means to assign it (`proto_mng.c:174`).
* The data of an alias are counted twice, so the walk over an answer may stop before the alias's address and leave it unencrypted, against
  `src/README.md:95`. An alias of six bytes that is followed by its address is enough (`proto_mng.c:471`, `:514`; `NoAlias` excludes it).
* The cleaning walk may leave its loop too early (its bound shrinks while its counter grows), take a name for missing
  and give it a second, empty node: a name with alpha fresh users is hidden (`proto_mng.c:712`).
* External addresses and host names share one decision per flow, so `external_ip`'s 0 for a flow under anonymization
  makes the TLS module skip it: a server name that one user asked for leaves in clear (`proto_mng.c:112`, `:125`).
* `src/README.md`'s sample of an INI file also has no
  `no_anon_subnet_file`, without which `process_packet_init` reads from a `NULL` stream, and its `[group]` lacks the
  number that `parse_ini` looks for. With `delta` before `alpha` the two are checked against memory nobody wrote (`traffic_anon.c:635`).
* A packet in which a module finds no name lets its TCP flow pass, so a name in a later packet of it stays readable although nobody was counted
  (`http_mng.c:79`, `proto_mng.c:145`; `Unasked` in `NameBacked`).
* A host counts as a user once for each key under which it is shown, when its packets are mirrored to
  interfaces with different keys (`NameBacked` states what is left of alpha), and for answers the server is counted
  (`proto_mng.c:686`).
* `key_mode = rotate` encrypts nothing (`process_packet.c:168`, `:227`), the exemption is not asked for IPv6, and IPv6
  packets never reach the engine nor the payload remover.
* In DNS messages, data of authority records other than NS stay as they are, AAAA and EDNS records blank the
  message, and a message whose question is the root is left untouched.
* `httpEntry` takes the first "get" of a packet for the method: a POST with these letters anywhere, its body included, keeps its URI and
  its Referer. So do requests with another method. A URI with "http" in it stays readable from there on, a Host of more than 64
  characters altogether. With "host" in the URI the rest of the request line is hidden instead of the host, so
  the request is no longer one (`http_mng.c:77`, `:148`, `:168`; `Plain` and `LinesKept` exclude these). Any TCP payload with "get" or
  "post" in it, an encrypted one too, counts as HTTP (`proto_finder.c:117`), and if it has no "host" its flow passes from then on.
* `tlsHelloEntry` takes the server name for a C string: it is found only if a zero byte follows, so not if the next
  extension's type is 256 or more (`tls_mng.c:92`).

## 6. What is not modelled

* TLS hellos and requests that a packet cuts off, where the code reads and writes behind the packet; random letters
  that spell one of the words `httpEntry` searches for.
* In `AnonEngine` a DNS packet has one name, and `isDns` is a choice; `DnsEntry` has the whole message but one core and any
  verdict. An external address with a zero byte (`ext-ip_mng.c:54`) is a name like others.
* Ports that stay down, whose queues never empty; and that all that arrives leaves in the end: `NoStandstill` is the part of this that is
  about waiting cores.
* Checksums (the program does not touch them), IPv4 options, chained buffers.
* IPv6 in the engine: commented out in the source. The static buffer of `retrieve_crypto_ipv6`, which all cores share.
* IP fragments: RSS hashes unfragmented packets (`traffic_anon.h`, `rss_hf`), so a first fragment of a flow may
  be handled on another core than the rest of it. `FlowAssumption` leaves it out.
* The third-party code: Rijndael (an arbitrary function), `uthash.h` (the ordered hash it is used as), `base64.h`, the ldns
  headers, which are most of the repository's lines.
* The start of DPDK, statistics, signal handling: I/O without influence on the packets.

## 7. Plan

Done: all the modules of section 2, and the proofs of section 4, which cover every invariant and action property of the passing runs except `NoStandstill` and those of `DnsEntry`.

What is left:

1. **DnsEntry** with messages described by recursive functions instead of operators, and then its invariants as theorems.
2. **NoStandstill** as a theorem: with more copies than `TX_QUEUE_SZ` for each core and port that gets copies.
3. **AnonEngine** with fragments on another core, and **Ipv6Buffer**: two cores and the static result of
   `retrieve_crypto_ipv6`.

## 8. Running

    tlc -config MCClientLru.cfg MCClientLru.tla     # any run: see PROJECT.json
    tlapm NameTableProofs.tla                       # and the other *Proofs.tla

The longest run is `engine`, about two minutes with two workers; the longest proofs are `ForwarderProofs` and `AnonEngineProofs`, several minutes each.
