------------------------------ MODULE DnsEntry ------------------------------
(***************************************************************************)
(* The DNS module: dnsEntry (src/src/proto_mng.c) walks the question and   *)
(* the records of one message and hides in place what it passes, ReadName  *)
(* (src/src/dns_mng.c) hides one name, following its compression pointers. *)
(*                                                                         *)
(* Offsets count from the DNS header, as buffstart does. The message is    *)
(* kept byte by byte because the walk finds its way by the very bytes it   *)
(* rewrites, but a byte is a length, a pointer, or stands for what it is:  *)
(* Letter (of a name), Random (randChar's), Addr (of an IPv4 address) or   *)
(* Crypto (of an encrypted one). The table's verdict on the name is any.   *)
(***************************************************************************)
EXTENDS Integers, FiniteSets, Sequences, SequencesExt

CONSTANTS
    Message,  \* the messages that may come
    MayFail   \* whether malloc may fail

Letter == 97
Random == 65
Addr   == 10
Crypto == 11

(* The Ethernet, IPv4 and UDP headers, and the DNS header.                 *)
OFFSET == 42
HEADER == 12

T_A     == 1
T_NS    == 2
T_CNAME == 5

(* A record as it is sent, and a message. (Data of less than 256 bytes.)   *)
Wire(r) == r.name \o <<0, r.type, 0, 1, 0, 0, 0, 0, 0, Len(r.data)>> \o r.data

Records(m) == m.answers \o m.auth \o m.addit

Sent(m) ==
    [x \in 1 .. HEADER |-> 0] \o m.question \o <<0, 1, 0, 1>>
        \o FlattenSeq([x \in DOMAIN Records(m) |-> Wire(Records(m)[x])])

Buffer(m) == LET s == Sent(m) IN [x \in 0 .. Len(s) - 1 |-> s[x + 1]]

VARIABLES
    msg,   \* the message as it was received
    buf,   \* its bytes
    pc,    \* the loop dnsEntry is in
    i,     \* the record, from 1
    buff,  \* the position in the packet
    len,   \* what dnsEntry believes to be the position
    known  \* history: the verdict, or "none"

vars == <<msg, buf, pc, i, buff, len, known>>

Init ==
    /\ msg \in Message
    /\ buf = Buffer(msg) /\ pc = "question" /\ i = 1 /\ buff = HEADER /\ len = OFFSET
    /\ known = "none"

pkt_len == OFFSET + Cardinality(DOMAIN buf)

-----------------------------------------------------------------------------
(* ReadName.                                                               *)

(* What is behind the packet is not defined. The walk does not get there   *)
(* (WalkInStep); a slip may, and finds a zero.                             *)
Byte(b, p) == IF p \in DOMAIN b THEN b[p] ELSE 0

(* Slip: a length byte is taken for the first letter of its label.         *)
ReadByteShort(w) ==
    LET c == Byte(w.buf, w.reader)
        counted == IF w.jumped THEN w.count ELSE w.count + 1
    IN  IF c >= 192
        THEN [w EXCEPT !.reader = 256 * c + Byte(w.buf, w.reader + 1) - 49152, !.jumped = TRUE]
        ELSE IF w.left = 0
        THEN [w EXCEPT !.reader = @ + 1, !.left = c - 1, !.count = counted]
        ELSE [w EXCEPT !.reader = @ + 1, !.left = @ - 1, !.count = counted, !.buf[w.reader] = Random]

(* Slip: length bytes are hidden like letters.                             *)
ReadByteFlat(w) ==
    LET c == Byte(w.buf, w.reader)
        counted == IF w.jumped THEN w.count ELSE w.count + 1
    IN  IF c >= 192
        THEN [w EXCEPT !.reader = 256 * c + Byte(w.buf, w.reader + 1) - 49152, !.jumped = TRUE]
        ELSE [w EXCEPT !.reader = @ + 1, !.count = counted, !.buf[w.reader] = Random]

(* One byte: a pointer is followed, a length starts a label, a letter is   *)
(* hidden. left: the letters of the label still to come, the code's cnt -  *)
(* first. count stands still after the first jump.                         *)
ReadByte(w) ==
    LET c == Byte(w.buf, w.reader)
        counted == IF w.jumped THEN w.count ELSE w.count + 1
    IN  IF c >= 192
        THEN [w EXCEPT !.reader = 256 * c + Byte(w.buf, w.reader + 1) - 49152, !.jumped = TRUE]
        ELSE IF w.left = 0
        THEN [w EXCEPT !.reader = @ + 1, !.left = c, !.count = counted]
        ELSE [w EXCEPT !.reader = @ + 1, !.left = @ - 1, !.count = counted, !.buf[w.reader] = Random]

RECURSIVE ReadOn(_)
ReadOn(w) == IF Byte(w.buf, w.reader) = 0 THEN w ELSE ReadOn(ReadByte(w))

(* The name at p hidden, and the bytes it takes there (stop).              *)
ReadName(b, p) ==
    LET w == ReadOn([buf |-> b, reader |-> p, left |-> 0, jumped |-> FALSE, count |-> 1])
    IN  [buf |-> w.buf, stop |-> IF w.jumped THEN w.count + 1 ELSE w.count]

-----------------------------------------------------------------------------
(* dnsEntry.                                                               *)

Return == pc' = "return" /\ UNCHANGED <<i, buff, len>>

(* remove_payload from offset p on.                                        *)
RemovePayload(p) == buf' = [x \in DOMAIN buf |-> IF x >= p THEN 0 ELSE buf[x]]

(* An answer with an error or without records is blanked, DNS header and   *)
(* all.                                                                    *)
NoAnswers ==
    /\ pc = "question" /\ msg.qr = 1
    /\ msg.rcode # 0 \/ msg.answers = << >>
    /\ RemovePayload(0) /\ Return
    /\ UNCHANGED <<msg, known>>

Parsed == pc = "question" /\ (msg.qr = 1 => msg.rcode = 0 /\ msg.answers # << >>)

(* The offset of the zero byte that ends the question's name, or 0: a      *)
(* length is not less than rest, what is left of the packet if lengths     *)
(* took no room. A byte from 128 on, of a pointer for instance, is a       *)
(* negative char, and no size_t is greater.                                *)
RECURSIVE EndOfQuestion(_, _)
EndOfQuestion(p, rest) ==
    LET length == Byte(buf, p)
    IN  IF length >= 128 \/ length >= rest THEN 0
        ELSE IF length = 0 THEN p
        ELSE EndOfQuestion(p + 1 + length, rest - length)

End == EndOfQuestion(HEADER, pkt_len - (OFFSET + HEADER))

(* The name is malformed or empty: the message stays as it is.             *)
NoName ==
    /\ Parsed /\ End \in {0, HEADER}
    /\ Return
    /\ UNCHANGED <<msg, buf, known>>

NameKnown ==
    /\ Parsed /\ End > HEADER
    /\ known' = "yes"
    /\ Return
    /\ UNCHANGED <<msg, buf>>

(* strlen(name): the dots stand for all lengths but the first.             *)
NameLength == End - HEADER - 1

(* ret < k_anon: the question is hidden by a loop of its own, which does   *)
(* to a name without pointers what ReadName does; an answer's records      *)
(* follow.                                                                 *)
NameUnknown ==
    /\ Parsed /\ End > HEADER
    /\ known' = "no"
    /\ buf' = ReadName(buf, HEADER).buf
    /\ IF msg.qr = 0 THEN Return
       ELSE /\ pc' = "answers"
            /\ len' = len + HEADER + NameLength + 4
            /\ buff' = End + 1 + 4
            /\ UNCHANGED i
    /\ UNCHANGED msg

-----------------------------------------------------------------------------
(* The records.                                                            *)

(* Slip: r_data has the twelve bytes that sizeof gives it.                 *)
RDataPadded(b, p) ==
    [type |-> 256 * Byte(b, p) + Byte(b, p + 1),
     data |-> p + 12, data_len |-> 256 * Byte(b, p + 8) + Byte(b, p + 9)]

(* The r_data at p: type, and where its data are.                          *)
RData(b, p) ==
    [type |-> 256 * Byte(b, p) + Byte(b, p + 1),
     data |-> p + 10, data_len |-> 256 * Byte(b, p + 8) + Byte(b, p + 9)]

Encrypted(b, r) == [x \in DOMAIN b |-> IF x \in r.data .. r.data + r.data_len - 1 THEN Crypto ELSE b[x]]

InRecord(loop, list) == pc = loop /\ i <= Len(list) /\ UNCHANGED <<msg, known>>

(* The record is done with, the bytes are b, the next record is at p.      *)
NextRecord(b, p, l) ==
    /\ buf' = b /\ buff' = p /\ len' = l /\ i' = i + 1
    /\ UNCHANGED pc

(* dnsEntry returns with the bytes b.                                      *)
Cut(b) == buf' = b /\ Return

(* malloc fails in the first or the second ReadName for a record.          *)
NoMemory ==
    /\ MayFail
    /\ \/ InRecord("answers", msg.answers)
       \/ InRecord("authorities", msg.auth)
       \/ InRecord("additional", msg.addit)
    /\ LET n == ReadName(buf, buff)
           r == RData(n.buf, buff + n.stop)
       IN  Cut(buf) \/ (r.type \in (CASE pc = "answers" -> {T_CNAME}
                                      [] pc = "authorities" -> {T_NS}
                                      [] OTHER -> {}) /\ Cut(n.buf))

(* Slip: the data are counted twice, whatever the type.                    *)
CountedTwice(r) == 10 + 2 * r.data_len

(* What an answer adds to len: its name is left out.                       *)
Counted(r) == 10 + r.data_len

(* The data of a CNAME are counted once more.                              *)
Answer ==
    /\ InRecord("answers", msg.answers)
    /\ LET n  == ReadName(buf, buff)
           r  == RData(n.buf, buff + n.stop)
           l  == len + Counted(r)
           target == ReadName(n.buf, r.data).buf
       IN  \/ l >= pkt_len /\ Cut(n.buf)
           \/ /\ l < pkt_len /\ r.type = T_A
              /\ NextRecord(Encrypted(n.buf, r), r.data + r.data_len, l)
           \/ /\ l < pkt_len /\ r.type = T_CNAME
              /\ IF l + r.data_len >= pkt_len THEN Cut(target)
                 ELSE NextRecord(target, r.data + r.data_len, l + r.data_len)
           \/ /\ l < pkt_len /\ r.type \notin {T_A, T_CNAME}
              /\ RemovePayload(HEADER) /\ Return

Authority ==
    /\ InRecord("authorities", msg.auth)
    /\ LET n  == ReadName(buf, buff)
           r  == RData(n.buf, buff + n.stop)
           l  == len + n.stop + 10
           host == ReadName(n.buf, r.data)
       IN  \/ l >= pkt_len /\ Cut(n.buf)
           \/ /\ l < pkt_len /\ r.type = T_NS
              /\ IF l + host.stop >= pkt_len THEN Cut(host.buf)
                 ELSE NextRecord(host.buf, r.data + host.stop, l + host.stop)
           \/ /\ l < pkt_len /\ r.type # T_NS
              /\ IF l + r.data_len >= pkt_len THEN Cut(n.buf)
                 ELSE NextRecord(n.buf, r.data + r.data_len, l + r.data_len)

Additional ==
    /\ InRecord("additional", msg.addit)
    /\ LET n  == ReadName(buf, buff)
           r  == RData(n.buf, buff + n.stop)
           l  == len + n.stop + 10
       IN  \/ l >= pkt_len /\ Cut(n.buf)
           \/ /\ l < pkt_len /\ r.type = T_A
              /\ IF l + r.data_len >= pkt_len THEN Cut(n.buf)
                 ELSE NextRecord(Encrypted(n.buf, r), r.data + r.data_len, l + r.data_len)
           \/ /\ l < pkt_len /\ r.type # T_A
              /\ RemovePayload(HEADER) /\ Return

(* The end of a loop.                                                      *)
NextLoop ==
    /\ \/ pc = "answers" /\ i > Len(msg.answers) /\ pc' = "authorities"
       \/ pc = "authorities" /\ i > Len(msg.auth) /\ pc' = "additional"
       \/ pc = "additional" /\ i > Len(msg.addit) /\ pc' = "return"
    /\ i' = 1
    /\ UNCHANGED <<msg, buf, buff, len, known>>

Next ==
    NoAnswers \/ NoName \/ NameKnown \/ NameUnknown
    \/ NoMemory \/ Answer \/ Authority \/ Additional \/ NextLoop

Spec == Init /\ [][Next]_vars

-----------------------------------------------------------------------------
(* Properties, stated on the message as it was received.                   *)

(* Where the record with number x of the message starts, and its data.     *)
RecordStart(x) ==
    HEADER + Len(msg.question) + 4
        + Len(FlattenSeq([y \in 1 .. x - 1 |-> Wire(Records(msg)[y])]))
DataStart(x) == RecordStart(x) + Len(Records(msg)[x].name) + 10

Before(loop) ==
    CASE loop = "answers" -> 0
      [] loop = "authorities" -> Len(msg.answers)
      [] OTHER -> Len(msg.answers) + Len(msg.auth)

(* Bytes that are zeros from p on and as received before.                  *)
BlankFrom(p) == \A x \in DOMAIN buf : buf[x] = (IF x < p THEN Buffer(msg)[x] ELSE 0)

(* The walk meets every record where it is, although the names it goes by  *)
(* were rewritten on the way, some of them several times through pointers, *)
(* and len has lost count.                                                 *)
WalkInStep ==
    pc \in {"answers", "authorities", "additional"} => buff = RecordStart(Before(pc) + i)

(* dnsEntry keeps the structure: whatever the names look like, it rewrites *)
(* letters and addresses only, never a length, a pointer or a type, unless *)
(* it blanks the message; and if the name is known it rewrites nothing.    *)
Rewritten(old, new) == new = old \/ (old = Letter /\ new = Random) \/ (old = Addr /\ new = Crypto)

StructureKept ==
    \/ \A x \in DOMAIN buf : Rewritten(Buffer(msg)[x], buf[x]) /\ (known = "yes" => buf[x] = Buffer(msg)[x])
    \/ pc = "return" /\ known = "none" /\ BlankFrom(0)
    \/ pc = "return" /\ known = "no" /\ \A x \in DOMAIN buf : x >= HEADER => buf[x] = 0

(* The data of authority records that are not NS, names in them included,  *)
(* stay as they are.                                                       *)
LeftAlone ==
    UNION {DataStart(x) .. RecordStart(x + 1) - 1 :
            x \in {y \in DOMAIN Records(msg) : /\ Len(msg.answers) < y /\ y <= Len(msg.answers) + Len(msg.auth)
                                               /\ Records(msg)[y].type # T_NS}}

(* What the walk has passed is hidden: no letter of a name and no address, *)
(* wherever it was cut short, by a failing malloc or by len.               *)
HiddenSoFar ==
    known = "no" =>
        \A x \in DOMAIN buf :
            buf[x] \in {Letter, Addr} => x >= buff \/ (msg.qr = 1 /\ x \in LeftAlone)

(* Its answers have no alias, which len counts twice.                      *)
NoAlias == \A x \in DOMAIN msg.answers : msg.answers[x].type # T_CNAME

(* src/README.md:95: the DNS module, if triggered, "obfuscates IP address  *)
(* in a prefix-preserving manner". In a message without an alias no        *)
(* address of an answer or an additional record leaves as it came, unless  *)
(* malloc fails: len, which has lost count, never cuts the walk too early. *)
AddressesObfuscated ==
    [][(Answer \/ Authority \/ Additional \/ NextLoop) /\ pc' = "return" /\ NoAlias =>
          \A x \in DOMAIN buf \ LeftAlone : buf'[x] # Addr]_vars

=============================================================================
