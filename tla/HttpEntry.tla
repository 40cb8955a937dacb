----------------------------- MODULE HttpEntry ------------------------------
(***************************************************************************)
(* The HTTP module: httpEntry (src/src/http_mng.c) finds the host, the URI *)
(* and the referring page of a request by searching the packet for words,  *)
(* in any case of letters, and hides them in place.                        *)
(*                                                                         *)
(* A payload is a sequence of bytes. A byte is a letter, a separator,      *)
(* Random (randChar's), or a word that httpEntry searches for: this stands *)
(* for the first letter of the word, whose other letters follow as "l".    *)
(* Positions count from 1, so the code's len is the position it looks at   *)
(* plus the length of the headers in front of the payload, or that less 1. *)
(***************************************************************************)
EXTENDS Integers, Sequences, FiniteSets, FiniteSetsExt

CONSTANTS
    Request,  \* requests as they are sent
    Letter    \* letters, digits and what else a field may hold

CR  == "\r"
LF  == "\n"
SP  == " "
TAB == "\t"
Dot == "."
Slash == "/"
Random == "?"

Width == [GET |-> 3, POST |-> 4, HEAD |-> 4, HTTP |-> 4, HOST |-> 4, REFER |-> 7]

Spelled(w) == <<w>> \o [x \in 1 .. Width[w] - 1 |-> "l"]

(* A request, and the bytes of it. scheme is the Referer's "http" or       *)
(* "https", page what follows "://"; no Referer is sent without a page.    *)
RequestLine(r) ==
    Spelled(r.method) \o <<SP>> \o r.uri \o <<SP>> \o Spelled("HTTP") \o <<Slash, "1", Dot, "1", CR, LF>>

HostLine(r) == Spelled("HOST") \o <<":", SP>> \o r.host \o <<CR, LF>>

RefererLine(r) ==
    IF r.page = << >> THEN << >>
    ELSE Spelled("REFER") \o <<":", SP>> \o r.scheme \o <<":", Slash, Slash>> \o r.page \o <<CR, LF>>

Wire(r) == RequestLine(r) \o HostLine(r) \o RefererLine(r) \o <<CR, LF>> \o r.body

Words  == DOMAIN Width
Byte   == Words \cup Letter \cup {CR, LF, SP, TAB, Dot, Slash, Random, ":", "1", "l", "s"}
Spells(s, words) == \E x \in DOMAIN s : s[x] \in words

(* What the fields of a request may be: they have no blanks and no ends of *)
(* lines, a host has no slash, and the searched words are there as a whole.*)
WellFormed(r) ==
    /\ r.method \in {"GET", "POST", "HEAD"} /\ r.scheme \in {Spelled("HTTP"), Spelled("HTTP") \o <<"s">>}
    /\ {r.uri, r.host, r.page, r.body} \subseteq Seq(Byte)
    /\ \A s \in {r.uri, r.host, r.page} : ~ Spells(s, {CR, LF, SP, TAB})
    /\ ~ Spells(r.host, {Slash})
    /\ \A x \in DOMAIN r.uri : r.uri[x] \in Words => x + Width[r.uri[x]] - 1 <= Len(r.uri)

ASSUME RequestAssumption == \A r \in Request : WellFormed(r)

-----------------------------------------------------------------------------
(* strcasestr: the first place of word w, 0 if there is none left. Random  *)
(* letters do not spell a word.                                            *)
Find(b, w) ==
    LET at == {p \in DOMAIN b : b[p] = w /\ \A x \in p .. p + Width[w] - 1 : x \in DOMAIN b /\ b[x] # Random}
    IN  IF at = {} THEN 0 ELSE Min(at)

(* The first position from p on with a byte of S, or past the payload.     *)
EndOf(b, p, S) == Min({q \in p .. Len(b) : b[q] \in S} \cup {Len(b) + 1})

(* Slip: they stop at the LF.                                              *)
EndOfLine == {LF}

(* The loops over a header stop at a CR or, "*ptr+1!='\n'" being a sum, at *)
(* a TAB.                                                                  *)
EndOfField == {CR, TAB}

Mask(b, from, to, kept) ==
    [x \in DOMAIN b |-> IF from <= x /\ x <= to /\ b[x] \notin kept THEN Random ELSE b[x]]

-----------------------------------------------------------------------------
(* httpEntry.                                                              *)

(* The name: what follows the first "host" and two more bytes, up to 64    *)
(* characters and not to the last byte. << >> if the function gives up.    *)
HostStart(b) == Find(b, "HOST") + 6

HostName(b) ==
    LET end == EndOf(b, HostStart(b), EndOfField)
    IN  IF Find(b, "HOST") # 0 /\ end < Len(b) /\ end - HostStart(b) <= 64
        THEN SubSeq(b, HostStart(b), end - 1) ELSE << >>

HideHost(b) == Mask(b, HostStart(b), HostStart(b) + Len(HostName(b)) - 1, {Dot})

(* Slip: the space after the method is not overcome.                       *)
UriStartEarly(b) == IF Find(b, "GET") # 0 THEN Find(b, "GET") + 3 ELSE Find(b, "POST") + 4

(* The method is the first "get" of the packet, or else the first "post".  *)
UriStart(b) == IF Find(b, "GET") # 0 THEN Find(b, "GET") + 4 ELSE Find(b, "POST") + 5

(* Where the URI ends, and where the loop over it stops: there, at the     *)
(* first "http", or at a count of bytes that starts at the payload.        *)
UriEnd(b) == EndOf(b, UriStart(b), {SP})

UriStop(b) ==
    LET method == IF Find(b, "GET") # 0 THEN 4 ELSE 5
    IN  Min({UriEnd(b), Find(b, "HTTP"), UriStart(b) + Len(b) - method - 1})

HideUri(b) == Mask(b, UriStart(b), UriStop(b) - 1, {Dot, Slash})

(* "referer: http://" is overcome, 65 bytes at most are hidden.            *)
HideReferer(b) ==
    LET start == Find(b, "REFER") + 16
        stop  == Min({EndOf(b, start, EndOfField), start + Len(b) - 17, start + 65})
    IN  IF Find(b, "REFER") = 0 THEN b ELSE Mask(b, start, stop - 1, {Dot, Slash})

(* The packet after httpEntry, ret < k_anon being unknown: the Referer is  *)
(* reached only if the loop over the URI came to its end.                  *)
Hidden(b, unknown) ==
    LET host == HideHost(b)
        uri  == HideUri(host)
    IN  IF ~ unknown \/ HostName(b) = << >> THEN b
        ELSE IF Find(host, "GET") = 0 /\ Find(host, "POST") = 0 THEN host
        ELSE IF UriStop(host) # UriEnd(host) THEN uri
        ELSE HideReferer(uri)

-----------------------------------------------------------------------------
(* What it achieves, for every request there is (AnonEngine has it as      *)
(* properties).                                                            *)

(* A request with the searched words where they belong and nowhere before, *)
(* and fields within the limits.                                           *)
Plain(r) ==
    /\ r.method \in {"GET", "POST"} /\ r.scheme = Spelled("HTTP")
    /\ ~ Spells(r.uri \o r.host \o r.page, Words)
    /\ ~ Spells(r.body, {"GET", "REFER"})
    /\ r.host # << >> /\ Len(r.host) <= 64 /\ Len(r.page) <= 65

(* The bytes that name the page: the URI, the host and the referring page. *)
Fields(r) ==
    LET uri  == Width[r.method] + 2
        host == Len(RequestLine(r)) + Width.HOST + 3
        page == Len(RequestLine(r) \o HostLine(r) \o RefererLine(r)) - 1 - Len(r.page)
    IN  uri .. uri + Len(r.uri) - 1 \cup host .. host + Len(r.host) - 1
            \cup page .. page + Len(r.page) - 1

(* src/README.md:97: the module "hides fields (preserving their structure, *)
(* as defined in RFCs) ... that can lead to a particular web page". Of a   *)
(* plain request all three are hidden to the last letter, each found       *)
(* although others were rewritten before, and nothing else changes.        *)
PlainHidden ==
    \A r \in Request : Plain(r) =>
        LET b      == Wire(r)
            hidden == Hidden(b, TRUE)
        IN  \A x \in DOMAIN b :
                hidden[x] = IF x \in Fields(r) /\ b[x] \notin {Dot, Slash} THEN Random ELSE b[x]

(* Whatever a request looks like, the lines of its head stay lines: the    *)
(* function stops before the end of every field it hides, also of those it *)
(* takes by mistake. (Unless "host" is part of the URI: what follows it,   *)
(* the space and "HTTP" included, is hidden as the host, and nothing ends  *)
(* the URI. And in a body an LF 16 bytes behind a "referer" is hidden.)    *)
LinesStay ==
    \A r \in Request : ~ Spells(r.uri, {"HOST"}) =>
        LET b      == Wire(r)
            hidden == Hidden(b, TRUE)
        IN  \A x \in 1 .. Len(b) - Len(r.body) : b[x] \in {CR, LF} => hidden[x] = b[x]

=============================================================================
