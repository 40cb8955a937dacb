------------------------- MODULE AnonEngineProofs -------------------------
(***************************************************************************)
(* The flow table under the cores that use it, for any tuples, hash, number*)
(* of cores, buckets and entries: as long as no packet is handled for      *)
(* longer than T_OUT, a core's entry stays its own after the unlock, a     *)
(* flow expires by silence only, and no decision to let a flow pass is     *)
(* taken back.                                                             *)
(*                                                                         *)
(* And, for any set of well-formed requests with fields of any length,     *)
(* what httpEntry does to a request. This comes first: the bytes of the    *)
(* request are laid out line by line (FirstLine, SecondLine, ThirdLine);   *)
(* then every search of the function is followed: where the word that it   *)
(* looks for is found for the first time although other fields were        *)
(* rewritten before, and where the loop behind it stops.                   *)
(***************************************************************************)
EXTENDS AnonEngine, SequenceTheorems, FiniteSetTheorems, WellFoundedInduction, TLAPS

-----------------------------------------------------------------------------
(* Bytes, and where they are.                                              *)

Text == Seq(Byte)

(* Words are spelled with as many letters as they are wide.                *)
LEMMA SpelledFacts ==
    ASSUME NEW w \in Words
    PROVE  /\ Width[w] \in 3 .. 7 /\ Spelled(w) \in Text /\ Len(Spelled(w)) = Width[w]
           /\ \A x \in 1 .. Width[w] : Spelled(w)[x] = IF x = 1 THEN w ELSE "l"
<1>1. w \in Byte /\ Width[w] \in 3 .. 7
  BY DEF Words, Width, Byte
<1>2. PICK t : t = [x \in 1 .. Width[w] - 1 |-> "l"]
  OBVIOUS
<1>3. t \in Text /\ Len(t) = Width[w] - 1 /\ \A x \in 1 .. Width[w] - 1 : t[x] = "l"
  <2>1. t \in [1 .. Width[w] - 1 -> Byte] /\ Width[w] - 1 \in Nat
    BY <1>1, <1>2 DEF Byte
  <2>2. t \in Text
    BY <2>1, SeqDef DEF Text
  <2> QED BY <1>2, <2>1, <2>2, LenProperties DEF Text
<1>4. <<w>> \in Text /\ Len(<<w>>) = 1 /\ <<w>>[1] = w
  BY <1>1 DEF Text
<1>5. Spelled(w) = <<w>> \o t
  BY <1>2 DEF Spelled
<1>6. /\ <<w>> \o t \in Text /\ Len(<<w>> \o t) = Width[w]
      /\ \A x \in 1 .. Width[w] : (<<w>> \o t)[x] = IF x <= 1 THEN <<w>>[x] ELSE t[x - 1]
  <2>1. Len(<<w>>) + Len(t) = Width[w]
    BY <1>1, <1>3, <1>4
  <2> QED BY <1>3, <1>4, <2>1, ConcatProperties DEF Text
<1> QED BY <1>1, <1>3, <1>4, <1>5, <1>6

(* The words of the lines.                                                 *)
LEMMA WordFacts ==
    /\ "HTTP" \in Words /\ Width["HTTP"] = 4 /\ "HOST" \in Words /\ Width["HOST"] = 4
    /\ "REFER" \in Words /\ Width["REFER"] = 7
    /\ "GET" \in Words /\ Width["GET"] = 3 /\ "POST" \in Words /\ Width["POST"] = 4
    /\ "HEAD" \in Words /\ Width["HEAD"] = 4
BY DEF Words, Width

(* How they are spelled.                                                   *)
LEMMA HttpSpelled ==
    /\ Spelled("HTTP") \in Text /\ Len(Spelled("HTTP")) = 4 /\ Spelled("HTTP")[1] = "HTTP"
    /\ \A x \in 2 .. 4 : Spelled("HTTP")[x] = "l"
<1>1. /\ Spelled("HTTP") \in Text /\ Len(Spelled("HTTP")) = 4
      /\ \A x \in 1 .. 4 : Spelled("HTTP")[x] = IF x = 1 THEN "HTTP" ELSE "l"
  <2>1. PICK w \in Words : w = "HTTP"
    BY WordFacts
  <2>2. /\ Spelled(w) \in Text /\ Len(Spelled(w)) = Width[w]
        /\ \A x \in 1 .. Width[w] : Spelled(w)[x] = IF x = 1 THEN w ELSE "l"
    BY SpelledFacts
  <2>3. Width[w] = 4
    BY <2>1, WordFacts
  <2> QED BY <2>1, <2>2, <2>3
<1>2. Spelled("HTTP")[1] = "HTTP"
  BY <1>1
<1>3. \A x \in 2 .. 4 : Spelled("HTTP")[x] = "l"
  BY <1>1
<1> QED BY <1>1, <1>2, <1>3

(* Short texts.                                                            *)
LEMMA Short ==
    /\ <<SP>> \in Text /\ Len(<<SP>>) = 1 /\ <<SP>>[1] = SP
    /\ <<":", SP>> \in Text /\ Len(<<":", SP>>) = 2
    /\ <<CR, LF>> \in Text /\ Len(<<CR, LF>>) = 2
    /\ <<":", Slash, Slash>> \in Text /\ Len(<<":", Slash, Slash>>) = 3
    /\ <<Slash, "1", Dot, "1", CR, LF>> \in Text /\ Len(<<Slash, "1", Dot, "1", CR, LF>>) = 6
    /\ << >> \in Text /\ Len(<< >>) = 0
BY EmptySeq DEF Text, Byte

(* The text t is in b from position p + 1 on.                              *)
Behind(b, p, t) ==
    p \in Nat /\ p + Len(t) <= Len(b) /\ \A x \in p + 1 .. p + Len(t) : b[x] = t[x - p]

(* A text that something is put behind.                                    *)
LEMMA Joined ==
    ASSUME NEW s \in Text, NEW t \in Text
    PROVE  /\ s \o t \in Text /\ Len(s \o t) = Len(s) + Len(t) /\ Len(s) \in Nat /\ Len(t) \in Nat
           /\ Behind(s \o t, 0, s) /\ Behind(s \o t, Len(s), t)
<1>1. PICK b : b = s \o t
  OBVIOUS
<1>2. /\ b \in Text /\ Len(b) = Len(s) + Len(t) /\ Len(s) \in Nat /\ Len(t) \in Nat
      /\ \A x \in 1 .. Len(s) + Len(t) : b[x] = IF x <= Len(s) THEN s[x] ELSE t[x - Len(s)]
  BY <1>1, ConcatProperties, LenProperties DEF Text
<1>3. Behind(b, 0, s) /\ Behind(b, Len(s), t)
  BY <1>2 DEF Behind
<1> QED BY <1>1, <1>2, <1>3

(* What is in a part of a text is in the text.                             *)
LEMMA Within ==
    ASSUME NEW b \in Text, NEW s \in Text, NEW t \in Text, NEW p \in Nat, NEW q \in Nat,
           Behind(b, p, s), Behind(s, q, t)
    PROVE  Behind(b, p + q, t)
<1>1. Len(b) \in Nat /\ Len(s) \in Nat /\ Len(t) \in Nat
  BY LenProperties DEF Text
<1>2. p + q + Len(t) <= Len(b)
  BY <1>1 DEF Behind
<1>3. ASSUME NEW x \in p + q + 1 .. p + q + Len(t) PROVE b[x] = t[x - (p + q)]
  <2>1. PICK y \in q + 1 .. q + Len(t) : x = p + y
    <3>1. x - p \in q + 1 .. q + Len(t) /\ x = p + (x - p)
      BY <1>1
    <3> QED BY <3>1
  <2>2. y \in 1 .. Len(s) /\ x \in p + 1 .. p + Len(s) /\ x - p = y /\ x - (p + q) = y - q
    BY <1>1, <2>1 DEF Behind
  <2>3. b[x] = s[y] /\ s[y] = t[y - q]
    BY <2>1, <2>2 DEF Behind
  <2> QED BY <2>2, <2>3
<1> QED BY <1>2, <1>3 DEF Behind

(* The text b is s and t: what is in s is in b.                            *)
Cat(b, s, t) ==
    /\ b \in Text /\ Len(b) = Len(s) + Len(t) /\ Behind(b, 0, s) /\ Behind(b, Len(s), t)
    /\ \A q \in Nat : \A u \in Text : Behind(s, q, u) => Behind(b, q, u)
    /\ \A q \in Nat : \A u \in Text : Behind(t, q, u) => Behind(b, Len(s) + q, u)

(* Two texts put together.                                                 *)
LEMMA Put == \A s, t \in Text : \E b : b = s \o t /\ Cat(b, s, t)
<1>1. SUFFICES ASSUME NEW s \in Text, NEW t \in Text PROVE Cat(s \o t, s, t)
  BY Zenon
<1>2. PICK b : b = s \o t
  OBVIOUS
<1>3. /\ b \in Text /\ Len(b) = Len(s) + Len(t) /\ Behind(b, 0, s) /\ Behind(b, Len(s), t)
      /\ Len(s) \in Nat
  BY <1>2, Joined
<1>4. ASSUME NEW q \in Nat, NEW u \in Text, Behind(s, q, u) PROVE Behind(b, q, u)
  <2>1. Behind(b, 0 + q, u)
    BY <1>3, <1>4, Within
  <2> QED BY <2>1
<1>5. ASSUME NEW q \in Nat, NEW u \in Text, Behind(t, q, u) PROVE Behind(b, Len(s) + q, u)
  BY <1>3, <1>5, Within
<1> QED BY <1>2, <1>3, <1>4, <1>5 DEF Cat

-----------------------------------------------------------------------------
(* A request's bytes.                                                      *)

FieldsTyped(r) ==
    /\ r.method \in {"GET", "POST", "HEAD"} /\ r.scheme \in Text /\ Len(r.scheme) \in 4 .. 5
    /\ r.scheme # << >> /\ r.scheme[1] = "HTTP"
    /\ \A x \in 2 .. Len(r.scheme) : r.scheme[x] \in {"l", "s"}
    /\ r.uri \in Text /\ r.host \in Text /\ r.page \in Text /\ r.body \in Text
    /\ Len(r.uri) \in Nat /\ Len(r.host) \in Nat /\ Len(r.page) \in Nat /\ Len(r.body) \in Nat

(* The fields of a well-formed request are texts.                          *)
LEMMA Typed ==
    ASSUME NEW r, WellFormed(r)
    PROVE  FieldsTyped(r) /\ r.method \in Words /\ Width[r.method] \in 3 .. 4
<1>1. r.uri \in Text /\ r.host \in Text /\ r.page \in Text /\ r.body \in Text
  BY DEF WellFormed, Text
<1>2. r.method \in {"GET", "POST", "HEAD"} /\ r.scheme \in {Spelled("HTTP"), Spelled("HTTP") \o <<"s">>}
  BY DEF WellFormed
<1>3. Len(r.uri) \in Nat /\ Len(r.host) \in Nat /\ Len(r.page) \in Nat /\ Len(r.body) \in Nat
  BY <1>1, LenProperties DEF Text
<1>4. r.method \in Words /\ Width[r.method] \in 3 .. 4
  BY <1>2, WordFacts
<1>5. PICK h : h = Spelled("HTTP")
  OBVIOUS
<1>6. h \in Text /\ Len(h) = 4 /\ h[1] = "HTTP" /\ \A x \in 2 .. 4 : h[x] = "l"
  BY <1>5, HttpSpelled
<1>7. CASE r.scheme = h
  <2>1. r.scheme # << >>
    BY <1>6, <1>7, EmptySeq, SMTT(60) DEF Text
  <2>2. \A x \in 2 .. Len(r.scheme) : r.scheme[x] \in {"l", "s"}
    BY <1>6, <1>7
  <2> QED BY <1>1, <1>2, <1>3, <1>4, <1>6, <1>7, <2>1, <2>2 DEF FieldsTyped
<1>8. CASE r.scheme = h \o <<"s">>
  <2>1. <<"s">> \in Text /\ Len(<<"s">>) = 1
    BY DEF Text, Byte
  <2>2. /\ h \o <<"s">> \in Text /\ Len(h \o <<"s">>) = 5
        /\ Behind(h \o <<"s">>, 0, h) /\ Behind(h \o <<"s">>, 4, <<"s">>)
    <3>1. PICK t : t = <<"s">>
      OBVIOUS
    <3>2. t \in Text /\ Len(t) = 1
      BY <2>1, <3>1
    <3>3. PICK b : b = h \o t /\ Cat(b, h, t)
      BY <1>6, <3>2, Put, Zenon
    <3> QED BY <1>6, <3>1, <3>2, <3>3 DEF Cat
  <2>3. r.scheme \in Text /\ Len(r.scheme) = 5 /\ r.scheme[1] = "HTTP" /\ r.scheme # << >>
    BY <1>6, <1>8, <2>2, EmptySeq DEF Behind, Text
  <2>4. ASSUME NEW x \in 2 .. 5 PROVE r.scheme[x] \in {"l", "s"}
    BY <1>6, <1>8, <2>1, <2>2 DEF Behind
  <2> QED BY <1>1, <1>2, <1>3, <1>4, <2>3, <2>4 DEF FieldsTyped
<1> QED BY <1>2, <1>4, <1>5, <1>7, <1>8

(* The request line.                                                       *)
LEMMA RequestLineFacts ==
    ASSUME NEW r, WellFormed(r)
    PROVE  LET w == Width[r.method]
               u == Len(r.uri)
               s == RequestLine(r)
           IN  /\ s \in Text /\ Len(s) = w + u + 12
               /\ Behind(s, 0, Spelled(r.method)) /\ Behind(s, w, <<SP>>)
               /\ Behind(s, w + 1, r.uri) /\ Behind(s, w + u + 1, <<SP>>)
               /\ Behind(s, w + u + 2, Spelled("HTTP"))
               /\ Behind(s, w + u + 6, <<Slash, "1", Dot, "1", CR, LF>>)
<1>1. PICK w \in Nat, u \in Nat : w = Width[r.method] /\ u = Len(r.uri)
  <2>1. Width[r.method] \in 3 .. 4 /\ Len(r.uri) \in Nat
    BY Typed DEF FieldsTyped
  <2>2. Width[r.method] \in Nat
    BY <2>1
  <2> QED BY <2>1, <2>2
<1>2. PICK m : m = Spelled(r.method)
  OBVIOUS
<1>3. PICK h : h = Spelled("HTTP")
  OBVIOUS
<1>4. PICK v : v = <<Slash, "1", Dot, "1", CR, LF>>
  OBVIOUS
<1>5. PICK sp : sp = <<SP>>
  OBVIOUS
<1>6. PICK ur : ur = r.uri
  OBVIOUS
<1>7. /\ m \in Text /\ Len(m) = w /\ h \in Text /\ Len(h) = 4 /\ v \in Text /\ Len(v) = 6
      /\ sp \in Text /\ Len(sp) = 1 /\ ur \in Text /\ Len(ur) = u
  <2>1. m \in Text /\ Len(m) = w
    BY <1>1, <1>2, Typed, SpelledFacts
  <2> QED BY <1>1, <1>3, <1>4, <1>5, <1>6, <2>1, Typed, HttpSpelled, Short DEF FieldsTyped
<1>8. PICK s1 : s1 = m \o sp /\ Cat(s1, m, sp)
  BY <1>7, Put, Zenon
<1>9. s1 \in Text /\ Len(s1) = w + 1 /\ Behind(s1, 0, m) /\ Behind(s1, w, sp)
  BY <1>7, <1>8 DEF Cat
<1>10. PICK s2 : s2 = s1 \o ur /\ Cat(s2, s1, ur)
  BY <1>7, <1>9, Put, Zenon
<1>11. s2 \in Text /\ Len(s2) = w + u + 1 /\ Behind(s2, 0, m) /\ Behind(s2, w, sp) /\ Behind(s2, w + 1, ur)
  BY <1>7, <1>9, <1>10 DEF Cat
<1>12. PICK s3 : s3 = s2 \o sp /\ Cat(s3, s2, sp)
  BY <1>7, <1>11, Put, Zenon
<1>13. /\ s3 \in Text /\ Len(s3) = w + u + 2 /\ Behind(s3, 0, m) /\ Behind(s3, w, sp)
       /\ Behind(s3, w + 1, ur) /\ Behind(s3, w + u + 1, sp)
  BY <1>7, <1>11, <1>12 DEF Cat
<1>14. PICK s4 : s4 = s3 \o h /\ Cat(s4, s3, h)
  BY <1>7, <1>13, Put, Zenon
<1>15. /\ s4 \in Text /\ Len(s4) = w + u + 6 /\ Behind(s4, 0, m) /\ Behind(s4, w, sp)
       /\ Behind(s4, w + 1, ur) /\ Behind(s4, w + u + 1, sp) /\ Behind(s4, w + u + 2, h)
  BY <1>7, <1>13, <1>14 DEF Cat
<1>16. PICK s5 : s5 = s4 \o v /\ Cat(s5, s4, v)
  BY <1>7, <1>15, Put, Zenon
<1>17. /\ s5 \in Text /\ Len(s5) = w + u + 12 /\ Behind(s5, 0, m) /\ Behind(s5, w, sp)
       /\ Behind(s5, w + 1, ur) /\ Behind(s5, w + u + 1, sp) /\ Behind(s5, w + u + 2, h)
       /\ Behind(s5, w + u + 6, v)
  BY <1>7, <1>15, <1>16 DEF Cat
<1>18. RequestLine(r) = s5
  BY ONLY <1>2, <1>6, <1>3, <1>4, <1>5, <1>8, <1>10, <1>12, <1>14, <1>16, Zenon DEF RequestLine
<1> QED BY <1>1, <1>2, <1>3, <1>4, <1>5, <1>6, <1>17, <1>18

(* The Host header.                                                        *)
LEMMA HostLineFacts ==
    ASSUME NEW r, WellFormed(r)
    PROVE  LET h == Len(r.host)
               s == HostLine(r)
           IN  /\ s \in Text /\ Len(s) = h + 8
               /\ Behind(s, 0, Spelled("HOST")) /\ Behind(s, 4, <<":", SP>>)
               /\ Behind(s, 6, r.host) /\ Behind(s, h + 6, <<CR, LF>>)
<1>1. PICK h \in Nat : h = Len(r.host)
  BY Typed DEF FieldsTyped
<1>2. PICK m : m = Spelled("HOST")
  OBVIOUS
<1>3. PICK v : v = <<CR, LF>>
  OBVIOUS
<1>4. PICK sp : sp = <<":", SP>>
  OBVIOUS
<1>5. m \in Text /\ Len(m) = 4 /\ v \in Text /\ Len(v) = 2 /\ sp \in Text /\ Len(sp) = 2 /\ r.host \in Text
  <2>1. m \in Text /\ Len(m) = 4
    BY <1>2, WordFacts, SpelledFacts
  <2> QED BY <1>3, <1>4, <2>1, Typed, Short DEF FieldsTyped
<1>6. PICK s1 : s1 = m \o sp /\ Cat(s1, m, sp)
  BY <1>5, Put, Zenon
<1>7. s1 \in Text /\ Len(s1) = 6 /\ Behind(s1, 0, m) /\ Behind(s1, 4, sp)
  BY <1>5, <1>6 DEF Cat
<1>8. PICK s2 : s2 = s1 \o r.host /\ Cat(s2, s1, r.host)
  BY <1>5, <1>7, Put, Zenon
<1>9. s2 \in Text /\ Len(s2) = h + 6 /\ Behind(s2, 0, m) /\ Behind(s2, 4, sp) /\ Behind(s2, 6, r.host)
  BY <1>1, <1>5, <1>7, <1>8 DEF Cat
<1>10. PICK s3 : s3 = s2 \o v /\ Cat(s3, s2, v)
  BY <1>5, <1>9, Put, Zenon
<1>11. /\ s3 \in Text /\ Len(s3) = h + 8 /\ Behind(s3, 0, m) /\ Behind(s3, 4, sp) /\ Behind(s3, 6, r.host)
       /\ Behind(s3, h + 6, v)
  BY <1>5, <1>9, <1>10 DEF Cat
<1>12. HostLine(r) = s3
  BY ONLY <1>2, <1>3, <1>4, <1>6, <1>8, <1>10, Zenon DEF HostLine
<1> QED BY <1>1, <1>2, <1>3, <1>4, <1>11, <1>12

(* The Referer header.                                                     *)
LEMMA RefererLineFacts ==
    ASSUME NEW r, WellFormed(r), r.page # << >>
    PROVE  LET g == Len(r.page)
               c == Len(r.scheme)
               s == RefererLine(r)
           IN  /\ s \in Text /\ Len(s) = c + g + 14
               /\ Behind(s, 0, Spelled("REFER")) /\ Behind(s, 7, <<":", SP>>)
               /\ Behind(s, 9, r.scheme) /\ Behind(s, c + 9, <<":", Slash, Slash>>)
               /\ Behind(s, c + 12, r.page) /\ Behind(s, c + g + 12, <<CR, LF>>)
<1>1. PICK g \in Nat, c \in Nat : g = Len(r.page) /\ c = Len(r.scheme)
  BY Typed DEF FieldsTyped
<1>2. PICK m : m = Spelled("REFER")
  OBVIOUS
<1>3. PICK v : v = <<CR, LF>>
  OBVIOUS
<1>4. PICK sp : sp = <<":", SP>>
  OBVIOUS
<1>5. PICK sl : sl = <<":", Slash, Slash>>
  OBVIOUS
<1>6. PICK pg, sc : pg = r.page /\ sc = r.scheme
  OBVIOUS
<1>7. /\ m \in Text /\ Len(m) = 7 /\ v \in Text /\ Len(v) = 2 /\ sp \in Text /\ Len(sp) = 2
      /\ sl \in Text /\ Len(sl) = 3 /\ pg \in Text /\ Len(pg) = g /\ sc \in Text /\ Len(sc) = c
  <2>1. m \in Text /\ Len(m) = 7
    BY <1>2, WordFacts, SpelledFacts
  <2> QED BY <1>1, <1>3, <1>4, <1>5, <1>6, <2>1, Typed, Short DEF FieldsTyped
<1>8. PICK s1 : s1 = m \o sp /\ Cat(s1, m, sp)
  BY <1>7, Put, Zenon
<1>9. s1 \in Text /\ Len(s1) = 9 /\ Behind(s1, 0, m) /\ Behind(s1, 7, sp)
  BY <1>7, <1>8 DEF Cat
<1>10. PICK s2 : s2 = s1 \o sc /\ Cat(s2, s1, sc)
  BY <1>7, <1>9, Put, Zenon
<1>11. s2 \in Text /\ Len(s2) = c + 9 /\ Behind(s2, 0, m) /\ Behind(s2, 7, sp) /\ Behind(s2, 9, sc)
  BY <1>7, <1>9, <1>10 DEF Cat
<1>12. PICK s3 : s3 = s2 \o sl /\ Cat(s3, s2, sl)
  BY <1>7, <1>11, Put, Zenon
<1>13. /\ s3 \in Text /\ Len(s3) = c + 12 /\ Behind(s3, 0, m) /\ Behind(s3, 7, sp) /\ Behind(s3, 9, sc)
       /\ Behind(s3, c + 9, sl)
  BY <1>7, <1>11, <1>12 DEF Cat
<1>14. PICK s4 : s4 = s3 \o pg /\ Cat(s4, s3, pg)
  BY <1>7, <1>13, Put, Zenon
<1>15. /\ s4 \in Text /\ Len(s4) = c + g + 12 /\ Behind(s4, 0, m) /\ Behind(s4, 7, sp) /\ Behind(s4, 9, sc)
       /\ Behind(s4, c + 9, sl) /\ Behind(s4, c + 12, pg)
  BY <1>7, <1>13, <1>14 DEF Cat
<1>16. PICK s5 : s5 = s4 \o v /\ Cat(s5, s4, v)
  BY <1>7, <1>15, Put, Zenon
<1>17. /\ s5 \in Text /\ Len(s5) = c + g + 14 /\ Behind(s5, 0, m) /\ Behind(s5, 7, sp) /\ Behind(s5, 9, sc)
       /\ Behind(s5, c + 9, sl) /\ Behind(s5, c + 12, pg) /\ Behind(s5, c + g + 12, v)
  BY <1>7, <1>15, <1>16 DEF Cat
<1>18. RefererLine(r) = s5
  BY ONLY r.page # << >>, <1>2, <1>3, <1>4, <1>5, <1>6, <1>8, <1>10, <1>12, <1>14, <1>16, Zenon
     DEF RefererLine
<1> QED BY <1>1, <1>2, <1>3, <1>4, <1>5, <1>6, <1>17, <1>18

(* Where the lines end.                                                    *)
End1(r) == Width[r.method] + Len(r.uri) + 12
End2(r) == End1(r) + Len(r.host) + 8
End3(r) == End2(r) + IF r.page = << >> THEN 0 ELSE Len(r.scheme) + Len(r.page) + 14

(* They are numbers.                                                       *)
LEMMA EndsTyped ==
    ASSUME NEW r, WellFormed(r)
    PROVE  /\ Width[r.method] \in 3 .. 4 /\ End1(r) \in Nat /\ End2(r) \in Nat /\ End3(r) \in Nat
           /\ Len(r.uri) \in Nat /\ Len(r.host) \in Nat /\ Len(r.page) \in Nat /\ Len(r.scheme) \in 4 .. 5
           /\ Len(r.body) \in Nat
           /\ End1(r) = Width[r.method] + Len(r.uri) + 12 /\ End2(r) = End1(r) + Len(r.host) + 8
           /\ r.page = << >> => End3(r) = End2(r)
           /\ r.page # << >> => End3(r) = End2(r) + Len(r.scheme) + Len(r.page) + 14
<1>1. /\ Len(r.uri) \in Nat /\ Len(r.host) \in Nat /\ Len(r.page) \in Nat /\ Len(r.scheme) \in 4 .. 5
      /\ Len(r.body) \in Nat /\ Width[r.method] \in 3 .. 4
  BY Typed DEF FieldsTyped
<1>2. PICK w \in Nat, c \in Nat, u \in Nat, h \in Nat, g \in Nat :
         w = Width[r.method] /\ c = Len(r.scheme) /\ u = Len(r.uri) /\ h = Len(r.host) /\ g = Len(r.page)
  <2>1. Width[r.method] \in Nat /\ Len(r.scheme) \in Nat
    BY <1>1
  <2> QED BY <1>1, <2>1, Zenon
<1>3. End1(r) = w + u + 12
  BY <1>2, Zenon DEF End1
<1>4. End2(r) = End1(r) + h + 8
  BY <1>2, Zenon DEF End2
<1>5. PICK n1 \in Nat, n2 \in Nat : n1 = End1(r) /\ n2 = End2(r)
  BY <1>3, <1>4
<1>6. r.page = << >> => End3(r) = n2 + 0
  BY <1>5, Zenon DEF End3
<1>7. r.page # << >> => End3(r) = n2 + (c + g + 14)
  BY <1>2, <1>5, Zenon DEF End3
<1>8. r.page = << >> => End3(r) = n2
  BY <1>6
<1>9. r.page # << >> => End3(r) = n2 + c + g + 14
  BY <1>7
<1>10. End3(r) \in Nat
  BY <1>8, <1>9
<1> QED BY <1>1, <1>2, <1>3, <1>4, <1>5, <1>8, <1>9, <1>10, Zenon

(* The lines of a request, one behind the other.                           *)
LEMMA LinesFacts ==
    ASSUME NEW r, WellFormed(r)
    PROVE  LET b == Wire(r)
           IN  /\ b \in Text /\ Len(b) = End3(r) + 2 + Len(r.body)
               /\ Behind(b, 0, RequestLine(r)) /\ Behind(b, End1(r), HostLine(r))
               /\ Behind(b, End2(r), RefererLine(r)) /\ RefererLine(r) \in Text
               /\ Len(RequestLine(r) \o HostLine(r) \o RefererLine(r)) = End3(r)
               /\ Behind(b, End3(r), <<CR, LF>>) /\ Behind(b, End3(r) + 2, r.body)
<1>1. PICK n1 \in Nat, n2 \in Nat, n3 \in Nat : n1 = End1(r) /\ n2 = End2(r) /\ n3 = End3(r)
  BY EndsTyped
<1>2. PICK a, h, f, v, d : a = RequestLine(r) /\ h = HostLine(r) /\ f = RefererLine(r) /\ v = <<CR, LF>> /\ d = r.body
  OBVIOUS
<1>3. a \in Text /\ Len(a) = n1
  BY <1>1, <1>2, RequestLineFacts, EndsTyped
<1>4. h \in Text /\ n1 + Len(h) = n2 /\ Len(h) \in Nat
  <2>1. PICK l \in Nat : l = Len(r.host) /\ n2 = n1 + l + 8
    BY <1>1, EndsTyped
  <2>2. h \in Text /\ Len(h) = l + 8
    BY <1>2, <2>1, HostLineFacts
  <2> QED BY <2>1, <2>2
<1>5. f \in Text /\ n2 + Len(f) = n3 /\ Len(f) \in Nat
  <2>1. CASE r.page = << >>
    BY <1>1, <1>2, <2>1, Short, EndsTyped DEF RefererLine
  <2>2. CASE r.page # << >>
    <3>1. PICK l \in Nat, c \in Nat : l = Len(r.page) /\ c = Len(r.scheme)
      <4>1. Len(r.page) \in Nat /\ Len(r.scheme) \in 4 .. 5
        BY EndsTyped, Zenon
      <4>2. Len(r.scheme) \in Nat
        BY <4>1
      <4> QED BY <4>1, <4>2, Zenon
    <3>2. f \in Text /\ Len(f) = c + l + 14
      BY <1>2, <2>2, <3>1, RefererLineFacts
    <3>3. n3 = n2 + c + l + 14
      BY <1>1, <2>2, <3>1, EndsTyped
    <3> QED BY <3>2, <3>3
  <2> QED BY <2>1, <2>2
<1>6. v \in Text /\ Len(v) = 2 /\ d \in Text /\ Len(d) \in Nat
  BY <1>2, Short, Typed DEF FieldsTyped
<1>7. PICK s1 : s1 = a \o h /\ Cat(s1, a, h)
  BY <1>3, <1>4, Put, Zenon
<1>8. s1 \in Text /\ Len(s1) = n2 /\ Behind(s1, 0, a) /\ Behind(s1, n1, h)
  BY <1>3, <1>4, <1>7 DEF Cat
<1>9. PICK s2 : s2 = s1 \o f /\ Cat(s2, s1, f)
  BY <1>5, <1>8, Put, Zenon
<1>10. s2 \in Text /\ Len(s2) = n3 /\ Behind(s2, 0, a) /\ Behind(s2, n1, h) /\ Behind(s2, n2, f)
  BY <1>3, <1>4, <1>5, <1>8, <1>9 DEF Cat
<1>11. PICK s3 : s3 = s2 \o v /\ Cat(s3, s2, v)
  BY <1>6, <1>10, Put, Zenon
<1>12. /\ s3 \in Text /\ Len(s3) = n3 + 2 /\ Behind(s3, 0, a) /\ Behind(s3, n1, h) /\ Behind(s3, n2, f)
       /\ Behind(s3, n3, v)
  BY <1>3, <1>4, <1>5, <1>6, <1>10, <1>11 DEF Cat
<1>13. PICK s4 : s4 = s3 \o d /\ Cat(s4, s3, d)
  BY <1>6, <1>12, Put, Zenon
<1>14. /\ s4 \in Text /\ Len(s4) = n3 + 2 + Len(d) /\ Behind(s4, 0, a) /\ Behind(s4, n1, h) /\ Behind(s4, n2, f)
       /\ Behind(s4, n3, v) /\ Behind(s4, n3 + 2, d)
  BY <1>3, <1>4, <1>5, <1>6, <1>12, <1>13 DEF Cat
<1>15. Wire(r) = s4 /\ RequestLine(r) \o HostLine(r) \o RefererLine(r) = s2
  BY ONLY <1>2, <1>7, <1>9, <1>11, <1>13, Zenon DEF Wire
<1> QED BY <1>1, <1>2, <1>5, <1>10, <1>14, <1>15

-----------------------------------------------------------------------------
(* Searching and masking.                                                  *)

(* The least number of a set.                                              *)
LEMMA LeastIs ==
    ASSUME NEW S, NEW m \in S, S \subseteq Int, \A y \in S : m <= y
    PROVE  Min(S) = m
<1>1. Min(S) \in S /\ \A y \in S : Min(S) <= y
  <2>1. \E x \in S : \A y \in S : x <= y
    OBVIOUS
  <2> QED BY <2>1, Zenon DEF Min
<1>2. PICK v \in S : v = Min(S)
  BY <1>1
<1>3. v <= m /\ m <= v /\ v \in Int /\ m \in Int
  BY <1>1, <1>2
<1>4. v = m
  BY <1>3
<1> QED BY <1>2, <1>4

(* Numbers have a least one.                                               *)
LEMMA LeastOf ==
    ASSUME NEW S \in SUBSET Nat, S # {}
    PROVE  Min(S) \in S /\ \A y \in S : Min(S) <= y
<1>1. PICK m \in S : \A q \in S : ~ (<<q, m>> \in OpToRel(<, Nat))
  BY NatLessThanWellFounded, WFMin, Zenon
<1>2. ASSUME NEW q \in S PROVE m <= q
  <2> SUFFICES ASSUME q < m PROVE FALSE
    OBVIOUS
  <2>1. <<q, m>> \in Nat \X Nat /\ <<q, m>>[1] < <<q, m>>[2]
    OBVIOUS
  <2>2. <<q, m>> \in {ss \in Nat \X Nat : ss[1] < ss[2]}
    BY <2>1
  <2> QED BY <1>1, <2>2 DEF OpToRel
<1>3. S \subseteq Int /\ m \in S
  OBVIOUS
<1>4. Min(S) = m
  BY <1>2, <1>3, LeastIs, Zenon
<1> QED BY <1>2, <1>4

(* A text is a function.                                                   *)
LEMMA TextIs ==
    ASSUME NEW b \in Text
    PROVE  Len(b) \in Nat /\ DOMAIN b = 1 .. Len(b) /\ \A x \in 1 .. Len(b) : b[x] \in Byte
BY LenProperties, ElementOfSeq DEF Text

(* A word is found where it is for the first time.                         *)
LEMMA FindAt ==
    ASSUME NEW b \in Text, NEW w \in Words, NEW p \in Nat, 1 <= p, p + Width[w] - 1 <= Len(b),
           b[p] = w, \A x \in 1 .. p - 1 : b[x] # w, \A x \in p + 1 .. p + Width[w] - 1 : b[x] # Random
    PROVE  Find(b, w) = p
<1>1. Len(b) \in Nat /\ DOMAIN b = 1 .. Len(b)
  BY TextIs
<1>2. Width[w] \in 3 .. 7 /\ w # Random
  BY DEF Words, Width, Random
<1> DEFINE Places == {q \in DOMAIN b : b[q] = w /\ \A x \in q .. q + Width[w] - 1 : x \in DOMAIN b /\ b[x] # Random}
<1>3. p \in Places
  <2>1. p \in DOMAIN b
    BY <1>1, <1>2
  <2>2. ASSUME NEW x \in p .. p + Width[w] - 1 PROVE x \in DOMAIN b /\ b[x] # Random
    BY <1>1, <1>2, SMTT(60)
  <2> QED BY <2>1, <2>2
<1>4. Places \subseteq Int /\ \A q \in Places : p <= q
  BY <1>1
<1>5. Min(Places) = p
  BY <1>3, <1>4, LeastIs
<1> QED BY <1>3, <1>5 DEF Find

(* A word that is not there is not found.                                  *)
LEMMA FindNone ==
    ASSUME NEW b \in Text, NEW w, \A x \in 1 .. Len(b) : b[x] # w
    PROVE  Find(b, w) = 0
<1>1. DOMAIN b = 1 .. Len(b)
  BY TextIs
<1>2. {p \in DOMAIN b : b[p] = w /\ \A x \in p .. p + Width[w] - 1 : x \in DOMAIN b /\ b[x] # Random} = {}
  BY <1>1
<1> QED BY <1>2 DEF Find

(* What is found is the word, and it is not behind another one.            *)
LEMMA FoundIs ==
    ASSUME NEW b \in Text, NEW w \in Words, Find(b, w) # 0
    PROVE  /\ Find(b, w) \in 1 .. Len(b) /\ b[Find(b, w)] = w
           /\ \A p \in 1 .. Len(b) :
                 b[p] = w /\ (\A x \in p .. p + Width[w] - 1 : x \in 1 .. Len(b) /\ b[x] # Random)
                     => Find(b, w) <= p
<1>1. DOMAIN b = 1 .. Len(b) /\ Len(b) \in Nat
  BY TextIs
<1> DEFINE Places == {q \in DOMAIN b : b[q] = w /\ \A x \in q .. q + Width[w] - 1 : x \in DOMAIN b /\ b[x] # Random}
<1>2. Places # {} /\ Find(b, w) = Min(Places)
  BY DEF Find
<1>3. Places \in SUBSET Nat
  BY <1>1
<1>4. Min(Places) \in Places /\ \A q \in Places : Min(Places) <= q
  BY <1>2, <1>3, LeastOf
<1>5. ASSUME NEW p \in 1 .. Len(b), b[p] = w,
             \A x \in p .. p + Width[w] - 1 : x \in 1 .. Len(b) /\ b[x] # Random
      PROVE  p \in Places
  BY <1>1, <1>5
<1> QED BY <1>1, <1>2, <1>4, <1>5

(* The end of a field is where the first byte is that ends it.             *)
LEMMA EndAt ==
    ASSUME NEW b \in Text, NEW S, NEW p \in Nat, NEW q \in Nat, p <= q, q <= Len(b), b[q] \in S,
           \A x \in p .. q - 1 : b[x] \notin S
    PROVE  EndOf(b, p, S) = q
<1>1. Len(b) \in Nat
  BY TextIs
<1> DEFINE Ends == {x \in p .. Len(b) : b[x] \in S} \cup {Len(b) + 1}
<1>2. q \in Ends /\ Ends \subseteq Int /\ \A x \in Ends : q <= x
  BY <1>1
<1>3. Min(Ends) = q
  BY <1>2, LeastIs
<1> QED BY <1>3 DEF EndOf

(* A text with some bytes hidden is as long, and the others are the same.  *)
LEMMA MaskIs ==
    ASSUME NEW b \in Text, NEW from, NEW to, NEW kept
    PROVE  LET m == Mask(b, from, to, kept)
           IN  /\ m \in Text /\ Len(m) = Len(b)
               /\ \A x \in 1 .. Len(b) :
                     m[x] = IF from <= x /\ x <= to /\ b[x] \notin kept THEN Random ELSE b[x]
<1>1. Len(b) \in Nat /\ DOMAIN b = 1 .. Len(b) /\ \A x \in 1 .. Len(b) : b[x] \in Byte
  BY TextIs
<1>2. Random \in Byte
  BY DEF Byte
<1>3. PICK m : m = Mask(b, from, to, kept)
  OBVIOUS
<1>4. m = [x \in 1 .. Len(b) |-> IF from <= x /\ x <= to /\ b[x] \notin kept THEN Random ELSE b[x]]
  BY <1>1, <1>3 DEF Mask
<1>5. m \in [1 .. Len(b) -> Byte]
  BY <1>1, <1>2, <1>4
<1>6. m \in Text
  BY <1>1, <1>5, SeqDef DEF Text
<1>7. Len(m) = Len(b)
  BY <1>1, <1>5, <1>6, LenProperties DEF Text
<1>8. \A x \in 1 .. Len(b) : m[x] = IF from <= x /\ x <= to /\ b[x] \notin kept THEN Random ELSE b[x]
  BY <1>4
<1> QED BY <1>3, <1>6, <1>7, <1>8

-----------------------------------------------------------------------------
(* The bytes of a request, line by line. w, u, h, c and g are the lengths  *)
(* of its method, URI, host, scheme and page, a line is behind position p, *)
(* and a field has none of the bytes V.                                    *)

Blanks == {CR, LF, SP, TAB}

FirstLine(b, w, u, V) ==
    /\ b[1] \in {"GET", "POST", "HEAD"} /\ (b[1] = "GET" => w = 3) /\ (b[1] # "GET" => w = 4)
    /\ \A x \in 2 .. w : b[x] = "l"
    /\ b[w + 1] = SP
    /\ \A x \in w + 2 .. w + u + 1 :
          b[x] \notin Blanks /\ b[x] \notin V /\ (b[x] = "REFER" => x + 6 <= w + u + 1)
    /\ b[w + u + 2] = SP /\ b[w + u + 3] = "HTTP"
    /\ \A x \in w + u + 4 .. w + u + 6 : b[x] = "l"
    /\ \A x \in w + u + 7 .. w + u + 10 : b[x] \in {Slash, "1", Dot}
    /\ b[w + u + 11] = CR /\ b[w + u + 12] = LF

SecondLine(b, p, h, V) ==
    /\ b[p + 1] = "HOST" /\ \A x \in p + 2 .. p + 4 : b[x] = "l"
    /\ b[p + 5] = ":" /\ b[p + 6] = SP
    /\ \A x \in p + 7 .. p + h + 6 : b[x] \notin Blanks /\ b[x] \notin V /\ b[x] # Slash
    /\ b[p + h + 7] = CR /\ b[p + h + 8] = LF

ThirdLine(b, p, c, g, V) ==
    /\ b[p + 1] = "REFER" /\ \A x \in p + 2 .. p + 7 : b[x] = "l"
    /\ b[p + 8] = ":" /\ b[p + 9] = SP
    /\ b[p + 10] = "HTTP" /\ \A x \in p + 11 .. p + c + 9 : b[x] \in {"l", "s"}
    /\ b[p + c + 10] = ":" /\ b[p + c + 11] = Slash /\ b[p + c + 12] = Slash
    /\ \A x \in p + c + 13 .. p + c + g + 12 : b[x] \notin Blanks /\ b[x] \notin V
    /\ b[p + c + g + 13] = CR /\ b[p + c + g + 14] = LF

(* Whatever a text has is somewhere in what has the text.                  *)
LEMMA Carried ==
    ASSUME NEW b \in Text, NEW p, NEW t \in Text, Behind(b, p, t)
    PROVE  /\ p \in Nat /\ Len(t) \in Nat /\ p + Len(t) <= Len(b)
           /\ \A y \in 1 .. Len(t) : b[p + y] = t[y]
<1>1. Len(t) \in Nat /\ p \in Nat /\ p + Len(t) <= Len(b)
  BY TextIs DEF Behind
<1>2. ASSUME NEW y \in 1 .. Len(t) PROVE b[p + y] = t[y]
  <2>1. p + y \in p + 1 .. p + Len(t) /\ (p + y) - p = y
    BY <1>1
  <2> QED BY <2>1 DEF Behind
<1> QED BY <1>1, <1>2

(* The n bytes of t are in b behind position p.                            *)
Has(b, p, t, n) == \A y \in 1 .. n : b[p + y] = t[y]

(* They are if t is.                                                       *)
LEMMA CarriedAll ==
    \A b, t, p, n : b \in Text /\ t \in Text /\ Behind(b, p, t) /\ Len(t) = n => Has(b, p, t, n)
<1>1. ASSUME NEW b \in Text, NEW t \in Text, NEW p, Behind(b, p, t) PROVE Has(b, p, t, Len(t))
  BY <1>1, Carried DEF Has
<1> QED BY <1>1, Zenon

(* The request line.                                                       *)
LEMMA FirstLineFacts ==
    ASSUME NEW r, WellFormed(r), NEW V, ~ Spells(r.uri, V)
    PROVE  /\ FirstLine(Wire(r), Width[r.method], Len(r.uri), V) /\ Wire(r)[1] = r.method
           /\ \A x \in 1 .. Len(r.uri) : Wire(r)[Width[r.method] + 1 + x] = r.uri[x]
<1>1. PICK w \in Nat, u \in Nat : w = Width[r.method] /\ u = Len(r.uri)
  <2>1. Width[r.method] \in 3 .. 4 /\ Len(r.uri) \in Nat
    BY EndsTyped, Zenon
  <2>2. Width[r.method] \in Nat
    BY <2>1
  <2> QED BY <2>1, <2>2, Zenon
<1>2. PICK b, s, m, sp, ur, h, v :
         /\ b = Wire(r) /\ s = RequestLine(r) /\ m = Spelled(r.method) /\ sp = <<SP>> /\ ur = r.uri
         /\ h = Spelled("HTTP") /\ v = <<Slash, "1", Dot, "1", CR, LF>>
  OBVIOUS
<1>3. b \in Text /\ Behind(b, 0, s)
  BY <1>2, LinesFacts
<1>4. /\ s \in Text /\ Behind(s, 0, m) /\ Behind(s, w, sp) /\ Behind(s, w + 1, ur)
      /\ Behind(s, w + u + 1, sp) /\ Behind(s, w + u + 2, h) /\ Behind(s, w + u + 6, v)
  BY <1>1, <1>2, RequestLineFacts
<1>5. /\ m \in Text /\ Len(m) = w /\ m[1] = r.method /\ \A x \in 2 .. w : m[x] = "l"
  <2>1. r.method \in Words /\ w \in 3 .. 4
    BY <1>1, Typed
  <2>2. m \in Text /\ Len(m) = w /\ \A x \in 1 .. w : m[x] = IF x = 1 THEN r.method ELSE "l"
    BY <1>1, <1>2, <2>1, SpelledFacts, Zenon
  <2> QED BY <2>1, <2>2
<1>6. sp \in Text /\ Len(sp) = 1 /\ sp[1] = SP
  BY <1>2, Short
<1>7. /\ ur \in Text /\ Len(ur) = u
      /\ \A x \in 1 .. u : /\ ur[x] \notin Blanks /\ ur[x] \notin V
                           /\ ur[x] = "REFER" => x + 6 <= u
  <2>1. ur \in Text /\ Len(ur) = u /\ DOMAIN ur = 1 .. u
    BY <1>1, <1>2, Typed, TextIs DEF FieldsTyped
  <2>2. \A x \in 1 .. u : ur[x] \notin Blanks /\ ur[x] \notin V
    BY <1>2, <2>1, Zenon DEF WellFormed, Spells, Blanks
  <2>3. \A x \in 1 .. u : ur[x] = "REFER" => x + Width["REFER"] - 1 <= u
    BY <1>1, <1>2, <2>1, WordFacts, Zenon DEF WellFormed
  <2>4. \A x \in 1 .. u : ur[x] = "REFER" => x + 6 <= u
    BY <1>1, <2>3, WordFacts
  <2> QED BY <2>1, <2>2, <2>4
<1>8. h \in Text /\ Len(h) = 4 /\ h[1] = "HTTP" /\ \A x \in 2 .. 4 : h[x] = "l"
  BY <1>2, HttpSpelled
<1>9. /\ v \in Text /\ Len(v) = 6 /\ v[5] = CR /\ v[6] = LF
      /\ \A x \in 1 .. 4 : v[x] \in {Slash, "1", Dot}
  BY <1>2, Short
<1>10. /\ Behind(b, 0, m) /\ Behind(b, w, sp) /\ Behind(b, w + 1, ur)
       /\ Behind(b, w + u + 1, sp) /\ Behind(b, w + u + 2, h) /\ Behind(b, w + u + 6, v)
  <2>1. \A q \in Nat, t \in Text : Behind(s, q, t) => Behind(b, 0 + q, t)
    BY <1>3, <1>4, Within
  <2>2. \A q \in Nat, t \in Text : Behind(s, q, t) => Behind(b, q, t)
    BY <2>1
  <2> QED BY <1>4, <1>5, <1>6, <1>7, <1>8, <1>9, <2>2
<1>11. /\ b[1] = m[1] /\ \A x \in 2 .. w : b[x] = m[x]
  <2>1. \A y \in 1 .. w : b[0 + y] = m[y]
    BY <1>3, <1>5, <1>10, Carried
  <2>2. w \in 3 .. 4
    BY <1>1, Typed
  <2> QED BY <2>1, <2>2
<1>12. b[w + 1] = SP /\ b[w + u + 2] = SP
  <2>0. Has(b, w, sp, 1) /\ Has(b, w + u + 1, sp, 1)
    BY <1>3, <1>6, <1>10, CarriedAll, Zenon
  <2>1. \A y \in 1 .. 1 : b[w + y] = sp[y] /\ b[w + u + 1 + y] = sp[y]
    BY <2>0 DEF Has
  <2> QED BY <1>6, <2>1
<1>13. \A y \in 1 .. u : b[w + 1 + y] = ur[y]
  BY <1>3, <1>7, <1>10, Carried, ZenonT(60)
<1>14. \A x \in w + 2 .. w + u + 1 :
          b[x] \notin Blanks /\ b[x] \notin V /\ (b[x] = "REFER" => x + 6 <= w + u + 1)
  <2>1. SUFFICES ASSUME NEW x \in w + 2 .. w + u + 1
                 PROVE  b[x] \notin Blanks /\ b[x] \notin V /\ (b[x] = "REFER" => x + 6 <= w + u + 1)
    BY Zenon
  <2>2. PICK y \in Nat : y = x - w - 1
    OBVIOUS
  <2>3. y \in 1 .. u /\ x = w + 1 + y
    BY <2>1, <2>2
  <2>4. b[x] = ur[y]
    BY <1>13, <2>3
  <2>5. ur[y] \notin Blanks /\ ur[y] \notin V /\ (ur[y] = "REFER" => y + 6 <= u)
    BY <1>7, <2>3
  <2>6. y + 6 <= u => x + 6 <= w + u + 1
    BY <2>2
  <2> QED BY <2>4, <2>5, <2>6, Zenon
<1>15. b[w + u + 3] = "HTTP" /\ \A x \in w + u + 4 .. w + u + 6 : b[x] = "l"
  <2>0. Has(b, w + u + 2, h, 4)
    BY <1>3, <1>8, <1>10, CarriedAll, Zenon
  <2>1. \A y \in 1 .. 4 : b[w + u + 2 + y] = h[y]
    BY <2>0 DEF Has
  <2>2. ASSUME NEW x \in w + u + 4 .. w + u + 6 PROVE b[x] = "l"
    <3>1. x - (w + u + 2) \in 2 .. 4 /\ x = w + u + 2 + (x - (w + u + 2))
      OBVIOUS
    <3> QED BY <1>8, <2>1, <3>1
  <2>3. b[w + u + 2 + 1] = "HTTP"
    BY <1>8, <2>1
  <2> QED BY <2>2, <2>3
<1>16. /\ b[w + u + 11] = CR /\ b[w + u + 12] = LF
       /\ \A x \in w + u + 7 .. w + u + 10 : b[x] \in {Slash, "1", Dot}
  <2>0. Has(b, w + u + 6, v, 6)
    BY <1>3, <1>9, <1>10, CarriedAll, Zenon
  <2>1. \A y \in 1 .. 6 : b[w + u + 6 + y] = v[y]
    BY <2>0 DEF Has
  <2>2. ASSUME NEW x \in w + u + 7 .. w + u + 10 PROVE b[x] \in {Slash, "1", Dot}
    <3>1. x - (w + u + 6) \in 1 .. 4 /\ x = w + u + 6 + (x - (w + u + 6))
      OBVIOUS
    <3> QED BY <1>9, <2>1, <3>1
  <2>3. b[w + u + 6 + 5] = CR /\ b[w + u + 6 + 6] = LF
    BY <1>9, <2>1
  <2> QED BY <2>2, <2>3
<1>17. /\ b[1] \in {"GET", "POST", "HEAD"} /\ (b[1] = "GET" => w = 3) /\ (b[1] # "GET" => w = 4)
  <2>1. r.method \in {"GET", "POST", "HEAD"} /\ b[1] = r.method
    BY <1>5, <1>11 DEF WellFormed
  <2> QED BY <1>1, <2>1, WordFacts
<1>18. FirstLine(b, w, u, V)
  BY <1>5, <1>11, <1>12, <1>14, <1>15, <1>16, <1>17 DEF FirstLine
<1> QED BY <1>1, <1>2, <1>5, <1>11, <1>13, <1>18, Zenon

(* What all bytes of a text are, they are where it is.                     *)
LEMMA Shifted ==
    \A b, p, t, n, low, S :
        p \in Nat /\ n \in Nat /\ low \in Nat \ {0} /\ Has(b, p, t, n) /\ (\A y \in low .. n : t[y] \in S)
            => \A x \in p + low .. p + n : b[x] \in S
<1>1. ASSUME NEW b, NEW p \in Nat, NEW t, NEW n \in Nat, Has(b, p, t, n), NEW low \in Nat \ {0}, NEW S,
             \A y \in low .. n : t[y] \in S
      PROVE  \A x \in p + low .. p + n : b[x] \in S
  <2>1. SUFFICES ASSUME NEW x \in p + low .. p + n PROVE b[x] \in S
    BY Zenon
  <2>2. x - p \in low .. n /\ x - p \in 1 .. n /\ x = p + (x - p)
    OBVIOUS
  <2> QED BY <1>1, <2>2 DEF Has
<1> QED BY <1>1, Zenon

(* What is in a part of a text is in the text, for every part.             *)
LEMMA WithinAll ==
    \A b, s, t, p, q :
        b \in Text /\ s \in Text /\ t \in Text /\ p \in Nat /\ q \in Nat /\ Behind(b, p, s) /\ Behind(s, q, t)
            => Behind(b, p + q, t)
BY Within, Zenon

(* The Host header.                                                        *)
LEMMA SecondLineFacts ==
    ASSUME NEW r, WellFormed(r), NEW V, ~ Spells(r.host, V)
    PROVE  SecondLine(Wire(r), End1(r), Len(r.host), V)
<1>1. PICK p \in Nat, h \in Nat : p = End1(r) /\ h = Len(r.host)
  BY EndsTyped
<1>2. PICK b, s, m, v, sp, host :
         /\ b = Wire(r) /\ s = HostLine(r) /\ m = Spelled("HOST") /\ sp = <<":", SP>>
         /\ v = <<CR, LF>> /\ host = r.host
  OBVIOUS
<1>3. b \in Text /\ Behind(b, p, s)
  BY <1>1, <1>2, LinesFacts
<1>4. /\ s \in Text /\ Behind(s, 0, m) /\ Behind(s, 4, sp) /\ Behind(s, 6, host) /\ Behind(s, h + 6, v)
  BY <1>1, <1>2, HostLineFacts
<1>5. m \in Text /\ Len(m) = 4 /\ \A y \in 1 .. 4 : m[y] = IF y = 1 THEN "HOST" ELSE "l"
  <2>1. PICK w \in Words : w = "HOST"
    BY WordFacts
  <2>2. /\ Spelled(w) \in Text /\ Len(Spelled(w)) = Width[w]
        /\ \A x \in 1 .. Width[w] : Spelled(w)[x] = IF x = 1 THEN w ELSE "l"
    BY SpelledFacts
  <2>3. Width[w] = 4
    BY <2>1, WordFacts
  <2> QED BY <1>2, <2>1, <2>2, <2>3
<1>6. sp \in Text /\ Len(sp) = 2 /\ sp[1] = ":" /\ sp[2] = SP
  BY <1>2, Short
<1>7. v \in Text /\ Len(v) = 2 /\ v[1] = CR /\ v[2] = LF
  BY <1>2, Short
<1> DEFINE Free == {e \in Byte : e \notin Blanks /\ e \notin V /\ e # Slash}
<1>8. host \in Text /\ Len(host) = h /\ \A y \in 1 .. h : host[y] \in Free
  <2>1. host \in Text /\ Len(host) = h /\ DOMAIN host = 1 .. h /\ \A y \in 1 .. h : host[y] \in Byte
    BY <1>1, <1>2, Typed, TextIs DEF FieldsTyped
  <2>2. \A y \in 1 .. h : host[y] \notin Blanks /\ host[y] \notin V /\ host[y] # Slash
    BY <1>2, <2>1, Zenon DEF WellFormed, Spells, Blanks
  <2> QED BY <2>1, <2>2
<1>9. Behind(b, p + 0, m) /\ Behind(b, p + 4, sp) /\ Behind(b, p + 6, host) /\ Behind(b, p + (h + 6), v)
  BY <1>3, <1>4, <1>5, <1>6, <1>7, <1>8, Within, SMTT(60)
<1>10. Has(b, p + 0, m, 4) /\ Has(b, p + 4, sp, 2) /\ Has(b, p + 6, host, h) /\ Has(b, p + (h + 6), v, 2)
  BY <1>3, <1>5, <1>6, <1>7, <1>8, <1>9, CarriedAll, Zenon
<1>11. \A x \in (p + 6) + 1 .. (p + 6) + h : b[x] \in Free
  <2>1. p + 6 \in Nat /\ 1 \in Nat \ {0}
    OBVIOUS
  <2> HIDE DEF Free
  <2> QED BY <1>8, <1>10, <2>1, Shifted, Zenon
<1>12. b[p + 1] = "HOST" /\ \A x \in p + 2 .. p + 4 : b[x] = "l"
  <2>1. \A y \in 1 .. 4 : b[p + 0 + y] = m[y]
    BY <1>10 DEF Has
  <2>2. ASSUME NEW x \in p + 2 .. p + 4 PROVE b[x] = "l"
    <3>1. x - p \in 2 .. 4 /\ x = p + 0 + (x - p)
      OBVIOUS
    <3> QED BY <1>5, <2>1, <3>1
  <2>3. b[p + 0 + 1] = "HOST"
    BY <1>5, <2>1
  <2> QED BY <2>2, <2>3
<1>13. b[p + 5] = ":" /\ b[p + 6] = SP
  <2>1. \A y \in 1 .. 2 : b[p + 4 + y] = sp[y]
    BY <1>10 DEF Has
  <2>2. b[p + 4 + 1] = ":" /\ b[p + 4 + 2] = SP
    BY <1>6, <2>1
  <2> QED BY <2>2
<1>14. b[p + h + 7] = CR /\ b[p + h + 8] = LF
  <2>1. \A y \in 1 .. 2 : b[p + (h + 6) + y] = v[y]
    BY <1>10 DEF Has
  <2>2. b[p + (h + 6) + 1] = CR /\ b[p + (h + 6) + 2] = LF
    BY <1>7, <2>1
  <2> QED BY <2>2
<1>15. \A x \in p + 7 .. p + h + 6 : b[x] \notin Blanks /\ b[x] \notin V /\ b[x] # Slash
  BY <1>11
<1>16. SecondLine(b, p, h, V)
  BY <1>12, <1>13, <1>14, <1>15 DEF SecondLine
<1> QED BY <1>1, <1>2, <1>16, Zenon

(* The Referer header.                                                     *)
LEMMA ThirdLineFacts ==
    ASSUME NEW r, WellFormed(r), r.page # << >>, NEW V, ~ Spells(r.page, V)
    PROVE  ThirdLine(Wire(r), End2(r), Len(r.scheme), Len(r.page), V)
<1>1. PICK p \in Nat, c \in Nat, g \in Nat : p = End2(r) /\ c = Len(r.scheme) /\ g = Len(r.page) /\ 4 <= c
  <2>1. End2(r) \in Nat /\ Len(r.scheme) \in 4 .. 5 /\ Len(r.page) \in Nat
    BY EndsTyped, Zenon
  <2>2. \A n \in 4 .. 5 : n \in Nat /\ 4 <= n
    OBVIOUS
  <2> QED BY <2>1, <2>2, Zenon
<1>2. PICK b, s, m, v, sp, sc, sl, page :
         /\ b = Wire(r) /\ s = RefererLine(r) /\ m = Spelled("REFER") /\ sp = <<":", SP>>
         /\ v = <<CR, LF>> /\ sc = r.scheme /\ sl = <<":", Slash, Slash>> /\ page = r.page
  OBVIOUS
<1>3. b \in Text /\ Behind(b, p, s)
  BY <1>1, <1>2, LinesFacts
<1>4. /\ s \in Text /\ Behind(s, 0, m) /\ Behind(s, 7, sp) /\ Behind(s, 9, sc) /\ Behind(s, c + 9, sl)
      /\ Behind(s, c + 12, page) /\ Behind(s, c + g + 12, v)
  BY <1>1, <1>2, RefererLineFacts
<1>5. m \in Text /\ Len(m) = 7 /\ \A y \in 1 .. 7 : m[y] = IF y = 1 THEN "REFER" ELSE "l"
  <2>1. PICK w \in Words : w = "REFER"
    BY WordFacts
  <2>2. /\ Spelled(w) \in Text /\ Len(Spelled(w)) = Width[w]
        /\ \A x \in 1 .. Width[w] : Spelled(w)[x] = IF x = 1 THEN w ELSE "l"
    BY SpelledFacts
  <2>3. Width[w] = 7
    BY <2>1, WordFacts
  <2> QED BY <1>2, <2>1, <2>2, <2>3
<1>6. sp \in Text /\ Len(sp) = 2 /\ sp[1] = ":" /\ sp[2] = SP
  BY <1>2, Short
<1>7. v \in Text /\ Len(v) = 2 /\ v[1] = CR /\ v[2] = LF
  BY <1>2, Short
<1>8. sl \in Text /\ Len(sl) = 3 /\ sl[1] = ":" /\ sl[2] = Slash /\ sl[3] = Slash
  BY <1>2, Short
<1>9. sc \in Text /\ Len(sc) = c /\ sc[1] = "HTTP" /\ \A y \in 2 .. c : sc[y] \in {"l", "s"}
  BY <1>1, <1>2, Typed DEF FieldsTyped
<1> DEFINE Free == {e \in Byte : e \notin Blanks /\ e \notin V}
<1>10. page \in Text /\ Len(page) = g /\ \A y \in 1 .. g : page[y] \in Free
  <2>1. page \in Text /\ Len(page) = g /\ DOMAIN page = 1 .. g /\ \A y \in 1 .. g : page[y] \in Byte
    BY <1>1, <1>2, Typed, TextIs DEF FieldsTyped
  <2>2. \A y \in 1 .. g : page[y] \notin Blanks /\ page[y] \notin V
    BY <1>2, <2>1, Zenon DEF WellFormed, Spells, Blanks
  <2> QED BY <2>1, <2>2
<1>11. /\ Behind(b, p + 0, m) /\ Behind(b, p + 7, sp) /\ Behind(b, p + 9, sc) /\ Behind(b, p + (c + 9), sl)
       /\ Behind(b, p + (c + 12), page) /\ Behind(b, p + (c + g + 12), v)
  <2>1. 0 \in Nat /\ 7 \in Nat /\ 9 \in Nat /\ c + 9 \in Nat /\ c + 12 \in Nat /\ c + g + 12 \in Nat
    OBVIOUS
  <2> HIDE DEF Free
  <2> QED BY <1>3, <1>4, <1>5, <1>6, <1>7, <1>8, <1>9, <1>10, <2>1, WithinAll, Zenon
<1>12. /\ Has(b, p + 0, m, 7) /\ Has(b, p + 7, sp, 2) /\ Has(b, p + 9, sc, c) /\ Has(b, p + (c + 9), sl, 3)
       /\ Has(b, p + (c + 12), page, g) /\ Has(b, p + (c + g + 12), v, 2)
  BY <1>3, <1>5, <1>6, <1>7, <1>8, <1>9, <1>10, <1>11, CarriedAll, Zenon
<1>13. \A x \in (p + (c + 12)) + 1 .. (p + (c + 12)) + g : b[x] \in Free
  <2>1. p + (c + 12) \in Nat /\ 1 \in Nat \ {0}
    OBVIOUS
  <2>2. Has(b, p + (c + 12), page, g) /\ g \in Nat /\ \A y \in 1 .. g : page[y] \in Free
    BY <1>10, <1>12, Zenon
  <2> HIDE DEF Free
  <2> QED BY ONLY <2>1, <2>2, Shifted, ZenonT(60)
<1>14. b[p + 1] = "REFER" /\ \A x \in p + 2 .. p + 7 : b[x] = "l"
  <2>1. \A y \in 1 .. 7 : b[p + 0 + y] = m[y]
    BY <1>12 DEF Has
  <2>2. ASSUME NEW x \in p + 2 .. p + 7 PROVE b[x] = "l"
    <3>1. x - p \in 2 .. 7 /\ x = p + 0 + (x - p)
      OBVIOUS
    <3> QED BY <1>5, <2>1, <3>1, SMTT(60)
  <2>3. b[p + 0 + 1] = "REFER"
    BY <1>5, <2>1
  <2> QED BY <2>2, <2>3
<1>15. b[p + 8] = ":" /\ b[p + 9] = SP
  <2>1. \A y \in 1 .. 2 : b[p + 7 + y] = sp[y]
    BY <1>12 DEF Has
  <2>2. b[p + 7 + 1] = ":" /\ b[p + 7 + 2] = SP
    BY <1>6, <2>1
  <2> QED BY <2>2
<1>16. b[p + 10] = "HTTP" /\ \A x \in p + 11 .. p + c + 9 : b[x] \in {"l", "s"}
  <2>1. \A y \in 1 .. c : b[p + 9 + y] = sc[y]
    BY <1>12 DEF Has
  <2>2. \A x \in (p + 9) + 2 .. (p + 9) + c : b[x] \in {"l", "s"}
    <3>1. p + 9 \in Nat /\ 2 \in Nat \ {0}
      OBVIOUS
    <3>2. PICK S : S = {"l", "s"}
      OBVIOUS
    <3>3. \A y \in 2 .. c : sc[y] \in S
      BY <1>9, <3>2
    <3>4. \A x \in (p + 9) + 2 .. (p + 9) + c : b[x] \in S
      BY <1>12, <3>1, <3>3, Shifted, Zenon
    <3> QED BY <3>2, <3>4
  <2>3. b[p + 9 + 1] = "HTTP"
    BY <1>1, <1>9, <2>1, SMTT(60)
  <2> QED BY <2>2, <2>3
<1>17. b[p + c + 10] = ":" /\ b[p + c + 11] = Slash /\ b[p + c + 12] = Slash
  <2>1. \A y \in 1 .. 3 : b[p + (c + 9) + y] = sl[y]
    BY <1>12 DEF Has
  <2>2. b[p + (c + 9) + 1] = ":" /\ b[p + (c + 9) + 2] = Slash /\ b[p + (c + 9) + 3] = Slash
    BY <1>8, <2>1
  <2> QED BY <2>2
<1>18. b[p + c + g + 13] = CR /\ b[p + c + g + 14] = LF
  <2>1. \A y \in 1 .. 2 : b[p + (c + g + 12) + y] = v[y]
    BY <1>12 DEF Has
  <2>2. b[p + (c + g + 12) + 1] = CR /\ b[p + (c + g + 12) + 2] = LF
    BY <1>7, <2>1
  <2> QED BY <2>2
<1>19. \A x \in p + c + 13 .. p + c + g + 12 : b[x] \notin Blanks /\ b[x] \notin V
  BY <1>13
<1>20. ThirdLine(b, p, c, g, V)
  BY <1>14, <1>15, <1>16, <1>17, <1>18, <1>19 DEF ThirdLine
<1> QED BY <1>1, <1>2, <1>20, Zenon

(* The end of the head, and the body behind it.                            *)
LEMMA BodyFacts ==
    ASSUME NEW r, WellFormed(r), NEW V, ~ Spells(r.body, V)
    PROVE  /\ Wire(r)[End3(r) + 1] = CR /\ Wire(r)[End3(r) + 2] = LF
           /\ \A x \in End3(r) + 3 .. Len(Wire(r)) : Wire(r)[x] \notin V
<1>1. PICK p \in Nat, d \in Nat : p = End3(r) /\ d = Len(r.body)
  BY EndsTyped
<1>2. PICK b, v, body : b = Wire(r) /\ v = <<CR, LF>> /\ body = r.body
  OBVIOUS
<1>3. b \in Text /\ Behind(b, p, v) /\ Behind(b, p + 2, body) /\ Len(b) = p + 2 + d
  BY <1>1, <1>2, LinesFacts
<1>4. v \in Text /\ Len(v) = 2 /\ v[1] = CR /\ v[2] = LF
  BY <1>2, Short
<1> DEFINE Free == {e \in Byte : e \notin V}
<1>5. body \in Text /\ Len(body) = d /\ \A y \in 1 .. d : body[y] \in Free
  <2>1. body \in Text /\ Len(body) = d /\ DOMAIN body = 1 .. d /\ \A y \in 1 .. d : body[y] \in Byte
    BY <1>1, <1>2, Typed, TextIs DEF FieldsTyped
  <2>2. \A y \in 1 .. d : body[y] \notin V
    BY <1>2, <2>1, Zenon DEF Spells
  <2> QED BY <2>1, <2>2
<1>6. Has(b, p, v, 2) /\ Has(b, p + 2, body, d)
  BY <1>3, <1>4, <1>5, CarriedAll, Zenon
<1>7. \A x \in (p + 2) + 1 .. (p + 2) + d : b[x] \in Free
  <2>1. p + 2 \in Nat /\ 1 \in Nat \ {0}
    OBVIOUS
  <2> HIDE DEF Free
  <2> QED BY <1>5, <1>6, <2>1, Shifted, Zenon
<1>8. b[p + 1] = CR /\ b[p + 2] = LF
  BY <1>4, <1>6 DEF Has
<1>9. \A x \in p + 3 .. Len(b) : b[x] \notin V
  BY <1>3, <1>7
<1> QED BY <1>1, <1>2, <1>8, <1>9, Zenon

-----------------------------------------------------------------------------
(* What is not a field of a line is not a word searched for, but for the   *)
(* first one of a header and "http".                                       *)

Frame == {"l", "s", "1", ":", SP, CR, LF, Dot, Slash}

(* The request line.                                                       *)
LEMMA FirstFrame ==
    ASSUME NEW b, NEW w \in Nat, NEW u \in Nat, NEW V, FirstLine(b, w, u, V)
    PROVE  \A x \in 2 .. w + u + 12 :
              x \notin w + 2 .. w + u + 1 /\ x # w + u + 3 => b[x] \in Frame
<1>1. SUFFICES ASSUME NEW x \in 2 .. w + u + 12, x \notin w + 2 .. w + u + 1, x # w + u + 3
               PROVE  b[x] \in Frame
  BY Zenon
<1>2. \/ x \in 2 .. w \/ x = w + 1 \/ x = w + u + 2 \/ x \in w + u + 4 .. w + u + 6
      \/ x \in w + u + 7 .. w + u + 10 \/ x = w + u + 11 \/ x = w + u + 12
  BY <1>1
<1>3. \A y \in 2 .. w : b[y] = "l"
  BY DEF FirstLine
<1>4. b[w + 1] = SP /\ b[w + u + 2] = SP /\ b[w + u + 11] = CR /\ b[w + u + 12] = LF
  BY DEF FirstLine
<1>5. \A y \in w + u + 4 .. w + u + 6 : b[y] = "l"
  BY DEF FirstLine
<1>6. \A y \in w + u + 7 .. w + u + 10 : b[y] \in {Slash, "1", Dot}
  BY DEF FirstLine
<1> QED BY <1>2, <1>3, <1>4, <1>5, <1>6, Zenon DEF Frame

(* The Host header.                                                        *)
LEMMA SecondFrame ==
    ASSUME NEW b, NEW p \in Nat, NEW h \in Nat, NEW V, SecondLine(b, p, h, V)
    PROVE  \A x \in p + 2 .. p + h + 8 : x \notin p + 7 .. p + h + 6 => b[x] \in Frame
<1>1. SUFFICES ASSUME NEW x \in p + 2 .. p + h + 8, x \notin p + 7 .. p + h + 6
               PROVE  b[x] \in Frame
  BY Zenon
<1>2. x \in p + 2 .. p + 4 \/ x = p + 5 \/ x = p + 6 \/ x = p + h + 7 \/ x = p + h + 8
  BY <1>1
<1>3. \A y \in p + 2 .. p + 4 : b[y] = "l"
  BY DEF SecondLine
<1>4. b[p + 5] = ":" /\ b[p + 6] = SP /\ b[p + h + 7] = CR /\ b[p + h + 8] = LF
  BY DEF SecondLine
<1> QED BY <1>2, <1>3, <1>4, Zenon DEF Frame

(* The Referer header.                                                     *)
LEMMA ThirdFrame ==
    ASSUME NEW b, NEW p \in Nat, NEW c \in Nat, NEW g \in Nat, NEW V, ThirdLine(b, p, c, g, V)
    PROVE  \A x \in p + 2 .. p + c + g + 14 :
              x \notin p + c + 13 .. p + c + g + 12 /\ x # p + 10 => b[x] \in Frame
<1>1. SUFFICES ASSUME NEW x \in p + 2 .. p + c + g + 14, x \notin p + c + 13 .. p + c + g + 12, x # p + 10
               PROVE  b[x] \in Frame
  BY Zenon
<1>2. \/ x \in p + 2 .. p + 7 \/ x = p + 8 \/ x = p + 9 \/ x \in p + 11 .. p + c + 9
      \/ x = p + c + 10 \/ x = p + c + 11 \/ x = p + c + 12
      \/ x = p + c + g + 13 \/ x = p + c + g + 14
  BY <1>1
<1>3. (\A y \in p + 2 .. p + 7 : b[y] = "l") /\ \A y \in p + 11 .. p + c + 9 : b[y] \in {"l", "s"}
  BY DEF ThirdLine
<1>4. /\ b[p + 8] = ":" /\ b[p + 9] = SP
      /\ b[p + c + 10] = ":" /\ b[p + c + 11] = Slash /\ b[p + c + 12] = Slash
      /\ b[p + c + g + 13] = CR /\ b[p + c + g + 14] = LF
  BY DEF ThirdLine
<1> QED BY <1>2, <1>3, <1>4, Zenon DEF Frame

(* The words, and that the frame has none.                                 *)
LEMMA WordsAre ==
    /\ Words = {"GET", "POST", "HEAD", "HTTP", "HOST", "REFER"}
    /\ Random \notin Words /\ Frame \cap Words = {} /\ Random \notin Frame /\ Blanks \cap Words = {}
    /\ Random \notin Blanks
BY DEF Words, Width, Random, Frame, Blanks, SP, CR, LF, TAB, Dot, Slash

-----------------------------------------------------------------------------
(* The ends of the lines.                                                  *)

(* From a position on the only end of a line is at n.                      *)
EndsOnly(b, from, n) == \A x \in from .. n : b[x] \in {CR, LF} => x = n - 1 \/ x = n

(* The request line.                                                       *)
LEMMA FirstEnds ==
    ASSUME NEW b, NEW V, NEW w \in Nat, NEW u \in Nat, FirstLine(b, w, u, V)
    PROVE  EndsOnly(b, 1, w + u + 12)
<1>1. SUFFICES ASSUME NEW x \in 1 .. w + u + 12, x # w + u + 11, x # w + u + 12 PROVE b[x] \notin {CR, LF}
  BY DEF EndsOnly
<1>2. \/ x = 1 \/ x \in 2 .. w \/ x = w + 1 \/ x \in w + 2 .. w + u + 1 \/ x = w + u + 2 \/ x = w + u + 3
      \/ x \in w + u + 4 .. w + u + 6 \/ x \in w + u + 7 .. w + u + 10
  BY <1>1
<1>3. /\ b[1] \in {"GET", "POST", "HEAD"} /\ (\A y \in 2 .. w : b[y] = "l") /\ b[w + 1] = SP
      /\ \A y \in w + 2 .. w + u + 1 : b[y] \notin Blanks
  BY DEF FirstLine
<1>4. b[w + u + 2] = SP /\ b[w + u + 3] = "HTTP" /\ \A y \in w + u + 4 .. w + u + 6 : b[y] = "l"
  BY DEF FirstLine
<1>5. \A y \in w + u + 7 .. w + u + 10 : b[y] \in {Slash, "1", Dot}
  BY DEF FirstLine
<1> QED BY <1>2, <1>3, <1>4, <1>5 DEF Blanks, CR, LF, SP, Slash, Dot

(* The Host header.                                                        *)
LEMMA SecondEnds ==
    ASSUME NEW b, NEW V, NEW p \in Nat, NEW h \in Nat, SecondLine(b, p, h, V)
    PROVE  EndsOnly(b, p + 1, p + h + 8)
<1>1. SUFFICES ASSUME NEW x \in p + 1 .. p + h + 8, x # p + h + 7, x # p + h + 8 PROVE b[x] \notin {CR, LF}
  BY DEF EndsOnly
<1>2. x = p + 1 \/ x \in p + 2 .. p + 4 \/ x = p + 5 \/ x = p + 6 \/ x \in p + 7 .. p + h + 6
  BY <1>1
<1>3. /\ b[p + 1] = "HOST" /\ (\A y \in p + 2 .. p + 4 : b[y] = "l") /\ b[p + 5] = ":" /\ b[p + 6] = SP
      /\ \A y \in p + 7 .. p + h + 6 : b[y] \notin Blanks
  BY DEF SecondLine
<1> QED BY <1>2, <1>3 DEF Blanks, CR, LF, SP

(* The Referer header.                                                     *)
LEMMA ThirdEnds ==
    ASSUME NEW b, NEW V, NEW p \in Nat, NEW c \in Nat, NEW g \in Nat, ThirdLine(b, p, c, g, V)
    PROVE  EndsOnly(b, p + 1, p + c + g + 14)
<1>1. SUFFICES ASSUME NEW x \in p + 1 .. p + c + g + 14, x # p + c + g + 13, x # p + c + g + 14
               PROVE  b[x] \notin {CR, LF}
  BY DEF EndsOnly
<1>2. \/ x = p + 1 \/ x \in p + 2 .. p + 7 \/ x = p + 8 \/ x = p + 9 \/ x = p + 10
      \/ x \in p + 11 .. p + c + 9 \/ x = p + c + 10 \/ x = p + c + 11 \/ x = p + c + 12
      \/ x \in p + c + 13 .. p + c + g + 12
  BY <1>1
<1>3. /\ b[p + 1] = "REFER" /\ (\A y \in p + 2 .. p + 7 : b[y] = "l") /\ b[p + 8] = ":" /\ b[p + 9] = SP
      /\ b[p + 10] = "HTTP" /\ \A y \in p + 11 .. p + c + 9 : b[y] \in {"l", "s"}
  BY DEF ThirdLine
<1>4. /\ b[p + c + 10] = ":" /\ b[p + c + 11] = Slash /\ b[p + c + 12] = Slash
      /\ \A y \in p + c + 13 .. p + c + g + 12 : b[y] \notin Blanks
  BY DEF ThirdLine
<1> QED BY <1>2, <1>3, <1>4 DEF Blanks, CR, LF, SP, Slash

(* A request of any kind, but with no "host" in its URI.                   *)
AnyText(b, w, u, h, c, g, p, q, k) ==
    /\ b \in Text /\ w \in 3 .. 4 /\ u \in Nat /\ h \in Nat /\ c \in 4 .. 5 /\ g \in Nat
    /\ p \in Nat /\ q \in Nat /\ k \in Nat
    /\ FirstLine(b, w, u, {"HOST"}) /\ p = w + u + 12
    /\ SecondLine(b, p, h, {}) /\ q = p + h + 8
    /\ (g = 0 => k = q)
    /\ (g # 0 => k = q + c + g + 14 /\ ThirdLine(b, q, c, g, {}))
    /\ k + 2 <= Len(b) /\ b[k + 1] = CR /\ b[k + 2] = LF

(* Its lines end with CR and LF, behind the fields.                        *)
LEMMA AnyEnds ==
    ASSUME NEW b, NEW w, NEW u, NEW h, NEW c, NEW g, NEW p, NEW q, NEW k, AnyText(b, w, u, h, c, g, p, q, k)
    PROVE  /\ q <= k
           /\ \A x \in 1 .. k + 2 : b[x] \in {CR, LF} => x >= p - 1 /\ x \notin p + 7 .. p + h + 6
           /\ \A x \in 1 .. k + 2 : b[x] = LF => x >= p /\ b[x - 1] = CR
<1>1. /\ w \in Nat /\ w \in 3 .. 4 /\ u \in Nat /\ h \in Nat /\ c \in Nat /\ g \in Nat
      /\ p \in Nat /\ q \in Nat /\ k \in Nat
      /\ FirstLine(b, w, u, {"HOST"}) /\ p = w + u + 12
      /\ SecondLine(b, p, h, {}) /\ q = p + h + 8
      /\ (g = 0 => k = q)
      /\ (g # 0 => k = q + c + g + 14 /\ ThirdLine(b, q, c, g, {}))
      /\ b[k + 1] = CR /\ b[k + 2] = LF
  BY DEF AnyText
<1>2. \A x \in 1 .. p : b[x] \in {CR, LF} => x = p - 1 \/ x = p
  <2>1. \A x \in 1 .. w + u + 12 : b[x] \in {CR, LF} => x = w + u + 11 \/ x = w + u + 12
    <3>1. EndsOnly(b, 1, w + u + 12)
      BY <1>1, FirstEnds
    <3> QED BY <1>1, <3>1 DEF EndsOnly
  <2> QED BY <1>1, <2>1
<1>3. \A x \in p + 1 .. q : b[x] \in {CR, LF} => x = q - 1 \/ x = q
  <2>1. \A x \in p + 1 .. p + h + 8 : b[x] \in {CR, LF} => x = p + h + 7 \/ x = p + h + 8
    <3>1. EndsOnly(b, p + 1, p + h + 8)
      BY <1>1, SecondEnds
    <3> QED BY <1>1, <3>1 DEF EndsOnly
  <2> QED BY <1>1, <2>1
<1>4. \A x \in q + 1 .. k : b[x] \in {CR, LF} => x = k - 1 \/ x = k
  <2>1. CASE g = 0
    BY <1>1, <2>1
  <2>2. CASE g # 0
    <3>1. \A x \in q + 1 .. q + c + g + 14 : b[x] \in {CR, LF} => x = q + c + g + 13 \/ x = q + c + g + 14
      <4>1. EndsOnly(b, q + 1, q + c + g + 14)
        BY <1>1, <2>2, ThirdEnds
      <4> QED BY <1>1, <4>1 DEF EndsOnly
    <3> QED BY <1>1, <2>2, <3>1
  <2> QED BY <2>1, <2>2
<1>5. /\ q <= k /\ p < q - 7 /\ b[p - 1] = CR /\ b[p] = LF /\ b[q - 1] = CR /\ b[q] = LF
      /\ (k # q => k > q + 2 /\ b[k - 1] = CR /\ b[k] = LF)
  <2>1. b[w + u + 11] = CR /\ b[w + u + 12] = LF /\ b[p + h + 7] = CR /\ b[p + h + 8] = LF
    BY <1>1, Zenon DEF FirstLine, SecondLine
  <2>2. w + u + 11 = p - 1 /\ w + u + 12 = p /\ p + h + 7 = q - 1 /\ p + h + 8 = q
    BY <1>1
  <2>3. b[p - 1] = CR /\ b[p] = LF /\ b[q - 1] = CR /\ b[q] = LF
    BY <2>1, <2>2, Zenon
  <2>4. k # q => k > q + 2 /\ b[k - 1] = CR /\ b[k] = LF
    <3> SUFFICES ASSUME k # q PROVE k > q + 2 /\ b[k - 1] = CR /\ b[k] = LF
      OBVIOUS
    <3>1. k = q + c + g + 14 /\ ThirdLine(b, q, c, g, {})
      BY <1>1
    <3>2. b[q + c + g + 13] = CR /\ b[q + c + g + 14] = LF
      BY <3>1, Zenon DEF ThirdLine
    <3>3. q + c + g + 13 = k - 1
      BY <1>1, <3>1
    <3>4. k > q + 2
      BY <1>1, <3>1
    <3> QED BY <3>1, <3>2, <3>3, <3>4, Zenon
  <2>5. q <= k /\ p < q - 7
    BY <1>1, <2>4
  <2> QED BY <2>3, <2>4, <2>5
<1>6. ASSUME NEW x \in 1 .. k + 2, b[x] \in {CR, LF}
      PROVE  x = p - 1 \/ x = p \/ x = q - 1 \/ x = q \/ (k # q /\ (x = k - 1 \/ x = k)) \/ x = k + 1 \/ x = k + 2
  <2>1. x \in 1 .. p \/ x \in p + 1 .. q \/ (k # q /\ x \in q + 1 .. k) \/ x = k + 1 \/ x = k + 2
    BY <1>1, <1>5
  <2> QED BY <1>2, <1>3, <1>4, <1>6, <2>1
<1>7. ASSUME NEW x \in 1 .. k + 2, b[x] \in {CR, LF}
      PROVE  x >= p - 1 /\ x \notin p + 7 .. p + h + 6
  BY <1>1, <1>5, <1>6, <1>7
<1>8. ASSUME NEW x \in 1 .. k + 2, b[x] = LF
      PROVE  x >= p /\ b[x - 1] = CR
  <2>1. b[x] # CR
    BY <1>8 DEF CR, LF
  <2>2. x = p \/ x = q \/ (k # q /\ x = k) \/ x = k + 2
    BY <1>1, <1>5, <1>6, <1>8, <2>1
  <2>3. CASE x = k + 2
    <3>1. x - 1 = k + 1 /\ x >= p
      BY <1>1, <1>5, <2>3
    <3> QED BY <1>1, <3>1
  <2> QED BY <1>1, <1>5, <2>2, <2>3
<1> QED BY <1>5, <1>7, <1>8

(* What is hidden as its host is its host, if anything is.                 *)
AnyHidden(b, h, p) ==
    /\ HideHost(b) \in Text /\ Len(HideHost(b)) = Len(b)
    /\ \A x \in 1 .. Len(b) :
          HideHost(b)[x] = IF x \in p + 7 .. p + h + 6 /\ b[x] # Dot THEN Random ELSE b[x]

(* It is, if it is not too long.                                           *)
LEMMA AnyHost ==
    ASSUME NEW b, NEW w, NEW u, NEW h, NEW c, NEW g, NEW p, NEW q, NEW k, AnyText(b, w, u, h, c, g, p, q, k)
    PROVE  /\ 1 <= h /\ h <= 64 => HostName(b) # << >>
           /\ HostName(b) # << >> => AnyHidden(b, h, p)
<1>1. /\ b \in Text /\ w \in 3 .. 4 /\ u \in Nat /\ h \in Nat /\ p \in Nat /\ q \in Nat /\ k \in Nat
      /\ FirstLine(b, w, u, {"HOST"}) /\ p = w + u + 12 /\ SecondLine(b, p, h, {}) /\ q = p + h + 8
      /\ k + 2 <= Len(b)
  BY DEF AnyText
<1>2. Len(b) \in Nat /\ q <= k
  BY <1>1, TextIs, AnyEnds
<1>3. Find(b, "HOST") = p + 1
  <2>1. \A x \in 1 .. p : b[x] # "HOST"
    <3>1. SUFFICES ASSUME NEW x \in 1 .. w + u + 12 PROVE b[x] # "HOST"
      BY <1>1
    <3>2. CASE x = 1 \/ x = w + u + 3
      BY <1>1, <3>2 DEF FirstLine
    <3>3. CASE x \in w + 2 .. w + u + 1
      BY <1>1, <3>3 DEF FirstLine
    <3>4. CASE x # 1 /\ x # w + u + 3 /\ x \notin w + 2 .. w + u + 1
      BY <1>1, <3>1, <3>4, FirstFrame, WordsAre
    <3> QED BY <3>2, <3>3, <3>4
  <2>2. b[p + 1] = "HOST" /\ \A x \in p + 2 .. p + 4 : b[x] # Random
    BY <1>1 DEF SecondLine, Random
  <2>3. PICK n \in Nat : n = p + 1
    BY <1>1
  <2>4. 1 <= n /\ n + Width["HOST"] - 1 <= Len(b)
    BY <1>1, <1>2, <2>3, WordFacts
  <2>5. \A x \in 1 .. n - 1 : b[x] # "HOST"
    BY <1>1, <2>1, <2>3
  <2>6. \A x \in n + 1 .. n + Width["HOST"] - 1 : b[x] # Random
    BY <1>1, <2>2, <2>3, WordFacts
  <2>7. b[n] = "HOST" /\ "HOST" \in Words
    BY <2>2, <2>3, WordFacts
  <2> QED BY <1>1, <2>3, <2>4, <2>5, <2>6, <2>7, FindAt
<1>4. PICK s \in Nat : s = p + 7 /\ HostStart(b) = s
  <2>1. HostStart(b) = p + 1 + 6
    BY <1>3 DEF HostStart
  <2> QED BY <1>1, <2>1
<1>5. PICK e \in Nat : e = p + h + 7
  BY <1>1
<1>6. EndOf(b, s, EndOfField) = e
  <2>1. s <= e /\ e <= Len(b)
    BY <1>1, <1>2, <1>4, <1>5
  <2>2. b[e] \in EndOfField
    BY <1>1, <1>5 DEF SecondLine, EndOfField
  <2>3. \A x \in s .. e - 1 : b[x] \notin EndOfField
    <3>1. \A x \in p + 7 .. p + h + 6 : b[x] \notin Blanks
      BY <1>1 DEF SecondLine
    <3>2. EndOfField \subseteq Blanks
      BY DEF EndOfField, Blanks
    <3>3. s .. e - 1 = p + 7 .. p + h + 6
      BY <1>1, <1>4, <1>5
    <3> QED BY <3>1, <3>2, <3>3, Zenon
  <2> QED BY <1>1, <2>1, <2>2, <2>3, EndAt
<1>7. PICK name : name = SubSeq(b, s, e - 1)
  OBVIOUS
<1>8. HostName(b) # << >> => HostName(b) = name
  BY <1>4, <1>6, <1>7, Zenon DEF HostName
<1>9. name \in Text /\ Len(name) = h
  <2>1. \A x \in s .. e - 1 : b[x] \in Byte
    BY <1>1, <1>2, <1>4, <1>5, TextIs
  <2>2. s \in Int /\ e - 1 \in Int /\ (s <= e - 1 => (e - 1) - s + 1 = h) /\ (~ (s <= e - 1) => 0 = h)
    BY <1>1, <1>4, <1>5
  <2> QED BY <1>7, <2>1, <2>2, SubSeqProperties DEF Text
<1>10. ASSUME 1 <= h, h <= 64 PROVE HostName(b) # << >>
  <2>1. e < Len(b) /\ e - s <= 64 /\ p + 1 # 0
    BY <1>1, <1>2, <1>4, <1>5, <1>10
  <2>2. HostName(b) = name
    BY <1>3, <1>4, <1>6, <1>7, <2>1 DEF HostName
  <2>3. name # << >>
    BY <1>1, <1>9, <1>10, EmptySeq DEF Text
  <2> QED BY <2>2, <2>3
<1>11. ASSUME HostName(b) # << >> PROVE AnyHidden(b, h, p)
  <2>1. HideHost(b) = Mask(b, p + 7, p + h + 6, {Dot})
    <3>1. s + Len(name) - 1 = p + h + 6 /\ s = p + 7
      BY <1>1, <1>4, <1>9
    <3> QED BY <1>4, <1>8, <1>11, <3>1, Zenon DEF HideHost
  <2>2. /\ Mask(b, p + 7, p + h + 6, {Dot}) \in Text /\ Len(Mask(b, p + 7, p + h + 6, {Dot})) = Len(b)
        /\ \A x \in 1 .. Len(b) : Mask(b, p + 7, p + h + 6, {Dot})[x] =
              IF p + 7 <= x /\ x <= p + h + 6 /\ b[x] \notin {Dot} THEN Random ELSE b[x]
    BY <1>1, MaskIs, SMTT(60)
  <2>3. \A x \in 1 .. Len(b) :
            (p + 7 <= x /\ x <= p + h + 6 /\ b[x] \notin {Dot}) <=> (x \in p + 7 .. p + h + 6 /\ b[x] # Dot)
    BY <1>1
  <2> QED BY <2>1, <2>2, <2>3, Zenon DEF AnyHidden
<1> QED BY <1>10, <1>11

-----------------------------------------------------------------------------
(* A plain request: p, q and k are where its headers end.                  *)

PlainText(b, w, u, h, g, p, q, k) ==
    /\ b \in Text /\ w \in Nat /\ u \in Nat /\ h \in Nat /\ g \in Nat /\ p \in Nat /\ q \in Nat /\ k \in Nat
    /\ FirstLine(b, w, u, Words) /\ b[1] # "HEAD" /\ p = w + u + 12
    /\ SecondLine(b, p, h, Words) /\ q = p + h + 8 /\ 1 <= h /\ h <= 64
    /\ (g = 0 => k = q)
    /\ (g # 0 => k = q + g + 18 /\ ThirdLine(b, q, 4, g, Words) /\ g <= 65)
    /\ k + 2 <= Len(b) /\ b[k + 1] = CR /\ b[k + 2] = LF
    /\ \A x \in k + 3 .. Len(b) : b[x] \notin {"GET", "REFER"}

(* The only words before the first header's end are the method, "http" and *)
(* "host", and "referer" is but in front of the page.                      *)
LEMMA PlainWords ==
    ASSUME NEW b, NEW w, NEW u, NEW h, NEW g, NEW p, NEW q, NEW k, PlainText(b, w, u, h, g, p, q, k)
    PROVE  /\ w \in 3 .. 4 /\ Len(b) \in Nat /\ q \in Nat /\ q <= k
           /\ b[1] \in {"GET", "POST"} /\ (b[1] = "GET" => w = 3) /\ (b[1] = "POST" => w = 4)
           /\ \A x \in 2 .. q : x # w + u + 3 /\ x # p + 1 => b[x] \notin Words
           /\ b[w + u + 3] = "HTTP" /\ b[p + 1] = "HOST"
           /\ \A x \in 2 .. Len(b) : b[x] # "GET"
           /\ \A x \in 1 .. Len(b) : x # q + 1 => b[x] # "REFER"
           /\ (g = 0 => b[q + 1] # "REFER")
<1>1. /\ b \in Text /\ w \in Nat /\ u \in Nat /\ h \in Nat /\ g \in Nat /\ p \in Nat /\ q \in Nat /\ k \in Nat
      /\ FirstLine(b, w, u, Words) /\ b[1] # "HEAD" /\ p = w + u + 12
      /\ SecondLine(b, p, h, Words) /\ q = p + h + 8
      /\ (g = 0 => k = q)
      /\ (g # 0 => k = q + g + 18 /\ ThirdLine(b, q, 4, g, Words))
      /\ k + 2 <= Len(b) /\ b[k + 1] = CR /\ b[k + 2] = LF
      /\ \A x \in k + 3 .. Len(b) : b[x] \notin {"GET", "REFER"}
  BY DEF PlainText
<1>2. Len(b) \in Nat /\ q <= k
  BY <1>1, TextIs
<1>3. /\ b[1] \in {"GET", "POST"} /\ (b[1] = "GET" => w = 3) /\ (b[1] = "POST" => w = 4) /\ w \in 3 .. 4
  <2>1. /\ b[1] \in {"GET", "POST", "HEAD"} /\ b[1] # "HEAD"
        /\ (b[1] = "GET" => w = 3) /\ (b[1] # "GET" => w = 4)
    BY <1>1, Zenon DEF FirstLine
  <2> QED BY ONLY <2>1
<1>4. b[w + u + 3] = "HTTP" /\ b[p + 1] = "HOST"
  BY <1>1, Zenon DEF FirstLine, SecondLine
<1>5. \A x \in 2 .. p : x # w + u + 3 => b[x] \notin Words
  <2>1. SUFFICES ASSUME NEW x \in 2 .. w + u + 12, x # w + u + 3 PROVE b[x] \notin Words
    BY <1>1
  <2>2. CASE x \in w + 2 .. w + u + 1
    BY <1>1, <2>2 DEF FirstLine
  <2>3. CASE x \notin w + 2 .. w + u + 1
    BY <1>1, <2>1, <2>3, FirstFrame, WordsAre
  <2> QED BY <2>2, <2>3
<1>6. \A x \in p + 2 .. q : b[x] \notin Words
  <2>1. SUFFICES ASSUME NEW x \in p + 2 .. p + h + 8 PROVE b[x] \notin Words
    BY <1>1
  <2>2. CASE x \in p + 7 .. p + h + 6
    BY <1>1, <2>2 DEF SecondLine
  <2>3. CASE x \notin p + 7 .. p + h + 6
    BY <1>1, <2>1, <2>3, SecondFrame, WordsAre
  <2> QED BY <2>2, <2>3
<1>7. \A x \in 2 .. q : x # w + u + 3 /\ x # p + 1 => b[x] \notin Words
  <2>1. SUFFICES ASSUME NEW x \in 2 .. q, x # w + u + 3, x # p + 1 PROVE b[x] \notin Words
    BY Zenon
  <2>2. x \in 2 .. p \/ x \in p + 2 .. q
    BY <1>1, <2>1
  <2> QED BY <1>5, <1>6, <2>1, <2>2, Zenon
<1>8. \A x \in q + 2 .. k : b[x] \notin {"GET", "REFER"}
  <2>1. CASE g = 0
    BY <1>1, <2>1
  <2>2. CASE g # 0
    <3>1. SUFFICES ASSUME NEW x \in q + 2 .. q + 4 + g + 14 PROVE b[x] \notin {"GET", "REFER"}
      BY <1>1, <2>2
    <3>2. CASE x \in q + 4 + 13 .. q + 4 + g + 12
      <4>1. b[x] \notin Words
        BY <1>1, <2>2, <3>2, Zenon DEF ThirdLine
      <4> QED BY <4>1, WordsAre
    <3>3. CASE x = q + 10
      <4>1. b[q + 10] = "HTTP"
        BY <1>1, <2>2, Zenon DEF ThirdLine
      <4> QED BY <3>3, <4>1
    <3>4. CASE x \notin q + 4 + 13 .. q + 4 + g + 12 /\ x # q + 10
      <4>1. ThirdLine(b, q, 4, g, Words)
        BY <1>1, <2>2
      <4>2. b[x] \in Frame
        BY <1>1, <3>1, <3>4, <4>1, ThirdFrame
      <4> QED BY <4>2, WordsAre
    <3> QED BY <3>2, <3>3, <3>4
  <2> QED BY <2>1, <2>2
<1>9. b[k + 1] \notin Words /\ b[k + 2] \notin Words
  BY <1>1, WordsAre DEF CR, LF
<1>10. b[q + 1] # "GET" /\ (g = 0 => b[q + 1] # "REFER")
  <2>1. CASE g = 0
    BY <1>1, <1>9, <2>1, WordsAre
  <2>2. CASE g # 0
    BY <1>1, <2>2 DEF ThirdLine
  <2> QED BY <2>1, <2>2
<1>11. \A x \in q + 2 .. Len(b) : b[x] \notin {"GET", "REFER"}
  <2>1. SUFFICES ASSUME NEW x \in q + 2 .. Len(b) PROVE b[x] \notin {"GET", "REFER"}
    BY Zenon
  <2>2. x \in q + 2 .. k \/ x = k + 1 \/ x = k + 2 \/ x \in k + 3 .. Len(b)
    BY <1>1, <1>2, <2>1
  <2>3. b[k + 1] \notin {"GET", "REFER"} /\ b[k + 2] \notin {"GET", "REFER"}
    BY <1>9, WordsAre
  <2> QED BY <1>1, <1>8, <2>2, <2>3
<1>12. \A x \in 2 .. q : b[x] \notin {"GET", "REFER"}
  <2>1. SUFFICES ASSUME NEW x \in 2 .. q PROVE b[x] \notin {"GET", "REFER"}
    BY Zenon
  <2> QED BY <1>4, <1>7, <2>1, WordsAre
<1>13. \A x \in 2 .. Len(b) : b[x] # "GET"
  <2>1. SUFFICES ASSUME NEW x \in 2 .. Len(b) PROVE b[x] # "GET"
    BY Zenon
  <2>2. x \in 2 .. q \/ x = q + 1 \/ x \in q + 2 .. Len(b)
    BY <1>1, <1>2, <2>1
  <2> QED BY <1>10, <1>11, <1>12, <2>2
<1>14. \A x \in 1 .. Len(b) : x # q + 1 => b[x] # "REFER"
  <2>1. SUFFICES ASSUME NEW x \in 1 .. Len(b), x # q + 1 PROVE b[x] # "REFER"
    BY Zenon
  <2>2. x = 1 \/ x \in 2 .. q \/ x \in q + 2 .. Len(b)
    BY <1>1, <1>2, <2>1
  <2> QED BY <1>3, <1>11, <1>12, <2>2
<1> QED BY <1>1, <1>2, <1>3, <1>4, <1>7, <1>10, <1>13, <1>14

(* It is one of the requests above.                                        *)
LEMMA PlainIsAny ==
    ASSUME NEW b, NEW w, NEW u, NEW h, NEW g, NEW p, NEW q, NEW k, PlainText(b, w, u, h, g, p, q, k)
    PROVE  AnyText(b, w, u, h, 4, g, p, q, k)
<1>1. /\ b \in Text /\ w \in Nat /\ u \in Nat /\ h \in Nat /\ g \in Nat /\ p \in Nat /\ q \in Nat /\ k \in Nat
      /\ FirstLine(b, w, u, Words) /\ p = w + u + 12
      /\ SecondLine(b, p, h, Words) /\ q = p + h + 8
      /\ (g = 0 => k = q)
      /\ (g # 0 => k = q + g + 18 /\ ThirdLine(b, q, 4, g, Words))
      /\ k + 2 <= Len(b) /\ b[k + 1] = CR /\ b[k + 2] = LF
  BY DEF PlainText
<1>2. w \in 3 .. 4 /\ 4 \in 4 .. 5
  BY PlainWords
<1>3. FirstLine(b, w, u, {"HOST"})
  <2>1. \A e : e \notin Words => e \notin {"HOST"}
    BY WordFacts
  <2> QED BY <1>1, <2>1, Zenon DEF FirstLine
<1>4. SecondLine(b, p, h, {})
  BY <1>1, Zenon DEF SecondLine
<1>5. g # 0 => k = q + 4 + g + 14 /\ ThirdLine(b, q, 4, g, {})
  <2>1. g # 0 => ThirdLine(b, q, 4, g, {})
    BY <1>1, Zenon DEF ThirdLine
  <2> QED BY <1>1, <2>1
<1> QED BY <1>1, <1>2, <1>3, <1>4, <1>5, Zenon DEF AnyText

(* Its host is found, and hidden.                                          *)
LEMMA PlainHost ==
    ASSUME NEW b, NEW w, NEW u, NEW h, NEW g, NEW p, NEW q, NEW k, PlainText(b, w, u, h, g, p, q, k)
    PROVE  /\ HostName(b) # << >> /\ HideHost(b) \in Text /\ Len(HideHost(b)) = Len(b)
           /\ \A x \in 1 .. Len(b) :
                 HideHost(b)[x] = IF x \in p + 7 .. p + h + 6 /\ b[x] # Dot THEN Random ELSE b[x]
<1>1. 1 <= h /\ h <= 64
  BY DEF PlainText
<1>2. HostName(b) # << >> /\ AnyHidden(b, h, p)
  BY <1>1, PlainIsAny, AnyHost
<1> QED BY <1>2 DEF AnyHidden

(* Then its URI.                                                           *)
LEMMA PlainUri ==
    ASSUME NEW b, NEW w, NEW u, NEW h, NEW g, NEW p, NEW q, NEW k, PlainText(b, w, u, h, g, p, q, k),
           NEW s, s = HideHost(b)
    PROVE  /\ ~ (Find(s, "GET") = 0 /\ Find(s, "POST") = 0) /\ UriStop(s) = UriEnd(s)
           /\ HideUri(s) \in Text /\ Len(HideUri(s)) = Len(b)
           /\ \A x \in 1 .. Len(b) :
                 HideUri(s)[x] = IF x \in w + 2 .. w + u + 1 /\ b[x] \notin {Dot, Slash} THEN Random ELSE s[x]
<1>1. /\ b \in Text /\ w \in Nat /\ u \in Nat /\ h \in Nat /\ p \in Nat /\ q \in Nat /\ k \in Nat
      /\ p = w + u + 12 /\ FirstLine(b, w, u, Words) /\ q = p + h + 8 /\ k + 2 <= Len(b)
  BY DEF PlainText
<1>2. /\ Len(b) \in Nat /\ q <= k /\ w \in 3 .. 4
      /\ b[1] \in {"GET", "POST"} /\ (b[1] = "GET" => w = 3) /\ (b[1] = "POST" => w = 4)
      /\ \A x \in 2 .. q : x # w + u + 3 /\ x # p + 1 => b[x] \notin Words
      /\ b[w + u + 3] = "HTTP"
      /\ \A x \in 2 .. Len(b) : b[x] # "GET"
  BY PlainWords
<1>3. /\ s \in Text /\ Len(s) = Len(b)
      /\ \A x \in 1 .. Len(b) : s[x] = IF x \in p + 7 .. p + h + 6 /\ b[x] # Dot THEN Random ELSE b[x]
  BY PlainHost
<1>4. PICK n \in Nat : n = Len(b)
  BY <1>2
<1>5. (\A x \in 1 .. p : s[x] = b[x]) /\ \A x \in 2 .. n : s[x] # "GET"
  <2>1. \A x \in 1 .. p : s[x] = b[x]
    BY <1>1, <1>2, <1>3
  <2>2. \A x \in 2 .. n : s[x] # "GET"
    BY <1>2, <1>3, <1>4 DEF Random
  <2> QED BY <2>1, <2>2
<1>6. PICK m \in Words : m = b[1] /\ w = Width[m] /\ m \in {"GET", "POST"}
  BY <1>2, WordFacts
<1>7. Find(s, m) = 1
  <2>1. 1 <= 1 /\ 1 + Width[m] - 1 <= Len(s)
    <3>1. 1 <= 1 /\ 1 + w - 1 <= Len(s)
      BY <1>1, <1>2, <1>3
    <3> QED BY <1>6, <3>1, Zenon
  <2>2. s[1] = m
    BY <1>1, <1>5, <1>6, SMTT(60)
  <2>3. \A x \in 1 .. 1 - 1 : s[x] # m
    OBVIOUS
  <2>4. \A x \in 1 + 1 .. 1 + Width[m] - 1 : s[x] # Random
    <3>1. SUFFICES ASSUME NEW x \in 2 .. w PROVE s[x] # Random
      BY <1>1, <1>6, SMTT(60)
    <3>2. s[x] = b[x]
      BY <1>1, <1>5, <3>1
    <3>3. b[x] = "l"
      BY <1>1, <3>1 DEF FirstLine
    <3> QED BY <3>2, <3>3 DEF Random
  <2> QED BY <1>3, <1>6, <2>1, <2>2, <2>3, <2>4, FindAt
<1>8. m = "POST" => Find(s, "GET") = 0
  <2> SUFFICES ASSUME m = "POST" PROVE Find(s, "GET") = 0
    OBVIOUS
  <2>1. \A x \in 1 .. n : s[x] # "GET"
    <3>1. s[1] # "GET"
      <4>1. 1 \in 1 .. p
        BY <1>1
      <4>2. s[1] = "POST"
        BY <1>5, <1>6, <4>1, Zenon
      <4> QED BY <4>2
    <3>2. SUFFICES ASSUME NEW x \in 1 .. n PROVE s[x] # "GET"
      BY Zenon
    <3>3. x = 1 \/ x \in 2 .. n
      BY <1>4, <3>2
    <3> QED BY <1>5, <3>1, <3>3
  <2> QED BY <1>3, <1>4, <2>1, FindNone
<1>9. Find(s, "GET") # 0 \/ Find(s, "POST") # 0
  BY <1>6, <1>7
<1>10. UriStart(s) = w + 2
  BY <1>2, <1>6, <1>7, <1>8 DEF UriStart
<1>11. PICK from \in Nat, to \in Nat : from = w + 2 /\ to = w + u + 2
  BY <1>1
<1>12. UriEnd(s) = to
  <2>1. from <= to /\ to <= Len(s)
    BY <1>1, <1>2, <1>3, <1>11
  <2>2. s[to] \in {SP}
    <3>1. b[to] = SP
      BY <1>1, <1>11 DEF FirstLine
    <3>2. to \in 1 .. p
      BY <1>1, <1>11
    <3> QED BY <1>5, <3>1, <3>2
  <2>3. \A x \in from .. to - 1 : s[x] \notin {SP}
    <3>1. SUFFICES ASSUME NEW x \in w + 2 .. w + u + 1 PROVE s[x] # SP
      BY <1>1, <1>11
    <3>2. s[x] = b[x]
      BY <1>1, <1>5, <3>1
    <3>3. b[x] \notin Blanks
      BY <3>1, <1>1, Zenon DEF FirstLine
    <3> QED BY <3>2, <3>3 DEF Blanks
  <2>4. EndOf(s, from, {SP}) = to
    BY <1>3, <2>1, <2>2, <2>3, EndAt
  <2> QED BY <1>10, <1>11, <2>4 DEF UriEnd
<1>13. Find(s, "HTTP") = w + u + 3
  <2>1. PICK f \in Nat : f = w + u + 3
    BY <1>1
  <2>2. 1 <= f /\ f + Width["HTTP"] - 1 <= Len(s)
    BY <1>1, <1>2, <1>3, <2>1, WordFacts
  <2>3. s[f] = "HTTP"
    BY <1>1, <1>2, <1>5, <2>1
  <2>4. \A x \in 1 .. f - 1 : s[x] # "HTTP"
    <3>1. SUFFICES ASSUME NEW x \in 1 .. f - 1 PROVE s[x] # "HTTP"
      BY Zenon
    <3>2. s[x] = b[x]
      BY <1>1, <1>5, <2>1, <3>1
    <3>3. x = 1 \/ (x \in 2 .. q /\ x # w + u + 3 /\ x # p + 1)
      BY <1>1, <2>1, <3>1
    <3> QED BY <1>2, <3>2, <3>3, WordFacts
  <2>5. \A x \in f + 1 .. f + Width["HTTP"] - 1 : s[x] # Random
    <3>1. SUFFICES ASSUME NEW x \in w + u + 4 .. w + u + 6 PROVE s[x] # Random
      BY <1>1, <2>1, WordFacts
    <3>2. s[x] = b[x]
      BY <1>1, <1>5, <3>1
    <3>3. b[x] = "l"
      BY <1>1, <3>1, Zenon DEF FirstLine
    <3> QED BY <3>2, <3>3 DEF Random
  <2> QED BY <1>3, <2>1, <2>2, <2>3, <2>4, <2>5, WordFacts, FindAt
<1>14. UriStop(s) = to
  <2>1. PICK a : a = from + n - (IF Find(s, "GET") # 0 THEN 4 ELSE 5) - 1
    OBVIOUS
  <2>2. a \in Int /\ to <= a
    <3>1. a = from + n - 4 - 1 \/ a = from + n - 5 - 1
      BY <2>1
    <3> QED BY <1>1, <1>2, <1>4, <1>11, <3>1
  <2>3. UriStop(s) = Min({to, w + u + 3, a})
    BY <1>3, <1>4, <1>10, <1>11, <1>12, <1>13, <2>1, Zenon DEF UriStop
  <2>4. PICK S : S = {to, w + u + 3, a}
    OBVIOUS
  <2>5. to \in S /\ S \subseteq Int /\ \A y \in S : to <= y
    BY <1>1, <1>11, <2>2, <2>4
  <2>6. Min(S) = to
    BY <2>5, LeastIs
  <2> QED BY <2>3, <2>4, <2>6
<1>15. HideUri(s) = Mask(s, w + 2, w + u + 1, {Dot, Slash})
  <2>1. to - 1 = w + u + 1
    BY <1>1, <1>11
  <2> QED BY <1>10, <1>14, <2>1 DEF HideUri
<1>16. PICK v : v = Mask(s, w + 2, w + u + 1, {Dot, Slash})
  OBVIOUS
<1>17. /\ v \in Text /\ Len(v) = Len(b)
       /\ \A x \in 1 .. Len(b) : v[x] =
             IF w + 2 <= x /\ x <= w + u + 1 /\ s[x] \notin {Dot, Slash} THEN Random ELSE s[x]
  BY <1>3, <1>16, MaskIs
<1>18. ASSUME NEW x \in 1 .. Len(b)
       PROVE  v[x] = IF x \in w + 2 .. w + u + 1 /\ b[x] \notin {Dot, Slash} THEN Random ELSE s[x]
  <2>1. x \in w + 2 .. w + u + 1 => s[x] = b[x]
    BY <1>1, <1>5
  <2>2. x \in w + 2 .. w + u + 1 <=> w + 2 <= x /\ x <= w + u + 1
    BY <1>1, <1>2
  <2> QED BY <1>17, <2>1, <2>2, Zenon
<1> QED BY <1>9, <1>12, <1>14, <1>15, <1>16, <1>17, <1>18

(* And its page.                                                           *)
LEMMA PlainReferer ==
    ASSUME NEW b, NEW w, NEW u, NEW h, NEW g, NEW p, NEW q, NEW k, PlainText(b, w, u, h, g, p, q, k),
           NEW s, s = HideUri(HideHost(b))
    PROVE  \A x \in 1 .. Len(b) :
              HideReferer(s)[x] = IF x \in q + 17 .. q + g + 16 /\ b[x] \notin {Dot, Slash} THEN Random ELSE s[x]
<1>1. /\ b \in Text /\ w \in Nat /\ u \in Nat /\ h \in Nat /\ g \in Nat /\ p \in Nat /\ q \in Nat /\ k \in Nat
      /\ p = w + u + 12 /\ q = p + h + 8 /\ k + 2 <= Len(b)
      /\ (g # 0 => k = q + g + 18 /\ ThirdLine(b, q, 4, g, Words) /\ g <= 65)
  BY DEF PlainText
<1>2. /\ Len(b) \in Nat /\ q <= k
      /\ \A x \in 1 .. Len(b) : x # q + 1 => b[x] # "REFER"
      /\ (g = 0 => b[q + 1] # "REFER")
  BY PlainWords
<1>3. PICK t : t = HideHost(b)
  OBVIOUS
<1>4. \A x \in 1 .. Len(b) : t[x] = IF x \in p + 7 .. p + h + 6 /\ b[x] # Dot THEN Random ELSE b[x]
  BY <1>3, PlainHost
<1>5. /\ s \in Text /\ Len(s) = Len(b)
      /\ \A x \in 1 .. Len(b) :
            s[x] = IF x \in w + 2 .. w + u + 1 /\ b[x] \notin {Dot, Slash} THEN Random ELSE t[x]
  BY <1>3, PlainUri
<1>6. /\ \A x \in q + 1 .. Len(b) : s[x] = b[x]
      /\ \A x \in 1 .. Len(b) : s[x] = b[x] \/ s[x] = Random
  <2>1. \A x \in q + 1 .. Len(b) : s[x] = b[x]
    <3>1. SUFFICES ASSUME NEW x \in q + 1 .. Len(b) PROVE s[x] = b[x]
      BY Zenon
    <3>2. x \in 1 .. Len(b) /\ x \notin w + 2 .. w + u + 1 /\ x \notin p + 7 .. p + h + 6
      BY <1>1, <1>2, <3>1
    <3> QED BY <1>4, <1>5, <3>2, Zenon
  <2>2. \A x \in 1 .. Len(b) : s[x] = b[x] \/ s[x] = Random
    BY <1>4, <1>5, Zenon
  <2> QED BY <2>1, <2>2
<1>7. CASE g = 0
  <2>1. \A x \in 1 .. Len(s) : s[x] # "REFER"
    BY <1>2, <1>5, <1>6, <1>7 DEF Random
  <2>2. Find(s, "REFER") = 0
    BY <1>5, <2>1, FindNone
  <2>3. HideReferer(s) = s
    BY <2>2 DEF HideReferer
  <2>4. q + 17 .. q + g + 16 = {}
    BY <1>1, <1>7
  <2> QED BY <2>3, <2>4
<1>8. CASE g # 0
  <2>1. /\ k = q + g + 18 /\ g <= 65 /\ b[q + 1] = "REFER" /\ b[q + g + 17] = CR
        /\ \A x \in q + 2 .. q + 7 : b[x] = "l"
        /\ \A x \in q + 17 .. q + g + 16 : b[x] \notin Blanks
    <3>1. ThirdLine(b, q, 4, g, Words)
      BY <1>1, <1>8
    <3>2. /\ b[q + 1] = "REFER" /\ b[q + 4 + g + 13] = CR /\ (\A x \in q + 2 .. q + 7 : b[x] = "l")
          /\ \A x \in q + 4 + 13 .. q + 4 + g + 12 : b[x] \notin Blanks
      BY <3>1, Zenon DEF ThirdLine
    <3>3. q + 4 + g + 13 = q + g + 17 /\ q + 4 + 13 = q + 17 /\ q + 4 + g + 12 = q + g + 16
      BY <1>1
    <3>4. k = q + g + 18 /\ g <= 65
      BY <1>1, <1>8
    <3> QED BY <3>2, <3>3, <3>4, Zenon
  <2>2. Find(s, "REFER") = q + 1
    <3>1. PICK f \in Nat : f = q + 1
      BY <1>1
    <3>2. 1 <= f /\ f + Width["REFER"] - 1 <= Len(s)
      BY <1>1, <1>5, <2>1, <3>1, WordFacts
    <3>3. s[f] = "REFER"
      BY <1>1, <1>2, <1>6, <2>1, <3>1, SMTT(60)
    <3>4. \A x \in 1 .. f - 1 : s[x] # "REFER"
      BY <1>1, <1>2, <1>6, <3>1, SMTT(60) DEF Random
    <3>5. \A x \in f + 1 .. f + Width["REFER"] - 1 : s[x] # Random
      <4>1. SUFFICES ASSUME NEW x \in q + 2 .. q + 7 PROVE s[x] # Random
        BY <1>1, <3>1, WordFacts
      <4>2. s[x] = b[x]
        BY <1>1, <1>2, <1>6, <2>1, <4>1
      <4> QED BY <2>1, <4>2 DEF Random
    <3> QED BY <1>5, <3>1, <3>2, <3>3, <3>4, <3>5, WordFacts, FindAt
  <2>3. PICK from \in Nat, to \in Nat, n \in Nat : from = q + 17 /\ to = q + g + 17 /\ n = Len(b)
    <3>1. q + 17 \in Nat /\ q + g + 17 \in Nat
      BY <1>1
    <3> QED BY <1>2, <3>1, Zenon
  <2>4. EndOf(s, from, EndOfField) = to
    <3>1. from <= to /\ to <= Len(s)
      BY <1>1, <1>2, <1>5, <2>1, <2>3
    <3>2. s[to] \in EndOfField
      <4>1. to \in q + 1 .. Len(b)
        BY <1>1, <1>2, <2>1, <2>3
      <4> QED BY <1>6, <2>1, <2>3, <4>1 DEF EndOfField
    <3>3. \A x \in from .. to - 1 : s[x] \notin EndOfField
      <4>1. SUFFICES ASSUME NEW x \in q + 17 .. q + g + 16 PROVE s[x] \notin EndOfField
        BY <1>1, <2>3
      <4>2. x \in q + 1 .. Len(b)
        BY <1>1, <1>2, <2>1, <4>1
      <4> QED BY <1>6, <2>1, <4>2 DEF EndOfField, Blanks
    <3> QED BY <1>5, <3>1, <3>2, <3>3, EndAt
  <2>5. PICK S : S = {to, from + n - 17, from + 65}
    OBVIOUS
  <2>6. to \in S /\ S \subseteq Int /\ \A y \in S : to <= y
    BY <1>1, <1>2, <2>1, <2>3, <2>5
  <2>7. Min(S) = to
    BY <2>6, LeastIs
  <2>8. HideReferer(s) = Mask(s, q + 17, q + g + 16, {Dot, Slash})
    <3>1. Find(s, "REFER") # 0 /\ Find(s, "REFER") + 16 = from
      BY <1>1, <2>2, <2>3
    <3>2. HideReferer(s) = Mask(s, from, to - 1, {Dot, Slash})
      BY <1>5, <2>3, <2>4, <2>5, <2>7, <3>1, Zenon DEF HideReferer
    <3>3. to - 1 = q + g + 16
      BY <1>1, <2>3
    <3> QED BY <2>3, <3>2, <3>3
  <2>9. PICK v : v = Mask(s, q + 17, q + g + 16, {Dot, Slash})
    OBVIOUS
  <2>10. \A x \in 1 .. Len(b) : v[x] =
             IF q + 17 <= x /\ x <= q + g + 16 /\ s[x] \notin {Dot, Slash} THEN Random ELSE s[x]
    BY <1>5, <2>9, MaskIs
  <2>11. ASSUME NEW x \in 1 .. Len(b)
         PROVE  v[x] = IF x \in q + 17 .. q + g + 16 /\ b[x] \notin {Dot, Slash} THEN Random ELSE s[x]
    <3>1. x \in q + 17 .. q + g + 16 => s[x] = b[x]
      BY <1>1, <1>2, <1>6
    <3>2. x \in q + 17 .. q + g + 16 <=> q + 17 <= x /\ x <= q + g + 16
      BY <1>1, <1>2
    <3> QED BY <2>10, <3>1, <3>2, Zenon
  <2> QED BY <2>8, <2>9, <2>11
<1> QED BY <1>7, <1>8

(* What becomes of it.                                                     *)
LEMMA PlainBytes ==
    ASSUME NEW b, NEW w, NEW u, NEW h, NEW g, NEW p, NEW q, NEW k, PlainText(b, w, u, h, g, p, q, k)
    PROVE  \A x \in 1 .. Len(b) :
              Hidden(b, TRUE)[x] =
                  IF x \in w + 2 .. w + u + 1 \cup p + 7 .. p + h + 6 \cup q + 17 .. q + g + 16
                     /\ b[x] \notin {Dot, Slash}
                  THEN Random ELSE b[x]
<1>1. /\ w \in Nat /\ u \in Nat /\ h \in Nat /\ g \in Nat /\ p \in Nat /\ q \in Nat /\ p = w + u + 12
      /\ SecondLine(b, p, h, Words) /\ q = p + h + 8
  BY DEF PlainText
<1>2. PICK s, t : s = HideHost(b) /\ t = HideUri(s)
  OBVIOUS
<1>3. /\ HostName(b) # << >>
      /\ \A x \in 1 .. Len(b) : s[x] = IF x \in p + 7 .. p + h + 6 /\ b[x] # Dot THEN Random ELSE b[x]
  BY <1>2, PlainHost
<1>4. /\ ~ (Find(s, "GET") = 0 /\ Find(s, "POST") = 0) /\ UriStop(s) = UriEnd(s)
      /\ \A x \in 1 .. Len(b) :
            t[x] = IF x \in w + 2 .. w + u + 1 /\ b[x] \notin {Dot, Slash} THEN Random ELSE s[x]
  BY <1>2, PlainUri
<1>5. \A x \in 1 .. Len(b) :
          HideReferer(t)[x] = IF x \in q + 17 .. q + g + 16 /\ b[x] \notin {Dot, Slash} THEN Random ELSE t[x]
  BY <1>2, PlainReferer
<1>6. Hidden(b, TRUE) = HideReferer(t)
  BY <1>2, <1>3, <1>4, Zenon DEF Hidden
<1>7. \A x \in p + 7 .. p + h + 6 : b[x] # Slash
  BY <1>1 DEF SecondLine
<1>8. ASSUME NEW x \in 1 .. Len(b)
      PROVE  HideReferer(t)[x] =
                 IF x \in w + 2 .. w + u + 1 \cup p + 7 .. p + h + 6 \cup q + 17 .. q + g + 16
                    /\ b[x] \notin {Dot, Slash}
                 THEN Random ELSE b[x]
  <2>1. /\ x \in p + 7 .. p + h + 6 => x \notin w + 2 .. w + u + 1 /\ x \notin q + 17 .. q + g + 16
        /\ x \in p + 7 .. p + h + 6 => (b[x] # Dot <=> b[x] \notin {Dot, Slash})
    BY <1>1, <1>7
  <2>2. HideReferer(t)[x] = IF x \in q + 17 .. q + g + 16 /\ b[x] \notin {Dot, Slash} THEN Random ELSE t[x]
    BY <1>5
  <2>3. t[x] = IF x \in w + 2 .. w + u + 1 /\ b[x] \notin {Dot, Slash} THEN Random ELSE s[x]
    BY <1>4
  <2>4. s[x] = IF x \in p + 7 .. p + h + 6 /\ b[x] # Dot THEN Random ELSE b[x]
    BY <1>3
  <2>5. PICK A, B, C : A = w + 2 .. w + u + 1 /\ B = p + 7 .. p + h + 6 /\ C = q + 17 .. q + g + 16
    OBVIOUS
  <2>6. HideReferer(t)[x] = IF x \in A \cup B \cup C /\ b[x] \notin {Dot, Slash} THEN Random ELSE b[x]
    BY <2>1, <2>2, <2>3, <2>4, <2>5, Zenon
  <2> QED BY <2>5, <2>6, Zenon
<1> QED BY <1>6, <1>8, Zenon

(* No part of a text has a word that the text has not.                     *)
LEMMA SpellsParts ==
    ASSUME NEW s \in Text, NEW t \in Text, NEW V, ~ Spells(s \o t, V)
    PROVE  ~ Spells(s, V) /\ ~ Spells(t, V)
<1>1. PICK b : b = s \o t /\ Cat(b, s, t)
  BY Put, Zenon
<1>2. DOMAIN b = 1 .. Len(b) /\ DOMAIN s = 1 .. Len(s) /\ DOMAIN t = 1 .. Len(t) /\ Len(s) \in Nat /\ Len(t) \in Nat
  BY <1>1, TextIs DEF Cat
<1>3. Has(b, 0, s, Len(s)) /\ Has(b, Len(s), t, Len(t)) /\ Len(b) = Len(s) + Len(t)
  BY <1>1, CarriedAll, Zenon DEF Cat
<1>4. \A x \in 1 .. Len(b) : b[x] \notin V
  BY <1>1, <1>2 DEF Spells
<1>5. \A x \in 1 .. Len(s) : s[x] \notin V
  <2>1. SUFFICES ASSUME NEW x \in 1 .. Len(s) PROVE s[x] \notin V
    BY Zenon
  <2>2. x \in 1 .. Len(b) /\ 0 + x = x
    BY <1>2, <1>3
  <2>3. b[0 + x] = s[x]
    BY <1>3 DEF Has
  <2> QED BY <1>4, <2>2, <2>3
<1>6. \A x \in 1 .. Len(t) : t[x] \notin V
  <2>1. SUFFICES ASSUME NEW x \in 1 .. Len(t) PROVE t[x] \notin V
    BY Zenon
  <2>2. Len(s) + x \in 1 .. Len(b)
    BY <1>2, <1>3
  <2>3. b[Len(s) + x] = t[x]
    BY <1>3 DEF Has
  <2> QED BY <1>4, <2>2, <2>3
<1> QED BY <1>2, <1>5, <1>6 DEF Spells

(* A plain request is one.                                                 *)
LEMMA PlainIs ==
    ASSUME NEW r, WellFormed(r), Plain(r)
    PROVE  /\ PlainText(Wire(r), Width[r.method], Len(r.uri), Len(r.host), Len(r.page), End1(r), End2(r), End3(r))
           /\ Len(RequestLine(r)) = End1(r)
<1>1. PICK w \in Nat, u \in Nat, h \in Nat, g \in Nat, c \in Nat :
         w = Width[r.method] /\ u = Len(r.uri) /\ h = Len(r.host) /\ g = Len(r.page) /\ c = Len(r.scheme)
  <2>1. /\ Width[r.method] \in 3 .. 4 /\ Len(r.uri) \in Nat /\ Len(r.host) \in Nat /\ Len(r.page) \in Nat
        /\ Len(r.scheme) \in 4 .. 5
    BY EndsTyped, Zenon
  <2>2. 3 .. 4 \subseteq Nat /\ 4 .. 5 \subseteq Nat
    OBVIOUS
  <2> QED BY <2>1, <2>2, Zenon
<1>2. PICK p \in Nat, q \in Nat, k \in Nat : p = End1(r) /\ q = End2(r) /\ k = End3(r)
  BY EndsTyped, Zenon
<1>3. p = w + u + 12 /\ q = p + h + 8
  <2>1. End1(r) = Width[r.method] + Len(r.uri) + 12 /\ End2(r) = End1(r) + Len(r.host) + 8
    BY EndsTyped, Zenon
  <2> QED BY <1>1, <1>2, <2>1, Zenon
<1>4. c = 4
  BY <1>1, HttpSpelled DEF Plain
<1>5. r.uri \in Text /\ r.host \in Text /\ r.page \in Text /\ r.body \in Text
  BY Typed DEF FieldsTyped
<1>6. ~ Spells(r.uri, Words) /\ ~ Spells(r.host, Words) /\ ~ Spells(r.page, Words)
  <2>1. PICK uri \in Text, host \in Text, page \in Text : uri = r.uri /\ host = r.host /\ page = r.page
    BY <1>5
  <2>2. ~ Spells((uri \o host) \o page, Words)
    BY <2>1 DEF Plain
  <2>3. PICK s \in Text : s = uri \o host
    BY Joined
  <2>4. ~ Spells(s, Words) /\ ~ Spells(page, Words)
    BY <2>2, <2>3, SpellsParts
  <2>5. ~ Spells(uri, Words) /\ ~ Spells(host, Words)
    BY <2>3, <2>4, SpellsParts
  <2> QED BY <2>1, <2>4, <2>5
<1>7. PICK b : b = Wire(r)
  OBVIOUS
<1>8. FirstLine(b, w, u, Words) /\ b[1] # "HEAD"
  <2>1. FirstLine(Wire(r), Width[r.method], Len(r.uri), Words) /\ Wire(r)[1] = r.method
    BY <1>6, FirstLineFacts
  <2>2. r.method # "HEAD"
    BY DEF Plain
  <2> QED BY <1>1, <1>7, <2>1, <2>2, Zenon
<1>9. SecondLine(b, p, h, Words)
  <2>1. SecondLine(Wire(r), End1(r), Len(r.host), Words)
    BY <1>6, SecondLineFacts
  <2> QED BY <1>1, <1>2, <1>7, <2>1, Zenon
<1>10. 1 <= h /\ h <= 64
  <2>1. Len(r.host) \in Nat \ {0}
    BY <1>5, EmptySeq DEF Text, Plain
  <2>2. Len(r.host) <= 64
    BY DEF Plain
  <2>3. h \in Nat \ {0} /\ h <= 64
    BY <1>1, <2>1, <2>2, Zenon
  <2> QED BY <2>3
<1>11. g = 0 => k = q
  <2> SUFFICES ASSUME g = 0 PROVE k = q
    OBVIOUS
  <2>1. r.page = << >>
    BY <1>1, <1>5, EmptySeq DEF Text
  <2> QED BY <1>2, <2>1, EndsTyped, Zenon
<1>12. g # 0 => k = q + g + 18 /\ ThirdLine(b, q, 4, g, Words) /\ g <= 65
  <2> SUFFICES ASSUME g # 0 PROVE k = q + g + 18 /\ ThirdLine(b, q, 4, g, Words) /\ g <= 65
    OBVIOUS
  <2>1. r.page # << >>
    BY <1>1, <1>5, EmptySeq
  <2>2. ThirdLine(Wire(r), End2(r), Len(r.scheme), Len(r.page), Words)
    BY <1>6, <2>1, ThirdLineFacts
  <2>3. ThirdLine(b, q, 4, g, Words)
    BY <1>1, <1>2, <1>4, <1>7, <2>2, Zenon
  <2>4. End3(r) = End2(r) + Len(r.scheme) + Len(r.page) + 14
    BY <2>1, EndsTyped, Zenon
  <2>5. k = q + c + g + 14
    BY <1>1, <1>2, <2>4, Zenon
  <2>6. g <= 65
    <3>1. Len(r.page) <= 65
      BY DEF Plain
    <3> QED BY <1>1, <3>1, Zenon
  <2> QED BY <1>4, <2>3, <2>5, <2>6
<1>13. b \in Text /\ k + 2 <= Len(b)
  <2>1. Wire(r) \in Text /\ Len(Wire(r)) = End3(r) + 2 + Len(r.body)
    BY LinesFacts
  <2>2. PICK d \in Nat : d = Len(r.body)
    BY EndsTyped
  <2>3. Len(b) = k + 2 + d
    BY <1>2, <1>7, <2>1, <2>2, Zenon
  <2>4. k + 2 <= Len(b)
    BY <2>3
  <2> QED BY <1>7, <2>1, <2>4, Zenon
<1>14. b[k + 1] = CR /\ b[k + 2] = LF /\ \A x \in k + 3 .. Len(b) : b[x] \notin {"GET", "REFER"}
  <2>1. ~ Spells(r.body, {"GET", "REFER"})
    BY DEF Plain
  <2>2. /\ Wire(r)[End3(r) + 1] = CR /\ Wire(r)[End3(r) + 2] = LF
        /\ \A x \in End3(r) + 3 .. Len(Wire(r)) : Wire(r)[x] \notin {"GET", "REFER"}
    BY <2>1, BodyFacts
  <2> QED BY <1>2, <1>7, <2>2, Zenon
<1>15. PlainText(b, w, u, h, g, p, q, k)
  BY <1>3, <1>8, <1>9, <1>10, <1>11, <1>12, <1>13, <1>14, Zenon DEF PlainText
<1>16. Len(RequestLine(r)) = p
  <2>1. Len(RequestLine(r)) = Width[r.method] + Len(r.uri) + 12
    BY RequestLineFacts
  <2> QED BY <1>1, <1>3, <2>1, Zenon
<1> QED BY <1>1, <1>2, <1>7, <1>15, <1>16, Zenon

(* Of every plain request the URI, the host and the page are hidden, and   *)
(* nothing else.                                                           *)
LEMMA PlainHides == PlainHidden
<1>1. SUFFICES ASSUME NEW r \in Request, Plain(r)
               PROVE  \A x \in DOMAIN Wire(r) :
                         Hidden(Wire(r), TRUE)[x] =
                            IF x \in Fields(r) /\ Wire(r)[x] \notin {Dot, Slash} THEN Random ELSE Wire(r)[x]
  BY Zenon DEF PlainHidden
<1>2. WellFormed(r)
  BY RequestAssumption
<1>3. PICK b, w, u, h, g, p, q, k :
         /\ b = Wire(r) /\ w = Width[r.method] /\ u = Len(r.uri) /\ h = Len(r.host) /\ g = Len(r.page)
         /\ p = End1(r) /\ q = End2(r) /\ k = End3(r)
  OBVIOUS
<1>4. PlainText(b, w, u, h, g, p, q, k) /\ Len(RequestLine(r)) = p
  BY <1>1, <1>2, <1>3, PlainIs
<1>5. DOMAIN b = 1 .. Len(b)
  BY <1>4, TextIs DEF PlainText
<1>6. Fields(r) = w + 2 .. w + u + 1 \cup p + 7 .. p + h + 6 \cup q + 17 .. q + g + 16
  <2>1. Len(RequestLine(r) \o HostLine(r) \o RefererLine(r)) = k
    BY <1>2, <1>3, LinesFacts
  <2>2. Fields(r) = (w + 2) .. ((w + 2) + u - 1) \cup (p + 4 + 3) .. ((p + 4 + 3) + h - 1)
                        \cup (k - 1 - g) .. ((k - 1 - g) + g - 1)
    BY <1>3, <1>4, <2>1, WordFacts, Zenon DEF Fields
  <2>3. /\ w \in Nat /\ u \in Nat /\ h \in Nat /\ g \in Nat /\ p \in Nat /\ q \in Nat /\ k \in Nat
        /\ (g = 0 => k = q) /\ (g # 0 => k = q + g + 18)
    BY <1>4 DEF PlainText
  <2>4. (w + 2) .. ((w + 2) + u - 1) = w + 2 .. w + u + 1 /\ (p + 4 + 3) .. ((p + 4 + 3) + h - 1) = p + 7 .. p + h + 6
    BY <2>3
  <2>5. (k - 1 - g) .. ((k - 1 - g) + g - 1) = q + 17 .. q + g + 16
    <3>1. CASE g = 0
      BY <2>3, <3>1
    <3>2. CASE g # 0
      <4>1. k - 1 - g = q + 17 /\ (k - 1 - g) + g - 1 = q + g + 16
        BY <2>3, <3>2
      <4> QED BY <4>1
    <3> QED BY <3>1, <3>2
  <2> QED BY <2>2, <2>4, <2>5
<1>7. \A x \in 1 .. Len(b) :
          Hidden(b, TRUE)[x] =
              IF x \in w + 2 .. w + u + 1 \cup p + 7 .. p + h + 6 \cup q + 17 .. q + g + 16
                 /\ b[x] \notin {Dot, Slash}
              THEN Random ELSE b[x]
  BY <1>4, PlainBytes, ZenonT(60)
<1> QED BY <1>3, <1>5, <1>6, <1>7, Zenon

-----------------------------------------------------------------------------
(* The lines of any request.                                               *)

(* A place that is found is a number.                                      *)
LEMMA FindTyped ==
    ASSUME NEW b \in Text, NEW w \in Words
    PROVE  Find(b, w) \in Nat /\ Find(b, w) <= Len(b)
<1>1. CASE Find(b, w) = 0
  BY <1>1, TextIs
<1>2. CASE Find(b, w) # 0
  <2>1. PICK f : f = Find(b, w)
    OBVIOUS
  <2>2. f \in 1 .. Len(b) /\ Len(b) \in Nat
    BY <1>2, <2>1, FoundIs, TextIs
  <2> QED BY <2>1, <2>2
<1> QED BY <1>1, <1>2

(* A field ends before the first byte that ends it.                        *)
LEMMA EndBefore ==
    ASSUME NEW b \in Text, NEW S, NEW p \in Nat
    PROVE  /\ EndOf(b, p, S) \in Nat
           /\ \A q \in p .. Len(b) : b[q] \in S => EndOf(b, p, S) <= q
<1>1. Len(b) \in Nat
  BY TextIs
<1> DEFINE Ends == {x \in p .. Len(b) : b[x] \in S} \cup {Len(b) + 1}
<1>2. Ends \in SUBSET Nat /\ Ends # {}
  BY <1>1
<1>3. Min(Ends) \in Ends /\ \A y \in Ends : Min(Ends) <= y
  BY <1>2, LeastOf
<1>4. \A q \in p .. Len(b) : b[q] \in S => q \in Ends
  BY <1>1
<1>5. EndOf(b, p, S) = Min(Ends)
  BY DEF EndOf
<1> QED BY <1>2, <1>3, <1>4, <1>5

(* What is hidden as its URI is not behind the space after its URI.        *)
LEMMA AnyUri ==
    ASSUME NEW b, NEW w, NEW u, NEW h, NEW c, NEW g, NEW p, NEW q, NEW k, AnyText(b, w, u, h, c, g, p, q, k),
           HostName(b) # << >>, NEW s, s = HideHost(b)
    PROVE  /\ HideUri(s) \in Text /\ Len(HideUri(s)) = Len(b)
           /\ \A x \in 1 .. Len(b) : /\ HideUri(s)[x] \in {s[x], Random}
                                     /\ x >= w + u + 3 => HideUri(s)[x] = s[x]
<1>1. /\ b \in Text /\ w \in Nat /\ u \in Nat /\ h \in Nat /\ p \in Nat /\ q \in Nat /\ k \in Nat
      /\ FirstLine(b, w, u, {"HOST"}) /\ p = w + u + 12 /\ q = p + h + 8 /\ k + 2 <= Len(b)
  BY DEF AnyText
<1>2. Len(b) \in Nat /\ q <= k
  BY <1>1, TextIs, AnyEnds
<1>3. /\ s \in Text /\ Len(s) = Len(b)
      /\ \A x \in 1 .. Len(b) : s[x] = IF x \in p + 7 .. p + h + 6 /\ b[x] # Dot THEN Random ELSE b[x]
  BY AnyHost DEF AnyHidden
<1>4. Find(s, "HTTP") <= w + u + 3 /\ Find(s, "HTTP") \in Nat
  <2>1. Find(s, "HTTP") \in Nat
    BY <1>3, FindTyped, WordFacts
  <2>2. CASE Find(s, "HTTP") = 0
    BY <1>1, <2>2
  <2>3. CASE Find(s, "HTTP") # 0
    <3>1. PICK f \in Nat : f = w + u + 3
      BY <1>1
    <3>2. \A x \in 1 .. p : s[x] = b[x]
      BY <1>1, <1>2, <1>3
    <3>3. f \in 1 .. Len(s) /\ s[f] = "HTTP"
      <4>1. b[w + u + 3] = "HTTP"
        BY <1>1, Zenon DEF FirstLine
      <4>2. f \in 1 .. p /\ f \in 1 .. Len(s)
        BY <1>1, <1>2, <1>3, <3>1
      <4> QED BY <3>1, <3>2, <4>1, <4>2
    <3>4. ASSUME NEW x \in f .. f + Width["HTTP"] - 1 PROVE x \in 1 .. Len(s) /\ s[x] # Random
      <4>1. x \in f .. f + 3
        BY <3>1, WordFacts
      <4>2. x \in 1 .. p /\ x \in 1 .. Len(s)
        BY <1>1, <1>2, <1>3, <3>1, <4>1
      <4>3. x = f \/ x \in w + u + 4 .. w + u + 6
        BY <1>1, <3>1, <4>1
      <4>4. b[x] = "HTTP" \/ b[x] = "l"
        <5>1. /\ b[w + u + 3] = "HTTP"
              /\ \A y \in w + u + 4 .. w + u + 6 : b[y] = "l"
          BY <1>1, Zenon DEF FirstLine
        <5> QED BY <3>1, <4>3, <5>1
      <4> QED BY <3>2, <4>2, <4>4 DEF Random
    <3>5. Find(s, "HTTP") <= f
      BY <1>3, <2>3, <3>3, <3>4, FoundIs, WordFacts
    <3> QED BY <2>1, <3>1, <3>5
  <2> QED BY <2>1, <2>2, <2>3
<1>5. PICK from \in Nat, a \in Nat, end \in Nat :
         /\ from = UriStart(s) /\ end = UriEnd(s)
         /\ a = UriStart(s) + Len(s) - (IF Find(s, "GET") # 0 THEN 4 ELSE 5) - 1
  <2>1. PICK x \in Nat, y \in Nat, n \in Nat : x = Find(s, "GET") /\ y = Find(s, "POST") /\ n = Len(s)
    BY <1>2, <1>3, FindTyped, WordFacts
  <2>2. (x # 0 => UriStart(s) = x + 4) /\ (x = 0 => UriStart(s) = y + 5)
    BY <2>1 DEF UriStart
  <2>3. UriStart(s) \in Nat
    BY <2>2
  <2>4. UriEnd(s) \in Nat
    BY <1>3, <2>3, EndBefore DEF UriEnd
  <2>5. CASE x # 0
    <3>1. x + 4 + n - 4 - 1 \in Nat
      BY <2>5
    <3> QED BY <2>1, <2>2, <2>3, <2>4, <2>5, <3>1
  <2>6. CASE x = 0
    <3>1. y + 5 + n - 5 - 1 \in Int /\ (n # 0 => y + 5 + n - 5 - 1 \in Nat)
      OBVIOUS
    <3>2. n # 0
      BY <1>1, <1>2, <1>3, <2>1
    <3> QED BY <2>1, <2>2, <2>3, <2>4, <2>6, <3>1, <3>2
  <2> QED BY <2>5, <2>6
<1>6. UriStop(s) <= w + u + 3 /\ UriStop(s) \in Nat
  <2>1. PICK f \in Nat : f = Find(s, "HTTP") /\ f <= w + u + 3
    BY <1>4
  <2>2. PICK S : S = {end, f, a}
    OBVIOUS
  <2>3. UriStop(s) = Min(S)
    BY <1>5, <2>1, <2>2, Zenon DEF UriStop
  <2>4. S \in SUBSET Nat /\ S # {} /\ f \in S
    BY <2>2
  <2>5. Min(S) \in S /\ Min(S) <= f
    BY <2>4, LeastOf
  <2>6. PICK m \in Nat : m = Min(S)
    BY <2>4, <2>5
  <2>7. m <= w + u + 3
    BY <1>1, <2>1, <2>5, <2>6
  <2> QED BY <2>3, <2>6, <2>7, Zenon
<1>7. PICK to \in Int : to = UriStop(s) - 1 /\ to <= w + u + 2
  BY <1>1, <1>6
<1>8. HideUri(s) = Mask(s, from, to, {Dot, Slash})
  BY <1>5, <1>7 DEF HideUri
<1>9. PICK v : v = Mask(s, from, to, {Dot, Slash})
  OBVIOUS
<1>10. /\ v \in Text /\ Len(v) = Len(b)
       /\ \A x \in 1 .. Len(b) : v[x] = IF from <= x /\ x <= to /\ s[x] \notin {Dot, Slash} THEN Random ELSE s[x]
  BY <1>3, <1>9, MaskIs
<1>11. ASSUME NEW x \in 1 .. Len(b) PROVE v[x] \in {s[x], Random} /\ (x >= w + u + 3 => v[x] = s[x])
  <2>1. x >= w + u + 3 => ~ (x <= to)
    BY <1>1, <1>2, <1>7
  <2> QED BY <1>10, <2>1
<1> QED BY <1>8, <1>9, <1>10, <1>11

(* The first "referer" is in the URI or is the header's, or no header's is *)
(* there and it is in the body.                                            *)
LEMMA AnyReferer ==
    ASSUME NEW b, NEW w, NEW u, NEW h, NEW c, NEW g, NEW p, NEW q, NEW k, AnyText(b, w, u, h, c, g, p, q, k),
           HostName(b) # << >>, NEW t, t = HideUri(HideHost(b)), Find(t, "REFER") # 0
    PROVE  LET f == Find(t, "REFER")
           IN  \/ f + 16 < p
               \/ g # 0 /\ f = q + 1
               \/ f + 16 > k + 2
<1>1. /\ b \in Text /\ w \in Nat /\ w \in 3 .. 4 /\ u \in Nat /\ h \in Nat /\ c \in Nat /\ g \in Nat
      /\ p \in Nat /\ q \in Nat /\ k \in Nat
      /\ FirstLine(b, w, u, {"HOST"}) /\ p = w + u + 12 /\ SecondLine(b, p, h, {}) /\ q = p + h + 8
      /\ (g = 0 => k = q)
      /\ (g # 0 => k = q + c + g + 14 /\ ThirdLine(b, q, c, g, {}))
      /\ k + 2 <= Len(b) /\ b[k + 1] = CR /\ b[k + 2] = LF
  BY DEF AnyText
<1>2. Len(b) \in Nat /\ q <= k
  BY <1>1, TextIs, AnyEnds
<1>3. PICK s : s = HideHost(b)
  OBVIOUS
<1>4. \A x \in 1 .. Len(b) : s[x] = IF x \in p + 7 .. p + h + 6 /\ b[x] # Dot THEN Random ELSE b[x]
  BY <1>3, AnyHost DEF AnyHidden
<1>5. /\ t \in Text /\ Len(t) = Len(b)
      /\ \A x \in 1 .. Len(b) : t[x] \in {s[x], Random} /\ (x >= w + u + 3 => t[x] = s[x])
  BY <1>3, AnyUri
<1>6. PICK f : f = Find(t, "REFER")
  OBVIOUS
<1>7. f \in 1 .. Len(b) /\ t[f] = "REFER" /\ f \in Nat
  <2>1. f \in 1 .. Len(b) /\ t[f] = "REFER"
    BY <1>5, <1>6, FoundIs, WordFacts
  <2> QED BY <2>1
<1>8. s[f] = "REFER"
  BY <1>5, <1>7 DEF Random
<1>9. b[f] = "REFER" /\ f \notin p + 7 .. p + h + 6
  BY <1>4, <1>7, <1>8 DEF Random, Dot
<1>10. CASE f \in 1 .. p
  <2>1. f \in w + 2 .. w + u + 1
    <3> SUFFICES ASSUME f \notin w + 2 .. w + u + 1 PROVE FALSE
      OBVIOUS
    <3>1. f # 1 /\ f # w + u + 3
      BY <1>1, <1>9 DEF FirstLine
    <3>2. f \in 2 .. w + u + 12
      BY <1>1, <1>10, <3>1
    <3>3. b[f] \in Frame
      BY <1>1, <3>1, <3>2, FirstFrame
    <3> QED BY <1>9, <3>3, WordsAre
  <2>2. f + 6 <= w + u + 1
    BY <1>1, <1>9, <2>1 DEF FirstLine
  <2>3. f + 16 < p
    BY <1>1, <1>7, <2>2
  <2> QED BY <1>6, <2>3
<1>11. CASE f \in p + 1 .. q
  <2>1. f # p + 1
    BY <1>1, <1>9 DEF SecondLine
  <2>2. f \in p + 2 .. p + h + 8
    BY <1>1, <1>11, <2>1
  <2>3. b[f] \in Frame
    BY <1>1, <1>9, <2>2, SecondFrame
  <2> QED BY <1>9, <2>3, WordsAre
<1>12. CASE f > q
  <2>1. CASE g = 0
    <3>1. f # k + 1 /\ f # k + 2
      BY <1>1, <1>9 DEF CR, LF
    <3>2. f + 16 > k + 2
      BY <1>1, <1>7, <1>12, <2>1
    <3> QED BY <1>6, <3>2
  <2>2. CASE g # 0
    <3>1. PICK n \in Nat : n = q + 1
      BY <1>1
    <3>2. ThirdLine(b, q, c, g, {}) /\ k = q + c + g + 14
      BY <1>1, <2>2
    <3>3. \A x \in n .. n + 6 : x \in 1 .. Len(t) /\ t[x] = b[x]
      <4>1. SUFFICES ASSUME NEW x \in n .. n + 6 PROVE x \in 1 .. Len(t) /\ t[x] = b[x]
        BY Zenon
      <4>2. x \in 1 .. Len(b) /\ x >= w + u + 3 /\ x \notin p + 7 .. p + h + 6
        BY <1>1, <1>2, <3>1, <3>2, <4>1
      <4> QED BY <1>4, <1>5, <4>2
    <3>4. b[n] = "REFER" /\ \A x \in q + 2 .. q + 7 : b[x] = "l"
      BY <3>1, <3>2 DEF ThirdLine
    <3>5. \A x \in n .. n + 6 : t[x] # Random
      <4>1. SUFFICES ASSUME NEW x \in n .. n + 6 PROVE t[x] # Random
        BY Zenon
      <4>2. x = n \/ x \in q + 2 .. q + 7
        BY <1>1, <3>1, <4>1
      <4>3. t[x] = b[x]
        BY <3>3, <4>1
      <4> QED BY <3>4, <4>2, <4>3 DEF Random
    <3>6. n \in 1 .. Len(t) /\ t[n] = "REFER"
      BY <3>1, <3>3, <3>4
    <3>7. \A x \in n .. n + Width["REFER"] - 1 : x \in 1 .. Len(t) /\ t[x] # Random
      BY <3>1, <3>3, <3>5, WordFacts
    <3>8. f <= n
      BY <1>5, <1>6, <3>6, <3>7, FoundIs, WordFacts, SMTT(60)
    <3>9. f = q + 1
      BY <1>1, <1>7, <1>12, <3>1, <3>8
    <3> QED BY <1>6, <2>2, <3>9
  <2> QED BY <2>1, <2>2
<1>13. f \in 1 .. p \/ f \in p + 1 .. q \/ f > q
  BY <1>1, <1>7
<1> QED BY <1>10, <1>11, <1>12, <1>13

(* Up to position n every end of a line stays.                             *)
EndsStay(b, n) == \A x \in 1 .. n : b[x] \in {CR, LF} => Hidden(b, TRUE)[x] = b[x]

(* They do, up to the body.                                                *)
LEMMA AnyBytes ==
    ASSUME NEW b, NEW w, NEW u, NEW h, NEW c, NEW g, NEW p, NEW q, NEW k, AnyText(b, w, u, h, c, g, p, q, k)
    PROVE  EndsStay(b, k + 2)
<1> SUFFICES ASSUME NEW x \in 1 .. k + 2, b[x] \in {CR, LF} PROVE Hidden(b, TRUE)[x] = b[x]
  BY Zenon DEF EndsStay
<1>1. /\ b \in Text /\ w \in Nat /\ u \in Nat /\ h \in Nat /\ c \in Nat /\ c \in 4 .. 5 /\ g \in Nat
      /\ p \in Nat /\ q \in Nat /\ k \in Nat /\ p = w + u + 12 /\ k + 2 <= Len(b)
      /\ (g # 0 => k = q + c + g + 14 /\ ThirdLine(b, q, c, g, {}))
  BY DEF AnyText
<1>2. /\ Len(b) \in Nat /\ x \in 1 .. Len(b) /\ x >= p - 1 /\ x \notin p + 7 .. p + h + 6
      /\ q <= k /\ \A y \in 1 .. k + 2 : b[y] \in {CR, LF} => y >= p - 1 /\ y \notin p + 7 .. p + h + 6
      /\ (b[x] = LF => x >= p /\ b[x - 1] = CR)
  <2>1. Len(b) \in Nat /\ x \in 1 .. Len(b)
    BY <1>1, TextIs
  <2>2. /\ q <= k /\ (\A y \in 1 .. k + 2 : b[y] \in {CR, LF} => y >= p - 1 /\ y \notin p + 7 .. p + h + 6)
        /\ \A y \in 1 .. k + 2 : b[y] = LF => y >= p /\ b[y - 1] = CR
    BY AnyEnds
  <2> QED BY <2>1, <2>2, Zenon
<1>3. CASE HostName(b) = << >>
  BY <1>3 DEF Hidden
<1>4. CASE HostName(b) # << >>
  <2>1. PICK s, t : s = HideHost(b) /\ t = HideUri(s)
    OBVIOUS
  <2>2. \A y \in 1 .. Len(b) : s[y] = IF y \in p + 7 .. p + h + 6 /\ b[y] # Dot THEN Random ELSE b[y]
    BY <1>4, <2>1, AnyHost DEF AnyHidden
  <2>3. /\ t \in Text /\ Len(t) = Len(b)
        /\ \A y \in 1 .. Len(b) : y >= w + u + 3 => t[y] = s[y]
    BY <1>4, <2>1, AnyUri
  <2>4. ASSUME NEW y \in 1 .. k + 2, b[y] \in {CR, LF} PROVE s[y] = b[y] /\ t[y] = b[y]
    <3>1. y \in 1 .. Len(b) /\ y >= p - 1 /\ y \notin p + 7 .. p + h + 6
      BY <1>1, <1>2, <2>4
    <3>2. y >= w + u + 3
      BY <1>1, <3>1
    <3> QED BY <2>2, <2>3, <3>1, <3>2
  <2>5. s[x] = b[x] /\ t[x] = b[x]
    BY <2>4
  <2>6. HideReferer(t)[x] = b[x]
    <3>1. CASE Find(t, "REFER") = 0
      BY <2>5, <3>1 DEF HideReferer
    <3>2. CASE Find(t, "REFER") # 0
      <4>1. PICK f \in Nat : f = Find(t, "REFER")
        BY <2>3, FindTyped, WordFacts
      <4>2. f + 16 < p \/ (g # 0 /\ f = q + 1) \/ f + 16 > k + 2
        BY <1>4, <2>1, <3>2, <4>1, AnyReferer
      <4>3. PICK start \in Nat, end \in Nat : start = f + 16 /\ end = EndOf(t, start, EndOfField)
        BY <2>3, <4>1, EndBefore
      <4>4. \A y \in start .. Len(t) : t[y] \in EndOfField => end <= y
        BY <2>3, <4>3, EndBefore
      <4>5. PICK stop \in Int : stop = Min({end, start + Len(t) - 17, start + 65}) /\ stop <= end
        <5>1. PICK S : S = {end, start + Len(t) - 17, start + 65}
          OBVIOUS
        <5>2. start + Len(t) - 17 \in Nat
          <6>1. PICK n \in Nat : n = Len(t) /\ n # 0
            BY <1>2, <2>3
          <6>2. start = f + 16 /\ f # 0
            BY <3>2, <4>1, <4>3, Zenon
          <6>3. start + n - 17 \in Nat
            BY <6>1, <6>2
          <6> QED BY <6>1, <6>3, Zenon
        <5>3. S \in SUBSET Nat /\ S # {} /\ end \in S
          BY <5>1, <5>2
        <5>4. Min(S) \in Nat /\ Min(S) <= end
          BY <5>3, LeastOf
        <5>5. PICK m \in Int : m = Min(S) /\ m <= end
          BY <5>4
        <5> QED BY <5>1, <5>5, Zenon
      <4>6. PICK to \in Int : to = stop - 1
        OBVIOUS
      <4>7. HideReferer(t) = Mask(t, start, to, {Dot, Slash})
        BY <3>2, <4>1, <4>3, <4>5, <4>6, Zenon DEF HideReferer
      <4>8. PICK v : v = Mask(t, start, to, {Dot, Slash})
        OBVIOUS
      <4>9. v[x] = IF start <= x /\ x <= to /\ t[x] \notin {Dot, Slash} THEN Random ELSE t[x]
        BY <1>2, <2>3, <4>8, MaskIs
      <4>10. ~ (start <= x /\ x <= to)
        <5> SUFFICES ASSUME start <= x, x <= to PROVE FALSE
          OBVIOUS
        <5>1. x < end
          BY <1>2, <4>5, <4>6
        <5>2. CASE b[x] = CR
          <6>1. x \in start .. Len(t) /\ t[x] \in EndOfField
            BY <1>2, <2>3, <2>5, <5>2 DEF EndOfField
          <6>2. end <= x
            BY <4>4, <6>1
          <6> QED BY <1>2, <5>1, <6>2
        <5>3. CASE b[x] = LF
          <6>1. x >= p /\ b[x - 1] = CR
            BY <1>2, <5>3
          <6>2. PICK y \in Nat : y = x - 1
            BY <1>2
          <6>3. y \in 1 .. k + 2 /\ y \in 1 .. Len(t)
            BY <1>1, <1>2, <2>3, <6>1, <6>2, SMTT(60)
          <6>4. t[y] = CR
            BY <2>4, <6>1, <6>2, <6>3
          <6>5. ~ (start <= y)
            <7> SUFFICES ASSUME start <= y PROVE FALSE
              OBVIOUS
            <7>1. y \in start .. Len(t) /\ t[y] \in EndOfField
              BY <1>2, <6>3, <6>4, <2>3 DEF EndOfField
            <7>2. end <= y
              BY <4>4, <7>1
            <7> QED BY <5>1, <6>2, <7>2
          <6>6. x = f + 16
            BY <4>3, <6>2, <6>5
          <6>7. g # 0 /\ x = q + 17
            BY <1>1, <4>2, <6>1, <6>6
          <6>8. ThirdLine(b, q, c, g, {})
            BY <1>1, <6>7
          <6>9. /\ b[q + c + 12] = Slash
                /\ \A z \in q + c + 13 .. q + c + g + 12 : b[z] \notin Blanks
            BY <6>8, Zenon DEF ThirdLine
          <6>10. x = q + c + 12 \/ x \in q + c + 13 .. q + c + g + 12
            BY <1>1, <6>7
          <6> QED BY <5>3, <6>9, <6>10 DEF Blanks, LF, Slash
        <5> QED BY <5>2, <5>3
      <4> QED BY <2>5, <4>7, <4>8, <4>9, <4>10
    <3> QED BY <3>1, <3>2
  <2> QED BY <1>4, <2>1, <2>5, <2>6, Zenon DEF Hidden
<1> QED BY <1>3, <1>4

(* A request with no "host" in its URI is one.                             *)
LEMMA AnyIs ==
    ASSUME NEW r, WellFormed(r), ~ Spells(r.uri, {"HOST"})
    PROVE  AnyText(Wire(r), Width[r.method], Len(r.uri), Len(r.host), Len(r.scheme), Len(r.page),
                   End1(r), End2(r), End3(r))
<1>1. PICK w \in 3 .. 4, u \in Nat, h \in Nat, g \in Nat, c \in 4 .. 5 :
         w = Width[r.method] /\ u = Len(r.uri) /\ h = Len(r.host) /\ g = Len(r.page) /\ c = Len(r.scheme)
  <2>1. /\ Width[r.method] \in 3 .. 4 /\ Len(r.uri) \in Nat /\ Len(r.host) \in Nat /\ Len(r.page) \in Nat
        /\ Len(r.scheme) \in 4 .. 5
    BY EndsTyped, Zenon
  <2> QED BY <2>1, Zenon
<1>2. PICK p \in Nat, q \in Nat, k \in Nat : p = End1(r) /\ q = End2(r) /\ k = End3(r)
  BY EndsTyped, Zenon
<1>3. p = w + u + 12 /\ q = p + h + 8
  <2>1. End1(r) = Width[r.method] + Len(r.uri) + 12 /\ End2(r) = End1(r) + Len(r.host) + 8
    BY EndsTyped, Zenon
  <2> QED BY <1>1, <1>2, <2>1, Zenon
<1>4. PICK b : b = Wire(r)
  OBVIOUS
<1>5. FirstLine(b, w, u, {"HOST"})
  <2>1. FirstLine(Wire(r), Width[r.method], Len(r.uri), {"HOST"})
    BY FirstLineFacts
  <2> QED BY <1>1, <1>4, <2>1, Zenon
<1>6. SecondLine(b, p, h, {})
  <2>1. ~ Spells(r.host, {})
    BY DEF Spells
  <2>2. SecondLine(Wire(r), End1(r), Len(r.host), {})
    BY <2>1, SecondLineFacts
  <2> QED BY <1>1, <1>2, <1>4, <2>2, Zenon
<1>7. r.page \in Text
  BY Typed DEF FieldsTyped
<1>8. g = 0 => k = q
  <2> SUFFICES ASSUME g = 0 PROVE k = q
    OBVIOUS
  <2>1. r.page = << >>
    BY <1>1, <1>7, EmptySeq DEF Text
  <2> QED BY <1>2, <2>1, EndsTyped, Zenon
<1>9. g # 0 => k = q + c + g + 14 /\ ThirdLine(b, q, c, g, {})
  <2> SUFFICES ASSUME g # 0 PROVE k = q + c + g + 14 /\ ThirdLine(b, q, c, g, {})
    OBVIOUS
  <2>1. r.page # << >>
    BY <1>1, EmptySeq
  <2>2. ThirdLine(Wire(r), End2(r), Len(r.scheme), Len(r.page), {})
    <3>1. ~ Spells(r.page, {})
      BY DEF Spells
    <3> QED BY <2>1, <3>1, ThirdLineFacts
  <2>3. End3(r) = End2(r) + Len(r.scheme) + Len(r.page) + 14
    BY <2>1, EndsTyped, Zenon
  <2> QED BY <1>1, <1>2, <1>4, <2>2, <2>3, Zenon
<1>10. b \in Text /\ k + 2 <= Len(b)
  <2>1. Wire(r) \in Text /\ Len(Wire(r)) = End3(r) + 2 + Len(r.body)
    BY LinesFacts
  <2>2. PICK d \in Nat : d = Len(r.body)
    BY EndsTyped
  <2>3. Len(b) = k + 2 + d
    BY <1>2, <1>4, <2>1, <2>2, Zenon
  <2>4. k + 2 <= Len(b)
    BY <2>3
  <2> QED BY <1>4, <2>1, <2>4, Zenon
<1>11. b[k + 1] = CR /\ b[k + 2] = LF
  <2>1. ~ Spells(r.body, {})
    BY DEF Spells
  <2>2. Wire(r)[End3(r) + 1] = CR /\ Wire(r)[End3(r) + 2] = LF
    BY <2>1, BodyFacts
  <2> QED BY <1>2, <1>4, <2>2, Zenon
<1>12. AnyText(b, w, u, h, c, g, p, q, k)
  BY <1>1, <1>3, <1>5, <1>6, <1>8, <1>9, <1>10, <1>11, Zenon DEF AnyText
<1> QED BY <1>1, <1>2, <1>4, <1>12, Zenon

(* The lines of every request stay.                                        *)
LEMMA LinesHold == LinesStay
<1>1. SUFFICES ASSUME NEW r \in Request, ~ Spells(r.uri, {"HOST"}),
                      NEW x \in 1 .. Len(Wire(r)) - Len(r.body), Wire(r)[x] \in {CR, LF}
               PROVE  Hidden(Wire(r), TRUE)[x] = Wire(r)[x]
  BY Zenon DEF LinesStay
<1>2. WellFormed(r)
  BY RequestAssumption
<1>3. PICK b, w, u, h, c, g, p, q, k :
         /\ b = Wire(r) /\ w = Width[r.method] /\ u = Len(r.uri) /\ h = Len(r.host) /\ g = Len(r.page)
         /\ c = Len(r.scheme) /\ p = End1(r) /\ q = End2(r) /\ k = End3(r)
  OBVIOUS
<1>4. AnyText(b, w, u, h, c, g, p, q, k)
  BY <1>1, <1>2, <1>3, AnyIs
<1>5. x \in 1 .. k + 2
  <2>1. PICK n \in Nat, d \in Nat, y \in Nat : n = Len(b) /\ d = Len(r.body) /\ y = k
    BY <1>2, <1>3, <1>4, EndsTyped, TextIs DEF AnyText
  <2>2. Len(Wire(r)) = End3(r) + 2 + Len(r.body)
    BY <1>2, LinesFacts
  <2>3. n = y + 2 + d /\ x \in 1 .. n - d
    BY <1>1, <1>3, <2>1, <2>2, Zenon
  <2>4. x \in 1 .. y + 2
    BY <2>3
  <2> QED BY <2>1, <2>4
<1>6. b[x] \in {CR, LF}
  BY <1>1, <1>3, Zenon
<1>7. EndsStay(b, k + 2)
  BY <1>4, AnyBytes
<1> QED BY <1>3, <1>5, <1>6, <1>7, Zenon DEF EndsStay

-----------------------------------------------------------------------------
(* A chain without some of its entries.                                    *)

(* How many numbers of S come up to p.                                     *)
Rank(S, p) == Cardinality({q \in S : q <= p})

(* The positions of a finite chain have the ranks from 1 on, each one.     *)
LEMMA RankFacts ==
    ASSUME NEW m \in Nat, NEW S \in SUBSET (1..m)
    PROVE  /\ IsFiniteSet(S) /\ Cardinality(S) \in Nat
           /\ \A p \in Nat : Rank(S, p) \in Nat /\ Rank(S, p) <= Cardinality(S)
           /\ \A p \in S : 1 <= Rank(S, p)
           /\ \A p, r \in S : p < r => Rank(S, p) < Rank(S, r)
           /\ Rank(S, 0) = 0 /\ Rank(S, m) = Cardinality(S)
           /\ \A p \in Nat : Rank(S, p + 1) = Rank(S, p) + (IF p + 1 \in S THEN 1 ELSE 0)
<1> DEFINE Upto(p) == {q \in S : q <= p}
<1>1. IsFiniteSet(S)
  <2>1. 1 \in Int /\ m \in Int
    OBVIOUS
  <2>2. IsFiniteSet(1..m)
    BY ONLY <2>1, FS_Interval, Zenon
  <2> QED BY <2>2, FS_Subset
<1>2. Cardinality(S) \in Nat
  BY <1>1, FS_CardinalityType
<1>3. ASSUME NEW p \in Nat
      PROVE  IsFiniteSet(Upto(p)) /\ Rank(S, p) \in Nat /\ Rank(S, p) <= Cardinality(S)
  <2>1. IsFiniteSet(Upto(p)) /\ Cardinality(Upto(p)) <= Cardinality(S)
    BY <1>1, FS_Subset
  <2>2. Cardinality(Upto(p)) \in Nat
    BY <2>1, FS_CardinalityType
  <2> QED BY <2>1, <2>2 DEF Rank
<1>4. ASSUME NEW p \in S PROVE p \in Nat /\ 1 <= Rank(S, p)
  <2>1. p \in Nat
    BY DEF Upto
  <2>2. Cardinality(Upto(p)) # 0
    <3>1. p \in Upto(p)
      BY <2>1
    <3> QED BY <1>3, <2>1, <3>1, FS_EmptySet
  <2>3. Rank(S, p) \in Nat
    BY <1>3, <2>1
  <2> QED BY <2>1, <2>2, <2>3 DEF Rank
<1>5. ASSUME NEW p \in S, NEW r \in S, p < r PROVE Rank(S, p) < Rank(S, r)
  <2>1. p \in Nat /\ r \in Nat
    BY <1>4
  <2>2. Upto(p) \in SUBSET Upto(r) /\ r \in Upto(r) /\ r \notin Upto(p)
    <3>1. r <= r /\ ~ (r <= p) /\ \A q \in S : q <= p => q <= r
      BY <1>5, <2>1
    <3> QED BY <3>1, Zenon
  <2>3. IsFiniteSet(Upto(r)) /\ Rank(S, p) \in Nat /\ Rank(S, r) \in Nat
    BY <1>3, <2>1
  <2> HIDE DEF Upto
  <2>4. Cardinality(Upto(p)) <= Cardinality(Upto(r)) /\ Cardinality(Upto(p)) # Cardinality(Upto(r))
    BY <2>2, <2>3, FS_Subset
  <2> QED BY <2>3, <2>4 DEF Rank, Upto
<1>6. Rank(S, 0) = 0
  <2>1. Upto(0) = {}
    <3>1. \A q \in S : ~ (q <= 0)
      OBVIOUS
    <3> QED BY <3>1
  <2> QED BY <2>1, FS_EmptySet DEF Rank
<1>7. Rank(S, m) = Cardinality(S)
  <2>1. Upto(m) = S
    <3>1. \A q \in S : q <= m
      OBVIOUS
    <3> QED BY <3>1
  <2> QED BY <2>1 DEF Rank
<1>8. ASSUME NEW p \in Nat
      PROVE  Rank(S, p + 1) = Rank(S, p) + (IF p + 1 \in S THEN 1 ELSE 0)
  <2>1. IsFiniteSet(Upto(p)) /\ Cardinality(Upto(p)) \in Nat
    BY <1>3 DEF Rank
  <2>2. CASE p + 1 \in S
    <3>1. Upto(p + 1) = Upto(p) \cup {p + 1} /\ p + 1 \notin Upto(p)
      <4>1. \A q \in S : q <= p + 1 <=> q <= p \/ q = p + 1
        OBVIOUS
      <4>2. ~ (p + 1 <= p)
        OBVIOUS
      <4> QED BY <2>2, <4>1, <4>2, Zenon
    <3> HIDE DEF Upto
    <3>2. Cardinality(Upto(p) \cup {p + 1}) = Cardinality(Upto(p)) + 1
      BY <2>1, <3>1, FS_AddElement
    <3> QED BY <2>2, <3>1, <3>2 DEF Rank, Upto
  <2>3. CASE p + 1 \notin S
    <3>1. Upto(p + 1) = Upto(p)
      <4>1. \A q \in S : q # p + 1
        BY <2>3
      <4>2. \A q \in S : q <= p + 1 <=> q <= p
        BY <4>1
      <4> QED BY <4>2, Zenon
    <3> HIDE DEF Upto
    <3>2. Cardinality(Upto(p + 1)) = Cardinality(Upto(p)) + 0
      BY <2>1, <3>1
    <3> QED BY <2>3, <3>2 DEF Rank, Upto
  <2> QED BY <2>2, <2>3
<1> QED BY <1>1, <1>2, <1>3, <1>4, <1>5, <1>6, <1>7, <1>8

(* Ranks are taken without gaps: some member of S has rank j.              *)
LEMMA RankOnto ==
    ASSUME NEW m \in Nat, NEW S \in SUBSET (1..m), NEW j \in 1..Cardinality(S)
    PROVE  \E p \in S : Rank(S, p) = j
<1> DEFINE N == {n \in Nat : j <= Rank(S, n)}
<1>1. /\ Cardinality(S) \in Nat /\ j \in Nat /\ 1 <= j
      /\ \A p \in Nat : Rank(S, p) \in Nat
      /\ Rank(S, 0) = 0 /\ Rank(S, m) = Cardinality(S)
      /\ \A p \in Nat : Rank(S, p + 1) = Rank(S, p) + (IF p + 1 \in S THEN 1 ELSE 0)
  BY RankFacts
<1>2. m \in N
  BY <1>1
<1>3. PICK n \in N : \A k \in N : ~ <<k, n>> \in OpToRel(<, Nat)
  <2>1. IsWellFoundedOn(OpToRel(<, Nat), Nat)
    BY NatLessThanWellFounded
  <2>2. N \subseteq Nat
    OBVIOUS
  <2> HIDE DEF N
  <2> QED BY <1>2, <2>1, <2>2, WFMin, Zenon
<1>4. n \in Nat /\ j <= Rank(S, n)
  OBVIOUS
<1>5. n # 0
  BY <1>1, <1>4
<1>6. n - 1 \in Nat /\ (n - 1) + 1 = n
  BY <1>4, <1>5
<1>7. ~ (j <= Rank(S, n - 1))
  <2>1. n - 1 \in Nat /\ n - 1 < n
    BY <1>4, <1>6
  <2>2. <<n - 1, n>> \in OpToRel(<, Nat)
    BY <1>4, <2>1 DEF OpToRel
  <2>3. n - 1 \notin N
    <3> HIDE DEF N
    <3> QED BY <1>3, <2>2
  <2> QED BY <2>1, <2>3
<1>8. Rank(S, n) = Rank(S, n - 1) + (IF n \in S THEN 1 ELSE 0)
  BY <1>1, <1>6
<1>9. n \in S /\ Rank(S, n) = Rank(S, n - 1) + 1
  <2>1. Rank(S, n - 1) \in Nat
    BY <1>1, <1>6
  <2> QED BY <1>4, <1>7, <1>8, <2>1
<1>10. Rank(S, n) = j
  <2>1. Rank(S, n - 1) \in Nat
    BY <1>1, <1>6
  <2> QED BY <1>1, <1>4, <1>7, <1>9, <2>1
<1> QED BY <1>9, <1>10

(* Unlinking keeps the other entries, once each, and a first one in front. *)
LEMMA UnlinkedFacts ==
    ASSUME NEW T, NEW ch \in Seq(T), NEW gone \in SUBSET (1..Len(ch))
    PROVE  /\ Unlinked(ch, gone) \in Seq(T)
           /\ \A j \in 1..Len(Unlinked(ch, gone)) :
                  \E p \in 1..Len(ch) \ gone : Unlinked(ch, gone)[j] = ch[p]
           /\ \A p \in 1..Len(ch) \ gone :
                  \E j \in 1..Len(Unlinked(ch, gone)) : Unlinked(ch, gone)[j] = ch[p]
           /\ (\A p, r \in 1..Len(ch) : ch[p] = ch[r] => p = r)
                  => \A j, k \in 1..Len(Unlinked(ch, gone)) :
                         Unlinked(ch, gone)[j] = Unlinked(ch, gone)[k] => j = k
           /\ Len(ch) # 0 /\ 1 \notin gone
                  => Len(Unlinked(ch, gone)) # 0 /\ Unlinked(ch, gone)[1] = ch[1]
<1> DEFINE S == 1..Len(ch) \ gone
           At1(j) == CHOOSE p \in S : Rank(S, p) = j
           n == Cardinality(S)
           s == [j \in 1..n |-> ch[At1(j)]]
<1>1. Len(ch) \in Nat /\ DOMAIN ch = 1..Len(ch) /\ S \in SUBSET (1..Len(ch))
  OBVIOUS
<1>2. Unlinked(ch, gone) = s
  BY <1>1 DEF Unlinked, Rank
<1>3. /\ n \in Nat
      /\ \A p \in S : Rank(S, p) \in 1..n
      /\ \A p, r \in S : p < r => Rank(S, p) < Rank(S, r)
      /\ Rank(S, 0) = 0
      /\ \A p \in Nat : Rank(S, p + 1) = Rank(S, p) + (IF p + 1 \in S THEN 1 ELSE 0)
  <2>1. \A p \in S : p \in Nat
    BY <1>1
  <2> HIDE DEF S
  <2> QED BY <1>1, <2>1, RankFacts, SMTT(60)
<1>4. ASSUME NEW j \in 1..n PROVE At1(j) \in S /\ Rank(S, At1(j)) = j
  <2> HIDE DEF S
  <2>1. \E p \in S : Rank(S, p) = j
    BY <1>1, RankOnto
  <2> QED BY <2>1
<1>5. ASSUME NEW p \in S PROVE At1(Rank(S, p)) = p
  <2>1. Rank(S, p) \in 1..n
    BY <1>3
  <2>2. At1(Rank(S, p)) \in S /\ Rank(S, At1(Rank(S, p))) = Rank(S, p)
    BY <1>4, <2>1
  <2> DEFINE r == At1(Rank(S, p))
  <2>3. p \in Nat /\ r \in Nat
    BY <1>1, <2>2
  <2>4. r \in S /\ Rank(S, r) = Rank(S, p) /\ Rank(S, p) \in Int
    BY <2>1, <2>2
  <2> HIDE DEF S, r
  <2>5. ~ (p < r) /\ ~ (r < p)
    <3> DEFINE R(q) == Rank(S, q)
    <3>1. p < r => R(p) < R(r)
      BY <1>3, <2>4
    <3>2. r < p => R(r) < R(p)
      BY <1>3, <2>4
    <3>3. R(r) = R(p) /\ R(p) \in Int
      BY <2>4
    <3> HIDE DEF R
    <3> QED BY <3>1, <3>2, <3>3
  <2>6. r = p
    BY <2>3, <2>5
  <2> QED BY <2>6 DEF r
<1>6. ASSUME NEW j \in 1..n PROVE At1(j) \in 1..Len(ch) /\ ch[At1(j)] \in T
  <2>1. At1(j) \in S
    BY <1>4
  <2> HIDE DEF At1
  <2>2. At1(j) \in 1..Len(ch)
    BY <2>1
  <2> QED BY <2>2, ElementOfSeq
<1>7. s \in Seq(T) /\ Len(s) = n /\ \A j \in 1..n : s[j] = ch[At1(j)]
  <2> HIDE DEF At1, n
  <2>1. s \in [1..n -> T]
    BY <1>6
  <2> QED BY <1>3, <2>1, SeqDef, LenProperties
<1>8. \A j \in 1..n : \E p \in S : s[j] = ch[p]
  BY <1>4
<1>9. \A p \in S : \E j \in 1..n : s[j] = ch[p]
  BY <1>3, <1>5
<1>10. ASSUME \A p, r \in 1..Len(ch) : ch[p] = ch[r] => p = r,
              NEW j \in 1..n, NEW k \in 1..n, s[j] = s[k]
       PROVE  j = k
  <2>1. ch[At1(j)] = ch[At1(k)]
    <3> HIDE DEF At1
    <3> QED BY <1>10, <1>7
  <2>2. At1(j) \in 1..Len(ch) /\ At1(k) \in 1..Len(ch)
    BY <1>6
  <2>3. At1(j) = At1(k)
    <3> HIDE DEF At1
    <3> QED BY <1>10, <2>1, <2>2
  <2>4. Rank(S, At1(j)) = j /\ Rank(S, At1(k)) = k
    BY <1>4
  <2> HIDE DEF At1
  <2> QED BY <2>3, <2>4
<1>11. ASSUME Len(ch) # 0, 1 \notin gone PROVE n # 0 /\ s[1] = ch[1]
  <2>1. 1 \in S
    BY <1>1, <1>11
  <2>2. Rank(S, 1) = 1
    <3>1. Rank(S, 0 + 1) = Rank(S, 0) + (IF 0 + 1 \in S THEN 1 ELSE 0)
      BY <1>3
    <3> QED BY <1>3, <2>1, <3>1
  <2>3. 1 \in 1..n /\ At1(1) = 1
    <3>1. Rank(S, 1) \in 1..n /\ At1(Rank(S, 1)) = 1
      <4> HIDE DEF S, n, At1
      <4> QED BY <1>3, <1>5, <2>1
    <3> HIDE DEF S, n, At1
    <3> QED BY <2>2, <3>1
  <2>4. s[1] = ch[1]
    BY <1>7, <2>3
  <2> HIDE DEF n, s
  <2> QED BY <1>3, <2>3, <2>4
<1> HIDE DEF s, n
<1> QED BY <1>2, <1>7, <1>8, <1>9, <1>10, <1>11

-----------------------------------------------------------------------------
(* Flows.                                                                  *)

(* Two tuples that both match a third match each other.                    *)
LEMMA SameFlow ==
    ASSUME NEW x, NEW y, NEW z, Same(z, x), Same(y, x)
    PROVE  Same(z, y) /\ Same(x, z)
BY DEF Same


-----------------------------------------------------------------------------
(* reference_flow.                                                         *)

(* Address m is in the chain of bucket b.                                  *)
Listed(ch, b, m) == \E j \in 1..Len(ch[b]) : ch[b][j] = m

(* A chain starts with the bucket's own entry, no entry is linked twice.   *)
Apart(ch) ==
    /\ \A b \in Bucket : Len(ch[b]) # 0 /\ ch[b][1] = b
    /\ \A b1, b2 \in Bucket : \A j1 \in 1..Len(ch[b1]), j2 \in 1..Len(ch[b2]) :
           ch[b1][j1] = ch[b2][j2] => b1 = b2 /\ j1 = j2

Chains == [Bucket -> Seq(Address)]

(* The garbage of bucket b at time t.                                      *)
Garbage(b, t, gone) ==
    /\ gone \in SUBSET (1..Len(chain[b]))
    /\ \A p \in gone : p # 1 /\ Expired(chain[b][p], t)

Removed(b, gone, m) == \E p \in gone : chain[b][p] = m

(* No entry is twice in one chain.                                         *)
LEMMA ApartWithin ==
    ASSUME NEW ch, Apart(ch), NEW b \in Bucket
    PROVE  \A i, j \in 1..Len(ch[b]) : ch[b][i] = ch[b][j] => i = j
BY DEF Apart

(* The entries in use are those some chain lists.                          *)
LEMMA InUseIsListed ==
    ASSUME NEW ch \in Chains, NEW m
    PROVE  m \in InUse(ch) <=> \E b \in Bucket : Listed(ch, b, m)
<1>1. \A b \in Bucket : DOMAIN ch[b] = 1..Len(ch[b])
  BY DEF Chains
<1>2. m \in InUse(ch) <=> \E b \in Bucket : \E j \in DOMAIN ch[b] : m = ch[b][j]
  BY DEF InUse
<1> QED BY <1>1, <1>2 DEF Listed

(* The bucket's chain after the collection.                                *)
LEMMA KeptFacts ==
    ASSUME chain \in Chains, Apart(chain), NEW b \in Bucket, NEW t, NEW gone, Garbage(b, t, gone),
           NEW s, s = Unlinked(chain[b], gone), NEW ch, ch = [chain EXCEPT ![b] = s]
    PROVE  /\ s \in Seq(Address) /\ ch \in Chains /\ Apart(ch)
           /\ \A a \in Bucket : \A m :
                  Listed(ch, a, m) <=> Listed(chain, a, m) /\ ~ Removed(b, gone, m)
<1>1. chain[b] \in Seq(Address) /\ gone \in SUBSET (1..Len(chain[b]))
  BY DEF Chains, Garbage
<1>2. \A p, r \in 1..Len(chain[b]) : chain[b][p] = chain[b][r] => p = r
  BY ApartWithin, Zenon
<1>3. Len(chain[b]) # 0 /\ chain[b][1] = b /\ 1 \notin gone
  BY DEF Apart, Garbage
<1>4. /\ s \in Seq(Address)
      /\ \A j \in 1..Len(s) : \E p \in 1..Len(chain[b]) \ gone : s[j] = chain[b][p]
      /\ \A p \in 1..Len(chain[b]) \ gone : \E j \in 1..Len(s) : s[j] = chain[b][p]
      /\ \A j, k \in 1..Len(s) : s[j] = s[k] => j = k
      /\ Len(s) # 0 /\ s[1] = b
  <2> DEFINE cb == chain[b]
  <2>1. cb \in Seq(Address) /\ gone \in SUBSET (1..Len(cb)) /\ s = Unlinked(cb, gone)
    BY <1>1
  <2>2. Len(cb) # 0 /\ cb[1] = b /\ 1 \notin gone /\ \A p, r \in 1..Len(cb) : cb[p] = cb[r] => p = r
    BY <1>2, <1>3
  <2> HIDE DEF cb
  <2>3. /\ s \in Seq(Address)
        /\ \A j \in 1..Len(s) : \E p \in 1..Len(cb) \ gone : s[j] = cb[p]
        /\ \A p \in 1..Len(cb) \ gone : \E j \in 1..Len(s) : s[j] = cb[p]
        /\ \A j, k \in 1..Len(s) : s[j] = s[k] => j = k
        /\ Len(s) # 0 /\ s[1] = b
    <3> DEFINE u == Unlinked(cb, gone)
    <3>1. /\ u \in Seq(Address)
          /\ \A j \in 1..Len(u) : \E p \in 1..Len(cb) \ gone : u[j] = cb[p]
          /\ \A p \in 1..Len(cb) \ gone : \E j \in 1..Len(u) : u[j] = cb[p]
          /\ (\A p, r \in 1..Len(cb) : cb[p] = cb[r] => p = r)
                 => \A j, k \in 1..Len(u) : u[j] = u[k] => j = k
          /\ Len(cb) # 0 /\ 1 \notin gone => Len(u) # 0 /\ u[1] = cb[1]
      BY ONLY <2>1, UnlinkedFacts, ZenonT(60)
    <3> HIDE DEF u
    <3>2. \A j, k \in 1..Len(u) : u[j] = u[k] => j = k
      BY <2>2, <3>1
    <3>3. s = u
      BY <2>1 DEF u
    <3> QED BY <2>2, <3>1, <3>2, <3>3
  <2> QED BY <2>3 DEF cb
<1>5. ch \in Chains /\ ch[b] = s /\ \A a \in Bucket : a # b => ch[a] = chain[a]
  BY <1>4 DEF Chains
<1>6. ASSUME NEW m
      PROVE  Listed(ch, b, m) <=> Listed(chain, b, m) /\ ~ Removed(b, gone, m)
  <2>1. ASSUME Listed(ch, b, m) PROVE Listed(chain, b, m) /\ ~ Removed(b, gone, m)
    <3>1. PICK j \in 1..Len(s) : s[j] = m
      BY <1>5, <2>1 DEF Listed
    <3>2. PICK p \in 1..Len(chain[b]) \ gone : s[j] = chain[b][p]
      BY <1>4
    <3>3. \A r \in gone : chain[b][r] # m
      BY <1>1, <1>2, <3>1, <3>2
    <3> QED BY <3>1, <3>2, <3>3 DEF Listed, Removed
  <2>2. ASSUME Listed(chain, b, m), ~ Removed(b, gone, m) PROVE Listed(ch, b, m)
    <3>1. PICK p \in 1..Len(chain[b]) : chain[b][p] = m
      BY <2>2 DEF Listed
    <3>2. p \notin gone
      BY <2>2, <3>1 DEF Removed
    <3> QED BY <1>4, <1>5, <3>1, <3>2 DEF Listed
  <2> QED BY <2>1, <2>2
<1>7. ASSUME NEW a \in Bucket, a # b, NEW m
      PROVE  Listed(ch, a, m) <=> Listed(chain, a, m) /\ ~ Removed(b, gone, m)
  <2>1. Listed(chain, a, m) => ~ Removed(b, gone, m)
    BY <1>1, <1>7 DEF Apart, Listed, Removed
  <2>2. Listed(ch, a, m) <=> Listed(chain, a, m)
    BY <1>5, <1>7 DEF Listed
  <2> QED BY <2>1, <2>2
<1>8. Apart(ch)
  <2>1. \A a \in Bucket : Len(ch[a]) # 0 /\ ch[a][1] = a
    BY <1>4, <1>5 DEF Apart
  <2>2. ASSUME NEW a1 \in Bucket, NEW a2 \in Bucket,
               NEW j1 \in 1..Len(ch[a1]), NEW j2 \in 1..Len(ch[a2]), ch[a1][j1] = ch[a2][j2]
        PROVE  a1 = a2 /\ j1 = j2
    <3>1. CASE a1 = b /\ a2 = b
      <4>1. \A i, j \in 1..Len(s) : s[i] = s[j] => i = j
        BY <1>4, Zenon
      <4>2. ch[a1] = s /\ ch[a2] = s
        BY <1>5, <3>1, Zenon
      <4>3. j1 \in 1..Len(s) /\ j2 \in 1..Len(s) /\ s[j1] = s[j2]
        BY <2>2, <4>2, Zenon
      <4> QED BY ONLY <3>1, <4>1, <4>3, Zenon
    <3>2. CASE a1 # b /\ a2 # b
      BY <1>5, <2>2, <3>2 DEF Apart
    <3>3. CASE a1 # a2
      <4>1. Listed(ch, a1, ch[a1][j1]) /\ Listed(ch, a2, ch[a1][j1])
        BY <2>2 DEF Listed
      <4>2. Listed(chain, a1, ch[a1][j1]) /\ Listed(chain, a2, ch[a1][j1])
        BY <1>6, <1>7, <4>1
      <4> QED BY <3>3, <4>2 DEF Apart, Listed
    <3> QED BY <3>1, <3>2, <3>3
  <2> QED BY <2>1, <2>2 DEF Apart
<1>9. ASSUME NEW a \in Bucket, NEW m
      PROVE  Listed(ch, a, m) <=> Listed(chain, a, m) /\ ~ Removed(b, gone, m)
  <2>1. CASE a = b
    BY <1>6, <2>1, Zenon
  <2>2. CASE a # b
    BY <1>7, <2>2, Zenon
  <2> QED BY <2>1, <2>2, Zenon
<1> QED BY <1>4, <1>5, <1>8, <1>9, Zenon

(* In ch2, n is linked in bucket b too.                                    *)
Links(ch, ch2, b, n) ==
    \A a \in Bucket : \A m : Listed(ch2, a, m) <=> Listed(ch, a, m) \/ (a = b /\ m = n)

(* A chain with another entry behind it.                                   *)
LEMMA AppendedFacts ==
    ASSUME NEW ch \in Chains, Apart(ch), NEW b \in Bucket,
           NEW n \in Address, \A a \in Bucket : ~ Listed(ch, a, n),
           NEW s, s = Append(ch[b], n), NEW ch2, ch2 = [ch EXCEPT ![b] = s]
    PROVE  ch2 \in Chains /\ Apart(ch2) /\ Links(ch, ch2, b, n)
<1> DEFINE l == Len(ch[b]) + 1
<1>1. /\ ch[b] \in Seq(Address) /\ Len(ch[b]) \in Nat
      /\ Append(ch[b], n) \in Seq(Address) /\ Len(Append(ch[b], n)) = l
      /\ \A j \in 1..Len(ch[b]) : Append(ch[b], n)[j] = ch[b][j]
      /\ Append(ch[b], n)[l] = n
  BY DEF Chains
<1>2. ch2 \in Chains /\ ch2[b] = Append(ch[b], n) /\ \A a \in Bucket : a # b => ch2[a] = ch[a]
  BY <1>1 DEF Chains
<1>3. /\ 1..l = 1..Len(ch[b]) \cup {l} /\ l \notin 1..Len(ch[b])
      /\ \A j \in 1..l : j # l => j \in 1..Len(ch[b])
  BY <1>1
<1> HIDE DEF l
<1>4. Len(ch2[b]) = l /\ ch2[b][l] = n /\ \A j \in 1..Len(ch[b]) : ch2[b][j] = ch[b][j]
  BY <1>1, <1>2
<1>5. \A a \in Bucket : \A j \in 1..Len(ch[a]) : j \in 1..Len(ch2[a]) /\ ch2[a][j] = ch[a][j]
  BY <1>2, <1>3, <1>4
<1>6. \A a \in Bucket : \A j \in 1..Len(ch2[a]) :
          \/ j \in 1..Len(ch[a]) /\ ch2[a][j] = ch[a][j]
          \/ a = b /\ j = l /\ ch2[a][j] = n
  BY <1>2, <1>3, <1>4
<1>7. \A a \in Bucket : \A j \in 1..Len(ch[a]) : ch[a][j] # n
  BY DEF Listed
<1>8. Apart(ch2)
  <2>1. ASSUME NEW a \in Bucket PROVE Len(ch2[a]) # 0 /\ ch2[a][1] = a
    <3>1. Len(ch[a]) # 0 /\ ch[a][1] = a /\ Len(ch[a]) \in Nat
      BY DEF Apart, Chains
    <3>2. 1 \in 1..Len(ch[a])
      BY <3>1
    <3>3. Len(ch2[a]) \in Nat /\ 1 \in 1..Len(ch2[a])
      BY <1>2, <1>5, <3>2 DEF Chains
    <3> QED BY <1>5, <3>1, <3>2, <3>3
  <2>2. ASSUME NEW a1 \in Bucket, NEW a2 \in Bucket,
               NEW j1 \in 1..Len(ch2[a1]), NEW j2 \in 1..Len(ch2[a2]), ch2[a1][j1] = ch2[a2][j2]
        PROVE  a1 = a2 /\ j1 = j2
    <3>1. CASE ch2[a1][j1] = n
      BY <1>6, <1>7, <2>2, <3>1
    <3>2. CASE ch2[a1][j1] # n
      <4>1. /\ j1 \in 1..Len(ch[a1]) /\ ch2[a1][j1] = ch[a1][j1]
            /\ j2 \in 1..Len(ch[a2]) /\ ch2[a2][j2] = ch[a2][j2]
        BY <1>6, <2>2, <3>2
      <4> QED BY <2>2, <4>1 DEF Apart
    <3> QED BY <3>1, <3>2
  <2> QED BY <2>1, <2>2 DEF Apart
<1>9. Listed(ch2, b, n)
  BY <1>3, <1>4 DEF Listed
<1>10. \A a \in Bucket : \A m : Listed(ch, a, m) => Listed(ch2, a, m)
  BY <1>5 DEF Listed
<1>11. \A a \in Bucket : \A m : Listed(ch2, a, m) => Listed(ch, a, m) \/ (a = b /\ m = n)
  BY <1>6 DEF Listed
<1>12. Links(ch, ch2, b, n)
  BY <1>9, <1>10, <1>11 DEF Links
<1> QED BY <1>2, <1>8, <1>12


(* What the garbage collection leaves in the entries.                      *)
LEMMA SweptFacts ==
    ASSUME entry \in [Address -> TableFlow], NEW b \in Bucket, NEW gone
    PROVE  /\ Swept(chain[b], gone) \in [Address -> TableFlow]
           /\ \A m \in Address :
                  ~ Removed(b, gone, m) => Swept(chain[b], gone)[m] = entry[m]
<1>1. NewEntry(None, 0) \in TableFlow
  BY DEF NewEntry, TableFlow, Decision
<1> QED BY <1>1 DEF Swept, Removed

(* What a lookup does that the process survives: the core has an entry of  *)
(* its flow, only expired entries are unlinked, and of the other entries   *)
(* in use only expired ones are written.                                   *)
Refreshed(c, m) ==
    Matches(m, pkt[c].tuple) /\ entry'[m] = [entry[m] EXCEPT !.timestamp = pkt[c].time]

Serves(c, n) ==
    /\ flusso' = [flusso EXCEPT ![c] = n] /\ segv' = segv
    /\ chain' \in Chains /\ Apart(chain') /\ entry' \in [Address -> TableFlow]
    /\ Listed(chain', FlowHash[pkt[c].tuple], n)
    /\ entry'[n].tuple # None /\ Same(entry'[n].tuple, pkt[c].tuple)
    /\ entry'[n].timestamp = pkt[c].time
    /\ \A b \in Bucket : \A m \in Address :
           Listed(chain, b, m) /\ ~ Expired(m, pkt[c].time) => Listed(chain', b, m)
    /\ \A b \in Bucket : \A m \in Address :
           Listed(chain, b, m) =>
               \/ entry'[m] = entry[m]
               \/ m = n /\ Refreshed(c, m)
               \/ /\ Expired(m, pkt[c].time)
                  /\ \A a \in Bucket :
                         Listed(chain', a, m) => entry'[m].timestamp = pkt[c].time

Tabled == chain \in Chains /\ Apart(chain) /\ entry \in [Address -> TableFlow]

(* The bucket's own entry is never garbage.                                *)
LEMMA FirstKept ==
    ASSUME chain \in Chains, Apart(chain), NEW b \in Bucket, NEW t, NEW gone, Garbage(b, t, gone)
    PROVE  Listed(chain, b, b) /\ ~ Removed(b, gone, b)
<1>1. chain[b] \in Seq(Address) /\ Len(chain[b]) # 0 /\ chain[b][1] = b
  BY DEF Chains, Apart
<1>2. 1 \in 1..Len(chain[b])
  BY ONLY <1>1, LenProperties
<1>3. gone \subseteq 1..Len(chain[b]) /\ 1 \notin gone
  BY DEF Garbage
<1>4. \A i, j \in 1..Len(chain[b]) : chain[b][i] = chain[b][j] => i = j
  BY ApartWithin, Zenon
<1>5. Listed(chain, b, b)
  BY ONLY <1>1, <1>2, Zenon DEF Listed
<1>6. \A p \in gone : chain[b][p] # b
  BY ONLY <1>1, <1>2, <1>3, <1>4
<1> QED BY ONLY <1>5, <1>6, Zenon DEF Removed

(* A lookup that meets an entry of the flow, past the expired ones it      *)
(* unlinks, serves the core with it.                                       *)
LEMMA FoundServes ==
    ASSUME Tabled, NEW c \in Core, pkt[c] \in Packet, NEW b \in Bucket, b = FlowHash[pkt[c].tuple],
           NEW gone, Garbage(b, pkt[c].time, gone),
           NEW p \in 1..Len(chain[b]), p \notin gone, Matches(chain[b][p], pkt[c].tuple),
           chain' = [chain EXCEPT ![b] = Unlinked(chain[b], gone)],
           FlowFound(c, chain[b][p], Swept(chain[b], gone))
    PROVE  \E n \in Address : Serves(c, n)
<1> DEFINE n == chain[b][p]
           t == pkt[c].time
           sw == Swept(chain[b], gone)
<1>1. n \in Address /\ t \in Nat /\ pkt[c].tuple \in Tuple
  BY ElementOfSeq, Zenon DEF Tabled, Chains, Packet
<1>2. /\ chain' \in Chains /\ Apart(chain')
      /\ \A a \in Bucket : \A m :
             Listed(chain', a, m) <=> Listed(chain, a, m) /\ ~ Removed(b, gone, m)
  <2>1. chain \in Chains /\ Apart(chain)
    BY Zenon DEF Tabled
  <2>2. PICK s : s = Unlinked(chain[b], gone)
    OBVIOUS
  <2>3. chain' = [chain EXCEPT ![b] = s]
    BY <2>2, Zenon
  <2> QED BY <2>1, <2>2, <2>3, KeptFacts, Zenon
<1>3. /\ sw \in [Address -> TableFlow]
      /\ \A m \in Address : ~ Removed(b, gone, m) => sw[m] = entry[m]
  BY SweptFacts, Zenon DEF Tabled
<1>4. ~ Removed(b, gone, n) /\ Listed(chain, b, n)
  <2>1. \A q \in 1..Len(chain[b]) : chain[b][q] = chain[b][p] => q = p
    <3>1. Apart(chain)
      BY Zenon DEF Tabled
    <3>2. \A i, j \in 1..Len(chain[b]) : chain[b][i] = chain[b][j] => i = j
      BY <3>1, ApartWithin, Zenon
    <3> QED BY <3>2, Zenon
  <2>2. gone \subseteq 1..Len(chain[b])
    BY Zenon DEF Garbage
  <2> QED BY <2>1, <2>2, Zenon DEF Removed, Listed
<1>5. \A m : Removed(b, gone, m) => Expired(m, t)
  BY Zenon DEF Removed, Garbage
<1>6. /\ entry' = [sw EXCEPT ![n].timestamp = t]
      /\ flusso' = [flusso EXCEPT ![c] = n] /\ segv' = segv
  BY Zenon DEF FlowFound
<1> HIDE DEF n, sw, t
<1>7. /\ entry'[n] = [entry[n] EXCEPT !.timestamp = t]
      /\ \A m \in Address : m # n => entry'[m] = sw[m]
  BY <1>1, <1>3, <1>4, <1>6, Zenon
<1>8. entry[n] \in TableFlow
  BY <1>1, Zenon DEF Tabled
<1>9. /\ entry'[n] \in TableFlow /\ entry'[n].tuple = entry[n].tuple
      /\ entry'[n].timestamp = t
  BY <1>1, <1>7, <1>8, Zenon DEF TableFlow
<1>10. entry' \in [Address -> TableFlow]
  <2>1. sw[n] = entry[n]
    BY <1>1, <1>3, <1>4, Zenon
  <2>2. entry' = [sw EXCEPT ![n] = [entry[n] EXCEPT !.timestamp = t]]
    BY ONLY <1>1, <1>3, <1>6, <2>1
  <2>3. [entry[n] EXCEPT !.timestamp = t] \in TableFlow
    BY <1>7, <1>9, Zenon
  <2> QED BY <1>1, <1>3, <2>2, <2>3, Zenon
<1>11. Matches(n, pkt[c].tuple)
  BY Zenon DEF n
<1>12. ASSUME NEW a \in Bucket, NEW m \in Address, Listed(chain, a, m)
       PROVE  \/ entry'[m] = entry[m]
              \/ m = n /\ Refreshed(c, m)
              \/ Expired(m, t) /\ \A d \in Bucket : Listed(chain', d, m) => entry'[m].timestamp = t
  <2>1. CASE m = n
    BY <1>7, <1>11, <2>1, Zenon DEF Refreshed, t
  <2>2. CASE m # n /\ Removed(b, gone, m)
    BY <1>2, <1>5, <2>2, Zenon
  <2>3. CASE m # n /\ ~ Removed(b, gone, m)
    BY <1>3, <1>7, <2>3, Zenon
  <2> QED BY <2>1, <2>2, <2>3, Zenon
<1>13. Listed(chain', b, n)
  BY <1>2, <1>4, Zenon
<1>14. entry'[n].tuple # None /\ Same(entry'[n].tuple, pkt[c].tuple)
  BY <1>9, <1>11, Zenon DEF Matches
<1>15. \A a \in Bucket : \A m \in Address :
           Listed(chain, a, m) /\ ~ Expired(m, t) => Listed(chain', a, m)
  BY <1>2, <1>5, Zenon
<1>16. Serves(c, n)
  BY <1>2, <1>6, <1>9, <1>10, <1>12, <1>13, <1>14, <1>15, Zenon DEF Serves, t
<1> QED BY <1>1, <1>16, Zenon

(* An entry is written for a new flow at n, which is unlinked or expired.  *)
LEMMA WrittenServes ==
    ASSUME Tabled, NEW c \in Core, pkt[c] \in Packet, NEW b \in Bucket, b = FlowHash[pkt[c].tuple],
           NEW gone, Garbage(b, pkt[c].time, gone), NEW n \in Address,
           chain' \in Chains, Apart(chain'), Listed(chain', b, n),
           \A a \in Bucket : \A m : Listed(chain, a, m) /\ ~ Removed(b, gone, m) => Listed(chain', a, m),
           \A a \in Bucket : \A m : Listed(chain', a, m) => ~ Removed(b, gone, m) \/ m = n,
           \A a \in Bucket : Listed(chain, a, n) => Expired(n, pkt[c].time),
           FlowWritten(c, n, Swept(chain[b], gone))
    PROVE  Serves(c, n)
<1> DEFINE t == pkt[c].time
           sw == Swept(chain[b], gone)
           x == pkt[c].tuple
<1>1. t \in Nat /\ x \in Tuple /\ x # None
  BY FlowAssumption DEF Packet
<1>2. /\ sw \in [Address -> TableFlow]
      /\ \A m \in Address : ~ Removed(b, gone, m) => sw[m] = entry[m]
  BY SweptFacts DEF Tabled
<1>3. \A m : Removed(b, gone, m) => Expired(m, t)
  BY DEF Removed, Garbage
<1>4. /\ entry' = [sw EXCEPT ![n] = NewEntry(x, t)]
      /\ flusso' = [flusso EXCEPT ![c] = n] /\ segv' = segv
  BY DEF FlowWritten
<1>5. /\ NewEntry(x, t) \in TableFlow
      /\ NewEntry(x, t).tuple = x /\ NewEntry(x, t).timestamp = t
  BY <1>1 DEF NewEntry, TableFlow, Decision
<1> HIDE DEF sw, t
<1>6. /\ entry' \in [Address -> TableFlow] /\ entry'[n] = NewEntry(x, t)
      /\ \A m \in Address : m # n => entry'[m] = sw[m]
  BY <1>2, <1>4, <1>5
<1>7. ASSUME NEW a \in Bucket, NEW m \in Address, Listed(chain, a, m)
      PROVE  \/ entry'[m] = entry[m]
             \/ Expired(m, t) /\ \A d \in Bucket : Listed(chain', d, m) => entry'[m].timestamp = t
  <2>1. CASE m = n
    BY <1>5, <1>6, <1>7, <2>1 DEF t
  <2>2. CASE m # n /\ Removed(b, gone, m)
    BY <1>3, <2>2
  <2>3. CASE m # n /\ ~ Removed(b, gone, m)
    BY <1>2, <1>6, <2>3
  <2> QED BY <2>1, <2>2, <2>3
<1>8. entry'[n].tuple # None /\ Same(entry'[n].tuple, x) /\ entry'[n].timestamp = t
  BY <1>1, <1>5, <1>6, Zenon DEF Same
<1>9. \A a \in Bucket : \A m \in Address :
          Listed(chain, a, m) /\ ~ Expired(m, t) => Listed(chain', a, m)
  BY <1>3
<1> QED BY <1>4, <1>6, <1>7, <1>8, <1>9, Zenon DEF Serves, t

(* Every way reference_flow ends: the process dies, or the core has an     *)
(* entry of its packet's flow.                                             *)
LEMMA ReferenceServes ==
    ASSUME Tabled, NEW c \in Core, pkt[c] \in Packet, Reference(c)
    PROVE  Dies \/ \E n \in Address : Serves(c, n)
<1> DEFINE x == pkt[c].tuple
           t == pkt[c].time
           b == FlowHash[x]
           ch == chain[b]
<1>1. PICK gc \in BOOLEAN :
          LET walk  == Walk(ch, x, t, gc)
              match == {p \in walk : Matches(ch[p], x)}
              gone  == {p \in walk : Removes(ch, p, x, t, gc)}
              kept  == Unlinked(ch, gone)
              swept == Swept(ch, gone)
              first_free == gc /\ Expired(b, t)
              free  == Heap \ InUse([chain EXCEPT ![b] = kept])
          IN  \/ Dies
              \/ /\ match # {}
                 /\ chain' = [chain EXCEPT ![b] = kept]
                 /\ \E p \in match : FlowFound(c, ch[p], swept)
              \/ /\ match = {} /\ first_free
                 /\ chain' = [chain EXCEPT ![b] = kept]
                 /\ FlowWritten(c, b, swept)
              \/ /\ match = {} /\ ~ first_free
                 /\ \E n \in free :
                      /\ chain' = [chain EXCEPT ![b] = Append(kept, n)]
                      /\ FlowWritten(c, n, swept)
  BY Zenon DEF Reference
<1> DEFINE walk  == Walk(ch, x, t, gc)
           match == {p \in walk : Matches(ch[p], x)}
           gone  == {p \in walk : Removes(ch, p, x, t, gc)}
           kept  == Unlinked(ch, gone)
           swept == Swept(ch, gone)
           first_free == gc /\ Expired(b, t)
           ch1   == [chain EXCEPT ![b] = kept]
           free  == Heap \ InUse(ch1)
<1>2. \/ Dies
      \/ chain' = ch1 /\ \E p \in match : FlowFound(c, ch[p], swept)
      \/ Expired(b, t) /\ chain' = ch1 /\ FlowWritten(c, b, swept)
      \/ \E n \in free : chain' = [chain EXCEPT ![b] = Append(kept, n)] /\ FlowWritten(c, n, swept)
  BY <1>1, Zenon
<1>3. x \in Tuple /\ b \in Bucket /\ b \in Address
  BY FlowAssumption DEF Packet, Address
<1>4. ch \in Seq(Address) /\ DOMAIN ch = 1..Len(ch)
  BY <1>3 DEF Tabled, Chains
<1>5. walk \subseteq 1..Len(ch)
  BY <1>4, Zenon DEF Walk
<1>6. Garbage(b, t, gone) /\ \A p \in gone : ~ Matches(ch[p], x)
  <2> HIDE DEF walk
  <2> QED BY <1>5 DEF Garbage, Removes
<1>7. /\ kept \in Seq(Address) /\ ch1 \in Chains /\ Apart(ch1)
      /\ \A a \in Bucket : \A m :
             Listed(ch1, a, m) <=> Listed(chain, a, m) /\ ~ Removed(b, gone, m)
  <2> HIDE DEF gone
  <2> QED BY <1>3, <1>6, KeptFacts, Zenon DEF Tabled
<1>8. ASSUME NEW p \in match, chain' = ch1, FlowFound(c, ch[p], swept)
      PROVE  \E n \in Address : Serves(c, n)
  <2>1. p \in 1..Len(ch) /\ p \notin gone /\ Matches(ch[p], x)
    BY <1>5, <1>6, Zenon
  <2> HIDE DEF gone
  <2> QED BY <1>3, <1>6, <1>8, <2>1, FoundServes, Zenon
<1>9. ASSUME Expired(b, t), chain' = ch1, FlowWritten(c, b, swept)
      PROVE  Serves(c, b)
  <2>1. Listed(chain, b, b) /\ ~ Removed(b, gone, b)
    <3>1. chain \in Chains /\ Apart(chain)
      BY Zenon DEF Tabled
    <3> HIDE DEF gone
    <3> QED BY <1>3, <1>6, <3>1, FirstKept, Zenon
  <2>2. Listed(chain', b, b)
    BY <1>3, <1>7, <1>9, <2>1, Zenon
  <2> HIDE DEF gone, ch1, kept
  <2> QED BY <1>3, <1>6, <1>7, <1>9, <2>1, <2>2, WrittenServes, Zenon DEF swept
<1>10. ASSUME NEW n \in free, chain' = [chain EXCEPT ![b] = Append(kept, n)], FlowWritten(c, n, swept)
       PROVE  Serves(c, n)
  <2>1. n \in Address /\ \A a \in Bucket : ~ Listed(ch1, a, n)
    BY <1>7, InUseIsListed, Zenon DEF Address
  <2>2. ch1[b] = kept /\ chain' = [ch1 EXCEPT ![b] = Append(ch1[b], n)]
    <3> HIDE DEF kept
    <3> QED BY <1>3, <1>10, Zenon DEF Tabled, Chains
  <2> HIDE DEF gone, ch1, kept, b
  <2>3. /\ chain' \in Chains /\ Apart(chain') /\ Listed(chain', b, n)
        /\ \A a \in Bucket : \A m : Listed(ch1, a, m) => Listed(chain', a, m)
        /\ \A a \in Bucket : \A m : Listed(chain', a, m) => Listed(ch1, a, m) \/ m = n
    <3> DEFINE ch2 == chain'
           s == Append(ch1[b], n)
    <3>1. ch2 = [ch1 EXCEPT ![b] = s] /\ s = Append(ch1[b], n) /\ ch1 \in Chains /\ Apart(ch1)
      BY <1>7, <2>2
    <3> HIDE DEF ch2, s
    <3>2. ch2 \in Chains /\ Apart(ch2) /\ Links(ch1, ch2, b, n)
      BY ONLY <1>3, <2>1, <3>1, AppendedFacts, Zenon
    <3> QED BY <1>3, <3>2 DEF ch2, Links
  <2>4. \A a \in Bucket : Listed(chain, a, n) => Expired(n, t)
    <3>1. \A a \in Bucket : Listed(chain, a, n) => Removed(b, gone, n)
      BY <1>7, <2>1
    <3>2. Removed(b, gone, n) => Expired(n, t)
      BY <1>6 DEF Removed, Garbage
    <3> QED BY <3>1, <3>2
  <2>5. /\ \A a \in Bucket : \A m : Listed(chain, a, m) /\ ~ Removed(b, gone, m) => Listed(chain', a, m)
        /\ \A a \in Bucket : \A m : Listed(chain', a, m) => ~ Removed(b, gone, m) \/ m = n
    BY <1>7, <2>3
  <2>6. Garbage(b, pkt[c].time, gone) /\ FlowWritten(c, n, Swept(chain[b], gone)) /\ b = FlowHash[pkt[c].tuple]
    BY <1>6, <1>10, Zenon DEF swept, b
  <2>7. \A a \in Bucket : Listed(chain, a, n) => Expired(n, pkt[c].time)
    BY <2>4
  <2> QED BY <1>3, <2>1, <2>3, <2>5, <2>6, <2>7, WrittenServes
<1>11. free \subseteq Address
  BY DEF Address
<1> QED BY <1>2, <1>3, <1>8, <1>9, <1>10, <1>11, Zenon


-----------------------------------------------------------------------------
(* The invariant of the table and of the cores' packets.                   *)

(* The packet of a core, for MaxSkew seconds at most.                      *)
Handled(c) ==
    pc[c] # "idle" =>
        /\ pkt[c] \in Packet /\ CoreOf[pkt[c].tuple] = c
        /\ pkt[c].time <= clock /\ clock - pkt[c].time <= MaxSkew

(* From the lookup on a core has a pointer, until it sends the packet.     *)
Served == {"extCall", "extStore", "call", "store"}

Pointing(c) ==
    /\ flusso[c] # None => pc[c] # "idle"
    /\ ~ segv /\ pc[c] \in Served => flusso[c] # None

(* An entry of the flow of x that was used when the flow was looked up.    *)
Keeps(m, x) ==
    /\ Listed(chain, FlowHash[x], m) /\ Matches(m, x)
    /\ looked[x] <= entry[m].timestamp

Remembered ==
    ~ segv => \A x \in Tuple :
        looked[x] # Never => clock - looked[x] > T_OUT \/ \E m \in Address : Keeps(m, x)

IInv ==
    /\ TypeOK /\ Apart(chain) /\ Remembered
    /\ \A c \in Core : Handled(c) /\ Pointing(c)

(* The invariant has the typed, well formed table that lookups need.       *)
LEMMA InvTabled ==
    ASSUME IInv
    PROVE  Tabled
BY DEF IInv, TypeOK, Tabled, Chains

(* No entry is in use and no core handles a packet in the beginning.       *)
LEMMA InitInv ==
    ASSUME Init
    PROVE  IInv
<1>1. chain = [b \in Bucket |-> <<b>>] /\ entry = [n \in Address |-> NewEntry(None, 0)]
  BY DEF Init, FlowTableInit
<1>2. NewEntry(None, 0) \in TableFlow
  BY DEF NewEntry, TableFlow, Decision
<1>3. \A b \in Bucket : <<b>> \in Seq(Address) /\ Len(<<b>>) = 1 /\ <<b>>[1] = b
  BY DEF Address
<1>4. Apart(chain)
  BY <1>1, <1>3 DEF Apart
<1>5. TypeOK
  <2>1. chain \in [Bucket -> Seq(Address)] /\ entry \in [Address -> TableFlow]
    BY <1>1, <1>2, <1>3
  <2>2. clock \in Nat /\ segv \in BOOLEAN /\ looked \in [Tuple -> Nat \cup {Never}]
    BY DEF Init, FlowTableInit
  <2>3. /\ pc \in [Core -> Labels] /\ pkt \in [Core -> Packet \cup {None}]
        /\ flusso \in [Core -> Address \cup {None}]
    BY DEF Init, Labels
  <2>4. askers \in [External \cup Host -> SUBSET {x.src : x \in Tuple}]
    BY DEF Init
  <2>5. seen \in [Core -> Decision] /\ flag \in [Core -> {0, 1}] /\ addr \in [Core -> AddrKind]
    BY DEF Init, Decision, AddrKind
  <2> QED BY <2>1, <2>2, <2>3, <2>4, <2>5 DEF TypeOK
<1>6. Remembered
  BY DEF Remembered, Init
<1>7. \A c \in Core : pc[c] = "idle" /\ flusso[c] = None
  BY DEF Init
<1>8. \A c \in Core : Handled(c) /\ Pointing(c)
  BY <1>7 DEF Handled, Pointing, Served
<1> QED BY <1>4, <1>5, <1>6, <1>8 DEF IInv

-----------------------------------------------------------------------------
(* Types, action by action.                                                *)

(* What no step of a core touches but its own.                             *)
OthersStay(c) ==
    \A d \in Core : d # c => pc'[d] = pc[d] /\ pkt'[d] = pkt[d] /\ flusso'[d] = flusso[d]

(* What a parser returns that finds no name is a bit.                      *)
LEMMA FlagFacts ==
    ASSUME NEW p
    PROVE  NoNameFlags(p) \subseteq {0, 1}
BY DEF NoNameFlags, WithoutName

(* What is counted for a name is a source address of a tuple.              *)
LEMMA AskTypes ==
    ASSUME TypeOK, NEW c \in Core, pkt[c] \in Packet, NEW n, Ask(c, n)
    PROVE  askers' \in [External \cup Host -> SUBSET {x.src : x \in Tuple}]
<1>1. pkt[c].tuple \in Tuple
  BY DEF Packet
<1>2. pkt[c].tuple.src \in {x.src : x \in Tuple}
  BY <1>1
<1> QED BY <1>2 DEF TypeOK, Ask

(* Going on moves one core only.                                           *)
LEMMA GotoTypes ==
    ASSUME TypeOK, NEW c \in Core, NEW l \in Labels, Goto(c, l)
    PROVE  /\ pc' \in [Core -> Labels] /\ pc'[c] = l
           /\ \A d \in Core : d # c => pc'[d] = pc[d]
BY DEF TypeOK, Goto

(* Dropping the payload changes neither the packet's tuple nor its time.   *)
LEMMA ForgetTypes ==
    ASSUME TypeOK, NEW c \in Core, pkt[c] \in Packet, Forget(c)
    PROVE  /\ pkt' \in [Core -> Packet \cup {None}] /\ pkt'[c] \in Packet
           /\ pkt'[c].tuple = pkt[c].tuple /\ pkt'[c].time = pkt[c].time
           /\ \A d \in Core : d # c => pkt'[d] = pkt[d]
BY DEF TypeOK, Forget, Packet

(* The steps that leave the table alone.                                   *)
Quiet(c) ==
    \/ ExtSkip(c) \/ ExtReuse(c) \/ DetectManaged(c) \/ DetectDns(c) \/ DetectOther(c)
    \/ Skip(c) \/ Judge(c) \/ NoName(c)

(* The steps that leave the table alone move one core, which keeps its     *)
(* packet, and give no core an entry it did not have.                      *)
LEMMA QuietTypes ==
    ASSUME IInv, NEW c \in Core, Quiet(c)
    PROVE  /\ TypeOK' /\ OthersStay(c) /\ ~ segv /\ pc[c] # "idle"
           /\ UNCHANGED <<clock, chain, entry, segv, flusso, looked>>
           /\ pkt'[c] \in Packet /\ pkt'[c].tuple = pkt[c].tuple /\ pkt'[c].time = pkt[c].time
           /\ pc'[c] # "idle" /\ pc'[c] # "extCall" /\ pc'[c] # "call"
           /\ pc'[c] \in Served => pc[c] \in Served
<1>1. /\ TypeOK /\ ~ segv /\ pc[c] # "idle" /\ UNCHANGED <<clock, chain, entry, segv, flusso, looked>>
  BY DEF IInv, Quiet, ExtSkip, ExtReuse, DetectManaged, DetectDns, DetectOther, Skip, Judge, NoName, At, flows
<1>2. pkt[c] \in Packet
  BY <1>1 DEF IInv, Handled
<1>3. CASE ExtSkip(c) \/ DetectOther(c)
  <2>1. PICK l \in {"detect", "send"} : Goto(c, l)
    BY <1>3 DEF ExtSkip, DetectOther
  <2>2. UNCHANGED <<pkt, askers, seen, flag, addr>>
    BY <1>3 DEF ExtSkip, DetectOther
  <2>3. pc' \in [Core -> Labels] /\ pc'[c] = l /\ \A d \in Core : d # c => pc'[d] = pc[d]
    BY <1>1, <2>1, GotoTypes DEF Labels
  <2> QED BY <1>1, <1>2, <2>1, <2>2, <2>3 DEF TypeOK, OthersStay, Served
<1>4. CASE ExtReuse(c)
  <2>1. pc' \in [Core -> Labels] /\ pc'[c] = "extStore" /\ \A d \in Core : d # c => pc'[d] = pc[d]
    BY <1>1, <1>4, GotoTypes DEF Labels, ExtReuse
  <2>2. UNCHANGED <<pkt, askers>> /\ pc[c] = "extCall"
    BY <1>4 DEF ExtReuse, At
  <2>3. addr' \in [Core -> AddrKind]
    BY <1>1, <1>4 DEF ExtReuse, TypeOK, AddrKind
  <2>4. seen' \in [Core -> Decision] /\ flag' \in [Core -> {0, 1}]
    BY <1>1, <1>4 DEF ExtReuse, TypeOK, Decision
  <2> QED BY <1>1, <1>2, <2>1, <2>2, <2>3, <2>4 DEF TypeOK, OthersStay, Served
<1>5. CASE DetectManaged(c)
  <2>1. PICK p \in Payload : \/ pkt' = [pkt EXCEPT ![c].payload = p] /\ Goto(c, "lookup")
                             \/ UNCHANGED pkt /\ Goto(c, "send")
    BY <1>5, Zenon DEF DetectManaged
  <2>2. UNCHANGED <<askers, seen, flag, addr>>
    BY <1>5 DEF DetectManaged
  <2>3. pc' \in [Core -> Labels] /\ pc'[c] \in {"lookup", "send"} /\ \A d \in Core : d # c => pc'[d] = pc[d]
    BY <1>1, <2>1, GotoTypes DEF Labels
  <2>4. /\ pkt' \in [Core -> Packet \cup {None}] /\ pkt'[c] \in Packet
        /\ pkt'[c].tuple = pkt[c].tuple /\ pkt'[c].time = pkt[c].time
        /\ \A d \in Core : d # c => pkt'[d] = pkt[d]
    <3>1. CASE pkt' = [pkt EXCEPT ![c].payload = p]
      <4>1. /\ pkt' = [pkt EXCEPT ![c] = [pkt[c] EXCEPT !.payload = p]]
            /\ [pkt[c] EXCEPT !.payload = p] \in Packet
        BY <1>1, <1>2, <3>1 DEF TypeOK, Packet
      <4> QED BY <1>1, <1>2, <4>1 DEF TypeOK, Packet
    <3>2. CASE UNCHANGED pkt
      BY <1>1, <1>2, <3>2 DEF TypeOK
    <3> QED BY <2>1, <3>1, <3>2
  <2> QED BY <1>1, <2>2, <2>3, <2>4 DEF TypeOK, OthersStay, Served
<1>6. CASE DetectDns(c)
  <2>1. pc' \in [Core -> Labels] /\ pc'[c] = "send" /\ \A d \in Core : d # c => pc'[d] = pc[d]
    BY <1>1, <1>6, GotoTypes DEF Labels, DetectDns
  <2>2. UNCHANGED <<pkt, seen, flag, addr>>
    BY <1>6 DEF DetectDns
  <2>3. askers' \in [External \cup Host -> SUBSET {x.src : x \in Tuple}]
    BY <1>1, <1>2, <1>6, AskTypes DEF DetectDns, TypeOK
  <2> QED BY <1>1, <1>2, <2>1, <2>2, <2>3 DEF TypeOK, OthersStay, Served
<1>7. CASE Skip(c) \/ NoName(c)
  <2>1. PICK l \in {"send", "store"} : Goto(c, l)
    BY <1>7 DEF Skip, NoName
  <2>2. UNCHANGED <<askers, seen, addr>> /\ Forget(c) /\ pc[c] = "call"
    BY <1>7 DEF Skip, NoName, At
  <2>3. flag' \in [Core -> {0, 1}]
    <3>1. CASE Skip(c)
      BY <1>1, <3>1 DEF Skip, TypeOK
    <3>2. CASE NoName(c)
      <4>1. PICK f \in NoNameFlags(pkt[c].payload) : flag' = [flag EXCEPT ![c] = f]
        BY <3>2 DEF NoName
      <4>2. f \in {0, 1}
        BY FlagFacts
      <4> QED BY <1>1, <4>1, <4>2 DEF TypeOK
    <3> QED BY <1>7, <3>1, <3>2
  <2>4. pc' \in [Core -> Labels] /\ pc'[c] = l /\ \A d \in Core : d # c => pc'[d] = pc[d]
    BY <1>1, <2>1, GotoTypes DEF Labels
  <2>5. /\ pkt' \in [Core -> Packet \cup {None}] /\ pkt'[c] \in Packet
        /\ pkt'[c].tuple = pkt[c].tuple /\ pkt'[c].time = pkt[c].time
        /\ \A d \in Core : d # c => pkt'[d] = pkt[d]
    BY <1>1, <1>2, <2>2, ForgetTypes
  <2> QED BY <1>1, <2>2, <2>3, <2>4, <2>5 DEF TypeOK, OthersStay, Served
<1>8. CASE Judge(c)
  <2>1. pc' \in [Core -> Labels] /\ pc'[c] = "store" /\ \A d \in Core : d # c => pc'[d] = pc[d]
    BY <1>1, <1>8, GotoTypes DEF Labels, Judge
  <2>2. UNCHANGED <<seen, addr>> /\ Forget(c) /\ pc[c] = "call"
    BY <1>8 DEF Judge, At
  <2>3. PICK f \in {0, 1} : flag' = [flag EXCEPT ![c] = f] /\ Ask(c, NameIn(pkt[c].payload))
    BY <1>8 DEF Judge, TableAdd
  <2>4. flag' \in [Core -> {0, 1}]
    BY <1>1, <2>3 DEF TypeOK
  <2>5. askers' \in [External \cup Host -> SUBSET {x.src : x \in Tuple}]
    BY <1>1, <1>2, <2>3, AskTypes
  <2>6. /\ pkt' \in [Core -> Packet \cup {None}] /\ pkt'[c] \in Packet
        /\ pkt'[c].tuple = pkt[c].tuple /\ pkt'[c].time = pkt[c].time
        /\ \A d \in Core : d # c => pkt'[d] = pkt[d]
    BY <1>1, <1>2, <2>2, ForgetTypes
  <2> QED BY <1>1, <2>1, <2>2, <2>4, <2>5, <2>6 DEF TypeOK, OthersStay, Served
<1> QED BY <1>3, <1>4, <1>5, <1>6, <1>7, <1>8 DEF Quiet

(* external_ip draws an address and remembers it in the flow's entry; the  *)
(* entry's flow, its time and its decision stay.                           *)
LEMMA ExtJudgeTypes ==
    ASSUME IInv, NEW c \in Core, ExtJudge(c)
    PROVE  /\ TypeOK' /\ OthersStay(c) /\ ~ segv /\ pc[c] = "extCall" /\ pc'[c] = "extStore"
           /\ UNCHANGED <<clock, chain, segv, pkt, flusso, looked>>
           /\ \A m \in Address : /\ entry'[m].tuple = entry[m].tuple
                                 /\ entry'[m].timestamp = entry[m].timestamp
                                 /\ entry'[m].toAnon = entry[m].toAnon
<1>1. /\ TypeOK /\ ~ segv /\ pc[c] = "extCall" /\ ToAnon(c) = -1
      /\ UNCHANGED <<clock, chain, segv, pkt, flusso, seen, looked>>
  BY DEF IInv, ExtJudge, At
<1>2. pkt[c] \in Packet
  BY <1>1 DEF IInv, Handled
<1>3. PICK v \in BOOLEAN :
         /\ TableAdd(c, ExternalAddress(pkt[c].tuple), v)
         /\ flag' = [flag EXCEPT ![c] = IF v THEN 0 ELSE 1]
         /\ entry' = IF v THEN entry ELSE [entry EXCEPT ![flusso[c]].ipv4_anon = TRUE]
         /\ addr' = IF v THEN addr ELSE [addr EXCEPT ![c] = "random"]
  BY Zenon DEF ExtJudge
<1>4. pc' \in [Core -> Labels] /\ pc'[c] = "extStore" /\ \A d \in Core : d # c => pc'[d] = pc[d]
  BY <1>1, GotoTypes DEF Labels, ExtJudge
<1>5. askers' \in [External \cup Host -> SUBSET {x.src : x \in Tuple}]
  <2>1. Ask(c, ExternalAddress(pkt[c].tuple))
    BY <1>3 DEF TableAdd
  <2> QED BY <1>1, <1>2, <2>1, AskTypes
<1>6. flag' \in [Core -> {0, 1}]
  BY <1>1, <1>3 DEF TypeOK
<1>7. addr' \in [Core -> AddrKind]
  BY <1>1, <1>3 DEF TypeOK, AddrKind
<1>8. /\ entry' \in [Address -> TableFlow]
      /\ \A m \in Address : /\ entry'[m].tuple = entry[m].tuple
                            /\ entry'[m].timestamp = entry[m].timestamp
                            /\ entry'[m].toAnon = entry[m].toAnon
  <2>1. CASE entry' = entry
    BY <1>1, <2>1 DEF TypeOK
  <2>2. CASE entry' = [entry EXCEPT ![flusso[c]].ipv4_anon = TRUE]
    <3>1. CASE flusso[c] \in Address
      <4> DEFINE e == [entry[flusso[c]] EXCEPT !.ipv4_anon = TRUE]
      <4>1. entry \in [Address -> TableFlow] /\ entry[flusso[c]] \in TableFlow
        BY <1>1, <3>1 DEF TypeOK
      <4>2. entry' = [entry EXCEPT ![flusso[c]] = e]
        BY <2>2
      <4>3. /\ e \in TableFlow /\ e.tuple = entry[flusso[c]].tuple
            /\ e.timestamp = entry[flusso[c]].timestamp /\ e.toAnon = entry[flusso[c]].toAnon
        BY <4>1 DEF TableFlow
      <4> HIDE DEF e
      <4> QED BY <3>1, <4>1, <4>2, <4>3
    <3>2. CASE flusso[c] \notin Address
      BY <1>1, <2>2, <3>2 DEF TypeOK
    <3> QED BY <3>1, <3>2
  <2> QED BY <1>3, <2>1, <2>2
<1> QED BY <1>1, <1>4, <1>5, <1>6, <1>7, <1>8 DEF TypeOK, OthersStay

(* What the module returned is stored in the flow's entry, or is not: only *)
(* the decision changes, and only that of the core's entry.                *)
LEMMA StoreTypes ==
    ASSUME IInv, NEW c \in Core, ExtStore(c) \/ Store(c)
    PROVE  /\ TypeOK' /\ OthersStay(c) /\ ~ segv /\ pc[c] \in {"extStore", "store"}
           /\ pc'[c] \in {"detect", "send"}
           /\ UNCHANGED <<clock, chain, segv, pkt, flusso, looked>>
           /\ \A m \in Address : /\ entry'[m].tuple = entry[m].tuple
                                 /\ entry'[m].timestamp = entry[m].timestamp
                                 /\ m # flusso[c] => entry'[m] = entry[m]
<1>1. /\ TypeOK /\ ~ segv /\ pc[c] \in {"extStore", "store"}
      /\ UNCHANGED <<clock, chain, segv, pkt, flusso, askers, seen, addr, looked>>
      /\ flag' = [flag EXCEPT ![c] = 0]
  BY DEF IInv, ExtStore, Store, At
<1>2. PICK l \in {"detect", "send"} : Goto(c, l)
  BY DEF ExtStore, Store
<1>3. SetToAnon(c, flag[c]) \/ entry' = entry
  BY DEF ExtStore, Store
<1>4. pc' \in [Core -> Labels] /\ pc'[c] = l /\ \A d \in Core : d # c => pc'[d] = pc[d]
  BY <1>1, <1>2, GotoTypes DEF Labels
<1>5. /\ entry' \in [Address -> TableFlow]
      /\ \A m \in Address : /\ entry'[m].tuple = entry[m].tuple
                            /\ entry'[m].timestamp = entry[m].timestamp
                            /\ m # flusso[c] => entry'[m] = entry[m]
  <2>1. CASE entry' = entry
    BY <1>1, <2>1 DEF TypeOK
  <2>2. CASE SetToAnon(c, flag[c])
    <3> DEFINE f == IF flag[c] # 0 THEN 1 ELSE 0
               e == [entry[flusso[c]] EXCEPT !.toAnon = f]
    <3>1. entry \in [Address -> TableFlow] /\ f \in Decision
      BY <1>1 DEF TypeOK, Decision
    <3>2. entry' = [entry EXCEPT ![flusso[c]] = e]
      BY <2>2 DEF SetToAnon
    <3> HIDE DEF f
    <3>3. CASE flusso[c] \in Address
      <4>1. /\ e \in TableFlow /\ e.tuple = entry[flusso[c]].tuple
            /\ e.timestamp = entry[flusso[c]].timestamp
        BY <3>1, <3>3 DEF TableFlow
      <4> HIDE DEF e
      <4> QED BY <3>1, <3>2, <3>3, <4>1
    <3>4. CASE flusso[c] \notin Address
      <4> HIDE DEF e
      <4> QED BY <3>1, <3>2, <3>4
    <3> QED BY <3>3, <3>4
  <2> QED BY <1>3, <2>1, <2>2
<1>6. flag' \in [Core -> {0, 1}]
  BY <1>1 DEF TypeOK
<1> QED BY <1>1, <1>2, <1>4, <1>5, <1>6 DEF TypeOK, OthersStay

(* A lookup: the process dies, or the core has an entry.                   *)
LEMMA LookupTypes ==
    ASSUME IInv, NEW c \in Core, ExtReference(c) \/ ManagedReference(c)
    PROVE  /\ TypeOK' /\ OthersStay(c) /\ ~ segv /\ pc[c] # "idle" /\ pkt[c] \in Packet
           /\ pc'[c] \in {"extCall", "call"} /\ UNCHANGED <<clock, pkt>>
           /\ looked' = [x \in Tuple |-> IF Same(x, pkt[c].tuple) THEN pkt[c].time ELSE looked[x]]
           /\ Dies \/ \E n \in Address : Serves(c, n)
<1>1. /\ TypeOK /\ ~ segv /\ pc[c] # "idle" /\ UNCHANGED <<clock, pkt, askers, seen, flag, addr>>
      /\ Reference(c)
      /\ looked' = [x \in Tuple |-> IF Same(x, pkt[c].tuple) THEN pkt[c].time ELSE looked[x]]
  BY DEF IInv, ExtReference, ManagedReference, FindFlow, At
<1>2. pkt[c] \in Packet
  BY <1>1 DEF IInv, Handled
<1>3. PICK l \in {"extCall", "call"} : Goto(c, l)
  BY DEF ExtReference, ManagedReference
<1>4. pc' \in [Core -> Labels] /\ pc'[c] = l /\ \A d \in Core : d # c => pc'[d] = pc[d]
  BY <1>1, <1>3, GotoTypes DEF Labels
<1>5. Dies \/ \E n \in Address : Serves(c, n)
  BY <1>1, <1>2, InvTabled, ReferenceServes
<1>6. pkt[c].time \in Nat
  BY <1>2 DEF Packet
<1>7. looked' \in [Tuple -> Nat \cup {Never}]
  BY <1>1, <1>6 DEF TypeOK
<1>8. /\ chain' \in [Bucket -> Seq(Address)] /\ entry' \in [Address -> TableFlow]
      /\ segv' \in BOOLEAN /\ flusso' \in [Core -> Address \cup {None}]
      /\ \A d \in Core : d # c => flusso'[d] = flusso[d]
  <2>1. CASE Dies
    BY <1>1, <2>1 DEF Dies, TypeOK
  <2>2. ASSUME NEW n \in Address, Serves(c, n)
        PROVE  /\ chain' \in [Bucket -> Seq(Address)] /\ entry' \in [Address -> TableFlow]
               /\ segv' \in BOOLEAN /\ flusso' \in [Core -> Address \cup {None}]
               /\ \A d \in Core : d # c => flusso'[d] = flusso[d]
    BY <1>1, <2>2 DEF Serves, Chains, TypeOK
  <2> QED BY <1>5, <2>1, <2>2
<1> QED BY <1>1, <1>2, <1>3, <1>4, <1>5, <1>7, <1>8 DEF TypeOK, OthersStay

(* A packet comes.                                                         *)
LEMMA ReceiveTypes ==
    ASSUME IInv, NEW c \in Core, Receive(c)
    PROVE  /\ TypeOK' /\ OthersStay(c) /\ ~ segv /\ pc[c] = "idle"
           /\ pc'[c] \in {"extLookup", "detect"}
           /\ UNCHANGED <<clock, chain, entry, segv, flusso, looked>>
           /\ pkt'[c] \in Packet /\ CoreOf[pkt'[c].tuple] = c /\ pkt'[c].time = clock
<1>1. /\ TypeOK /\ ~ segv /\ pc[c] = "idle"
      /\ UNCHANGED <<clock, chain, entry, segv, flusso, askers, seen, flag, addr, looked>>
  BY DEF IInv, Receive, At, flows
<1>2. PICK x \in Tuple, k \in Setting :
         /\ CoreOf[x] = c
         /\ pkt' = [pkt EXCEPT ![c] = [tuple |-> x, time |-> clock, k |-> k, payload |-> None]]
         /\ Goto(c, IF k.ext /\ x.protocol \in {"TCP", "UDP"} /\ Origin(x) \in {1, 10}
                    THEN "extLookup" ELSE "detect")
  BY Zenon DEF Receive
<1>3. PICK l \in {"extLookup", "detect"} : Goto(c, l)
  BY <1>2
<1>4. pc' \in [Core -> Labels] /\ pc'[c] = l /\ \A d \in Core : d # c => pc'[d] = pc[d]
  BY <1>1, <1>3, GotoTypes DEF Labels
<1> DEFINE p == [tuple |-> x, time |-> clock, k |-> k, payload |-> None]
<1>5. p \in Packet /\ p.tuple = x /\ p.time = clock
  BY <1>1 DEF Packet, TypeOK
<1>6. pkt' = [pkt EXCEPT ![c] = p]
  BY <1>2
<1> HIDE DEF p
<1>7. /\ pkt' \in [Core -> Packet \cup {None}] /\ pkt'[c] = p
      /\ \A d \in Core : d # c => pkt'[d] = pkt[d]
  BY <1>1, <1>5, <1>6 DEF TypeOK
<1> QED BY <1>1, <1>2, <1>3, <1>4, <1>5, <1>7 DEF TypeOK, OthersStay

(* The packet is sent.                                                     *)
LEMMA SendTypes ==
    ASSUME IInv, NEW c \in Core, Send(c)
    PROVE  /\ TypeOK' /\ OthersStay(c) /\ ~ segv /\ pc'[c] = "idle" /\ flusso'[c] = None
           /\ UNCHANGED <<clock, chain, entry, segv, looked>>
<1>1. /\ TypeOK /\ ~ segv /\ UNCHANGED <<clock, chain, entry, segv, askers, looked>>
      /\ pkt' = [pkt EXCEPT ![c] = None] /\ flusso' = [flusso EXCEPT ![c] = None]
      /\ seen' = [seen EXCEPT ![c] = -1] /\ flag' = [flag EXCEPT ![c] = 0]
      /\ addr' = [addr EXCEPT ![c] = "clear"] /\ Goto(c, "idle")
  BY DEF IInv, Send, At, flows
<1>2. pc' \in [Core -> Labels] /\ pc'[c] = "idle" /\ \A d \in Core : d # c => pc'[d] = pc[d]
  BY <1>1, GotoTypes DEF Labels
<1>3. /\ pkt' \in [Core -> Packet \cup {None}] /\ \A d \in Core : d # c => pkt'[d] = pkt[d]
  BY <1>1 DEF TypeOK
<1>4. /\ flusso' \in [Core -> Address \cup {None}] /\ flusso'[c] = None
      /\ \A d \in Core : d # c => flusso'[d] = flusso[d]
  BY <1>1 DEF TypeOK
<1>5. seen' \in [Core -> Decision] /\ flag' \in [Core -> {0, 1}]
  BY <1>1 DEF TypeOK, Decision
<1>6. addr' \in [Core -> AddrKind]
  BY <1>1 DEF TypeOK, AddrKind
<1> QED BY <1>1, <1>2, <1>3, <1>4, <1>5, <1>6 DEF TypeOK, OthersStay

-----------------------------------------------------------------------------
(* The invariant is kept: the cores other than c, first.                   *)
LEMMA OthersKept ==
    ASSUME IInv, NEW c \in Core, OthersStay(c), clock' = clock, segv' = segv,
           NEW d \in Core, d # c
    PROVE  Handled(d)' /\ Pointing(d)'
<1>1. pc'[d] = pc[d] /\ pkt'[d] = pkt[d] /\ flusso'[d] = flusso[d] /\ Handled(d) /\ Pointing(d)
  BY DEF OthersStay, IInv
<1> QED BY <1>1 DEF Handled, Pointing

(* The flows and the times of the entries stay.                            *)
LEMMA RememberedStays ==
    ASSUME Remembered, UNCHANGED <<clock, chain, segv, looked>>,
           \A m \in Address : entry'[m].tuple = entry[m].tuple /\ entry'[m].timestamp = entry[m].timestamp
    PROVE  Remembered'
<1> SUFFICES ASSUME ~ segv, NEW x \in Tuple, looked'[x] # Never, ~ (clock' - looked'[x] > T_OUT)
             PROVE  \E m \in Address : Keeps(m, x)'
  BY DEF Remembered
<1>1. PICK m \in Address : Keeps(m, x)
  BY DEF Remembered
<1>2. Keeps(m, x)'
  BY <1>1 DEF Keeps, Listed, Matches
<1> QED BY <1>2

(* The steps that leave the table alone keep the invariant.                *)
LEMMA QuietInv ==
    ASSUME IInv, NEW c \in Core, Quiet(c)
    PROVE  IInv'
<1>1. /\ TypeOK' /\ OthersStay(c) /\ ~ segv /\ pc[c] # "idle"
      /\ UNCHANGED <<clock, chain, entry, segv, flusso, looked>>
      /\ pkt'[c] \in Packet /\ pkt'[c].tuple = pkt[c].tuple /\ pkt'[c].time = pkt[c].time
      /\ pc'[c] # "idle" /\ (pc'[c] \in Served => pc[c] \in Served)
  BY QuietTypes
<1>2. Handled(c)'
  BY <1>1 DEF IInv, Handled
<1>3. Pointing(c)'
  BY <1>1 DEF IInv, Pointing
<1>4. Remembered'
  BY <1>1, RememberedStays DEF IInv
<1>5. Apart(chain')
  BY <1>1 DEF IInv
<1> QED BY <1>1, <1>2, <1>3, <1>4, <1>5, OthersKept DEF IInv

(* The verdict on the external address keeps it.                           *)
LEMMA ExtJudgeInv ==
    ASSUME IInv, NEW c \in Core, ExtJudge(c)
    PROVE  IInv'
<1>1. /\ TypeOK' /\ OthersStay(c) /\ ~ segv /\ pc[c] = "extCall" /\ pc'[c] = "extStore"
      /\ UNCHANGED <<clock, chain, segv, pkt, flusso, looked>>
      /\ \A m \in Address : entry'[m].tuple = entry[m].tuple /\ entry'[m].timestamp = entry[m].timestamp
  BY ExtJudgeTypes
<1>2. Handled(c)'
  BY <1>1 DEF IInv, Handled
<1>3. Pointing(c)'
  BY <1>1 DEF IInv, Pointing, Served
<1>4. Remembered'
  BY <1>1, RememberedStays DEF IInv
<1>5. Apart(chain')
  BY <1>1 DEF IInv
<1> QED BY <1>1, <1>2, <1>3, <1>4, <1>5, OthersKept DEF IInv

(* A decision written to the flow's entry keeps it: the entry stays where  *)
(* it is, under its tuple and its time.                                    *)
LEMMA StoreInv ==
    ASSUME IInv, NEW c \in Core, ExtStore(c) \/ Store(c)
    PROVE  IInv'
<1>1. /\ TypeOK' /\ OthersStay(c) /\ ~ segv /\ pc[c] \in {"extStore", "store"}
      /\ pc'[c] \in {"detect", "send"}
      /\ UNCHANGED <<clock, chain, segv, pkt, flusso, looked>>
      /\ \A m \in Address : entry'[m].tuple = entry[m].tuple /\ entry'[m].timestamp = entry[m].timestamp
  BY StoreTypes
<1>2. Handled(c)'
  BY <1>1 DEF IInv, Handled
<1>3. Pointing(c)'
  BY <1>1 DEF IInv, Pointing, Served
<1>4. Remembered'
  BY <1>1, RememberedStays DEF IInv
<1>5. Apart(chain')
  BY <1>1 DEF IInv
<1> QED BY <1>1, <1>2, <1>3, <1>4, <1>5, OthersKept DEF IInv

(* A core that takes a packet holds none of the table's entries.           *)
LEMMA ReceiveInv ==
    ASSUME IInv, NEW c \in Core, Receive(c)
    PROVE  IInv'
<1>1. /\ TypeOK' /\ OthersStay(c) /\ ~ segv /\ pc[c] = "idle"
      /\ pc'[c] \in {"extLookup", "detect"}
      /\ UNCHANGED <<clock, chain, entry, segv, flusso, looked>>
      /\ pkt'[c] \in Packet /\ CoreOf[pkt'[c].tuple] = c /\ pkt'[c].time = clock
  BY ReceiveTypes
<1>2. Handled(c)'
  <2>1. clock \in Nat /\ MaxSkew \in Nat
    BY FlowAssumption DEF IInv, TypeOK
  <2> QED BY <1>1, <2>1 DEF Handled
<1>3. Pointing(c)'
  BY <1>1 DEF IInv, Pointing, Served
<1>4. Remembered'
  BY <1>1, RememberedStays DEF IInv
<1>5. Apart(chain')
  BY <1>1 DEF IInv
<1> QED BY <1>1, <1>2, <1>3, <1>4, <1>5, OthersKept DEF IInv

(* A core that is done with its packet forgets its entry.                  *)
LEMMA SendInv ==
    ASSUME IInv, NEW c \in Core, Send(c)
    PROVE  IInv'
<1>1. /\ TypeOK' /\ OthersStay(c) /\ ~ segv /\ pc'[c] = "idle" /\ flusso'[c] = None
      /\ UNCHANGED <<clock, chain, entry, segv, looked>>
  BY SendTypes
<1>2. Handled(c)' /\ Pointing(c)'
  BY <1>1 DEF Handled, Pointing, Served
<1>3. Remembered'
  BY <1>1, RememberedStays DEF IInv
<1>4. Apart(chain')
  BY <1>1 DEF IInv
<1> QED BY <1>1, <1>2, <1>3, <1>4, OthersKept DEF IInv

(* A flow's entry is unlinked only when it has expired at the packet's     *)
(* time, which is not after the clock's.                                   *)
LEMMA LookupRemembered ==
    ASSUME IInv, NEW c \in Core, pkt[c] \in Packet, pkt[c].time <= clock,
           clock' = clock, pkt' = pkt,
           looked' = [x \in Tuple |-> IF Same(x, pkt[c].tuple) THEN pkt[c].time ELSE looked[x]],
           NEW n \in Address, Serves(c, n)
    PROVE  Remembered'
<1> DEFINE t == pkt[c].time
           w == pkt[c].tuple
<1> SUFFICES ASSUME ~ segv', NEW x \in Tuple, looked'[x] # Never, ~ (clock' - looked'[x] > T_OUT)
             PROVE  \E m \in Address : Keeps(m, x)'
  BY DEF Remembered
<1>1. /\ t \in Nat /\ w \in Tuple /\ clock \in Nat /\ T_OUT \in Nat
      /\ looked[x] \in Nat \cup {Never} /\ Tabled
  BY FlowAssumption, InvTabled DEF IInv, TypeOK, Packet
<1>2. ~ segv
  BY DEF Serves
<1>3. CASE Same(x, w)
  <2>1. looked'[x] = t
    BY <1>3
  <2>2. FlowHash[x] = FlowHash[w]
    BY <1>1, <1>3, FlowAssumption
  <2>3. entry'[n].tuple # None /\ Same(entry'[n].tuple, x)
    BY <1>3, SameFlow DEF Serves
  <2>4. Listed(chain', FlowHash[x], n) /\ entry'[n].timestamp = t
    BY <2>2 DEF Serves
  <2>5. Keeps(n, x)'
    BY <1>1, <2>1, <2>3, <2>4 DEF Keeps, Matches, Listed
  <2> QED BY <2>5
<1>4. CASE ~ Same(x, w)
  <2>1. looked'[x] = looked[x]
    BY <1>4
  <2>2. PICK m \in Address : Keeps(m, x)
    BY <1>2, <2>1 DEF IInv, Remembered
  <2>3. /\ Listed(chain, FlowHash[x], m) /\ FlowHash[x] \in Bucket
        /\ entry[m].timestamp \in Nat /\ looked[x] \in Nat /\ looked[x] <= entry[m].timestamp
    BY <1>1, <2>1, <2>2, FlowAssumption DEF Keeps, Tabled, TableFlow
  <2>4. ~ Expired(m, t)
    BY <1>1, <2>1, <2>3 DEF Expired
  <2>5. Listed(chain', FlowHash[x], m)
    BY <2>3, <2>4 DEF Serves
  <2>6. entry'[m] = entry[m] \/ (m = n /\ Refreshed(c, m))
    BY <2>3, <2>4 DEF Serves
  <2>7. ~ Matches(m, w)
    <3>1. Matches(m, x)
      BY <2>2 DEF Keeps
    <3>2. Same(entry[m].tuple, w) => Same(x, w)
      <4> SUFFICES ASSUME Same(entry[m].tuple, w) PROVE Same(x, w)
        OBVIOUS
      <4>1. Same(entry[m].tuple, x)
        BY <3>1 DEF Matches
      <4> QED BY <4>1 DEF Same
    <3> QED BY <1>4, <3>2 DEF Matches
  <2>8. entry'[m] = entry[m]
    BY <2>6, <2>7 DEF Refreshed
  <2>9. Keeps(m, x)'
    BY <2>1, <2>2, <2>5, <2>8 DEF Keeps, Matches, Listed
  <2> QED BY <2>9
<1> QED BY <1>3, <1>4

(* A lookup keeps the invariant: FoundServes and its likes leave chains    *)
(* apart and the core with an entry of its flow.                           *)
LEMMA LookupInv ==
    ASSUME IInv, NEW c \in Core, ExtReference(c) \/ ManagedReference(c)
    PROVE  IInv'
<1>1. /\ TypeOK' /\ OthersStay(c) /\ ~ segv /\ pc[c] # "idle" /\ pkt[c] \in Packet
      /\ pc'[c] \in {"extCall", "call"} /\ clock' = clock /\ pkt' = pkt
      /\ looked' = [x \in Tuple |-> IF Same(x, pkt[c].tuple) THEN pkt[c].time ELSE looked[x]]
      /\ Dies \/ \E n \in Address : Serves(c, n)
  BY LookupTypes
<1>2. Handled(c)'
  BY <1>1 DEF IInv, Handled
<1>3. pkt[c].time <= clock
  BY <1>1 DEF IInv, Handled
<1>4. CASE Dies
  <2>1. segv' /\ UNCHANGED <<chain, entry, flusso>>
    BY <1>4 DEF Dies
  <2>2. \A d \in Core : Handled(d)'
    BY <1>1, <1>2 DEF IInv, Handled, OthersStay
  <2>3. \A d \in Core : Pointing(d)'
    BY <1>1, <2>1 DEF IInv, Pointing, OthersStay
  <2>4. Remembered'
    BY <2>1 DEF Remembered
  <2> QED BY <1>1, <2>1, <2>2, <2>3, <2>4 DEF IInv
<1>5. ASSUME NEW n \in Address, Serves(c, n) PROVE IInv'
  <2>1. segv' = segv /\ Apart(chain') /\ flusso'[c] = n
    BY <1>5 DEF Serves, IInv, TypeOK
  <2>2. n # None
    BY FlowAssumption DEF Address
  <2>3. Pointing(c)'
    BY <1>1, <2>1, <2>2 DEF Pointing
  <2>4. Remembered'
    BY <1>1, <1>3, <1>5, LookupRemembered
  <2> QED BY <1>1, <1>2, <2>1, <2>3, <2>4, OthersKept DEF IInv
<1> QED BY <1>1, <1>4, <1>5

(* Time passes within MaxSkew of every packet that is being handled.       *)
LEMMA TickInv ==
    ASSUME IInv, Tick
    PROVE  IInv'
<1>1. /\ clock' = clock + 1 /\ UNCHANGED <<chain, entry, segv, pc, pkt, flusso, askers, seen, flag, addr, looked>>
      /\ \A c \in Core : pc[c] # "idle" => clock + 1 - pkt[c].time <= MaxSkew
  BY DEF Tick
<1>2. clock \in Nat /\ looked \in [Tuple -> Nat \cup {Never}] /\ T_OUT \in Nat
  BY FlowAssumption DEF IInv, TypeOK
<1>3. TypeOK'
  BY <1>1, <1>2 DEF IInv, TypeOK
<1>4. \A c \in Core : Handled(c)'
  <2> SUFFICES ASSUME NEW c \in Core, pc[c] # "idle"
               PROVE  /\ pkt[c] \in Packet /\ CoreOf[pkt[c].tuple] = c
                      /\ pkt[c].time <= clock' /\ clock' - pkt[c].time <= MaxSkew
    BY <1>1 DEF Handled
  <2>1. pkt[c] \in Packet /\ CoreOf[pkt[c].tuple] = c /\ pkt[c].time <= clock
    BY DEF IInv, Handled
  <2>2. pkt[c].time \in Nat
    BY <2>1 DEF Packet
  <2> QED BY <1>1, <1>2, <2>1, <2>2
<1>5. \A c \in Core : Pointing(c)'
  BY <1>1 DEF IInv, Pointing
<1>6. Remembered'
  <2> SUFFICES ASSUME ~ segv', NEW x \in Tuple, looked'[x] # Never, ~ (clock' - looked'[x] > T_OUT)
               PROVE  \E m \in Address : Keeps(m, x)'
    BY DEF Remembered
  <2>1. ~ segv /\ looked[x] # Never /\ ~ (clock - looked[x] > T_OUT)
    <3>1. ~ segv /\ looked[x] # Never /\ looked[x] \in Nat
      BY <1>1, <1>2
    <3> QED BY <1>1, <1>2, <3>1
  <2>2. PICK m \in Address : Keeps(m, x)
    BY <2>1 DEF IInv, Remembered
  <2>3. Keeps(m, x)'
    BY <1>1, <2>2 DEF Keeps, Matches, Listed
  <2> QED BY <2>3
<1>7. Apart(chain')
  BY <1>1 DEF IInv
<1> QED BY <1>3, <1>4, <1>5, <1>6, <1>7 DEF IInv

(* The invariant is inductive.                                             *)
LEMMA NextInv ==
    ASSUME IInv, [Next]_vars
    PROVE  IInv'
<1>1. CASE UNCHANGED vars
  BY <1>1 DEF vars, flows, IInv, TypeOK, Handled, Pointing, Remembered, Keeps, Matches, Listed, Apart
<1>2. CASE Tick
  BY <1>2, TickInv
<1>3. ASSUME NEW c \in Core, Receive(c) \/ Handle(c) PROVE IInv'
  <2>1. CASE Receive(c)
    BY <2>1, ReceiveInv
  <2>2. CASE Quiet(c)
    BY <2>2, QuietInv
  <2>3. CASE ExtJudge(c)
    BY <2>3, ExtJudgeInv
  <2>4. CASE ExtStore(c) \/ Store(c)
    BY <2>4, StoreInv
  <2>5. CASE ExtReference(c) \/ ManagedReference(c)
    BY <2>5, LookupInv
  <2>6. CASE Send(c)
    BY <2>6, SendInv
  <2> QED BY <1>3, <2>1, <2>2, <2>3, <2>4, <2>5, <2>6 DEF Handle, Quiet
<1> QED BY <1>1, <1>2, <1>3 DEF Next

-----------------------------------------------------------------------------
(* The entries the cores still use.                                        *)

(* The entry a core got is in the table, of its flow, and not older than   *)
(* its packet.                                                             *)
Owns(c) ==
    /\ Listed(chain, FlowHash[pkt[c].tuple], flusso[c]) /\ Matches(flusso[c], pkt[c].tuple)
    /\ pkt[c].time <= entry[flusso[c]].timestamp

(* A core that stores a decision found the flow undecided or anonymized,   *)
(* and nothing has let it pass since.                                      *)
Undecided(c) == pc[c] \in {"extStore", "store"} => entry[flusso[c]].toAnon # 0

OwnInv == \A c \in Core : flusso[c] # None => Owns(c) /\ Undecided(c)

(* The core's pointer is one to an entry of its own bucket.                *)
LEMMA OwnFacts ==
    ASSUME IInv, OwnInv, NEW c \in Core, flusso[c] # None
    PROVE  /\ pc[c] # "idle" /\ pkt[c] \in Packet /\ CoreOf[pkt[c].tuple] = c
           /\ pkt[c].tuple \in Tuple /\ FlowHash[pkt[c].tuple] \in Bucket
           /\ flusso[c] \in Address /\ entry[flusso[c]] \in TableFlow
           /\ entry[flusso[c]].tuple \in Tuple /\ CoreOf[entry[flusso[c]].tuple] = c
<1>1. pc[c] # "idle" /\ flusso[c] \in Address /\ Owns(c)
  BY DEF IInv, TypeOK, Pointing, OwnInv
<1>2. pkt[c] \in Packet /\ CoreOf[pkt[c].tuple] = c
  BY <1>1 DEF IInv, Handled
<1>3. pkt[c].tuple \in Tuple /\ FlowHash[pkt[c].tuple] \in Bucket
  BY <1>2, FlowAssumption DEF Packet
<1>4. entry[flusso[c]] \in TableFlow
  BY <1>1 DEF IInv, TypeOK
<1>5. entry[flusso[c]].tuple \in Tuple /\ Same(entry[flusso[c]].tuple, pkt[c].tuple)
  BY <1>1, <1>4 DEF Owns, Matches, TableFlow
<1>6. CoreOf[entry[flusso[c]].tuple] = c
  BY <1>2, <1>3, <1>5, FlowAssumption
<1> QED BY <1>1, <1>2, <1>3, <1>4, <1>5, <1>6

(* No two cores have the same entry: RSS gives a flow to one core.         *)
LEMMA OwnersDiffer ==
    ASSUME IInv, OwnInv, NEW c \in Core, NEW d \in Core, c # d, flusso[c] # None, flusso[d] # None
    PROVE  flusso[c] # flusso[d]
BY OwnFacts

(* A core that decides has a pointer, to an entry of its own.              *)
LEMMA DeciderOwns ==
    ASSUME IInv, OwnInv, NEW c \in Core, ~ segv, pc[c] \in Served
    PROVE  flusso[c] # None /\ flusso[c] \in Address /\ Owns(c) /\ Undecided(c)
<1>1. flusso[c] # None
  BY DEF IInv, Pointing
<1> QED BY <1>1, OwnFacts DEF OwnInv

(* A core keeps its entry when no entry of another flow, time or decision  *)
(* is written.                                                             *)
LEMMA OwnsStays ==
    ASSUME IInv, OwnInv, NEW d \in Core, flusso[d] # None,
           chain' = chain, flusso'[d] = flusso[d],
           pkt'[d].tuple = pkt[d].tuple, pkt'[d].time = pkt[d].time,
           entry'[flusso[d]].tuple = entry[flusso[d]].tuple,
           entry'[flusso[d]].timestamp = entry[flusso[d]].timestamp
    PROVE  Owns(d)'
BY DEF OwnInv, Owns, Matches, Listed

(* The steps that leave the table alone leave every core its entry.        *)
LEMMA QuietOwn ==
    ASSUME IInv, OwnInv, NEW c \in Core, Quiet(c)
    PROVE  OwnInv'
<1>1. /\ OthersStay(c) /\ ~ segv /\ UNCHANGED <<chain, entry, flusso>>
      /\ pkt'[c].tuple = pkt[c].tuple /\ pkt'[c].time = pkt[c].time
  BY QuietTypes
<1>2. \A d \in Core : flusso[d] # None => Owns(d)'
  BY <1>1, OwnsStays DEF OthersStay
<1>3. ASSUME NEW d \in Core, d # c, flusso[d] # None PROVE Undecided(d)'
  BY <1>1, <1>3 DEF OthersStay, OwnInv, Undecided
<1>4. ASSUME pc'[c] \in {"extStore", "store"} PROVE entry[flusso[c]].toAnon # 0
  <2>1. TypeOK
    BY DEF IInv
  <2>2. CASE ExtReuse(c)
    BY <2>2 DEF ExtReuse, ToAnon
  <2>3. CASE Judge(c) \/ NoName(c)
    BY <2>3 DEF Judge, NoName, ToAnon
  <2>4. CASE ExtSkip(c) \/ DetectOther(c) \/ DetectDns(c) \/ Skip(c)
    BY <1>4, <2>1, <2>4 DEF ExtSkip, DetectOther, DetectDns, Skip, Goto, TypeOK
  <2>5. CASE DetectManaged(c)
    BY <1>4, <2>1, <2>5 DEF DetectManaged, Goto, TypeOK
  <2> QED BY <2>2, <2>3, <2>4, <2>5 DEF Quiet
<1>5. Undecided(c)'
  BY <1>1, <1>4 DEF Undecided
<1> QED BY <1>1, <1>2, <1>3, <1>5 DEF OwnInv

(* So does the verdict on the external address.                            *)
LEMMA ExtJudgeOwn ==
    ASSUME IInv, OwnInv, NEW c \in Core, ExtJudge(c)
    PROVE  OwnInv'
<1>1. /\ OthersStay(c) /\ ~ segv /\ UNCHANGED <<chain, pkt, flusso>>
      /\ pc[c] = "extCall"
      /\ \A m \in Address : /\ entry'[m].tuple = entry[m].tuple
                            /\ entry'[m].timestamp = entry[m].timestamp
                            /\ entry'[m].toAnon = entry[m].toAnon
  BY ExtJudgeTypes
<1>2. ASSUME NEW d \in Core, flusso[d] # None PROVE Owns(d)' /\ Undecided(d)'
  <2>1. flusso[d] \in Address
    BY <1>2, OwnFacts
  <2>2. Owns(d)'
    <3>1. /\ chain' = chain /\ flusso'[d] = flusso[d] /\ pkt'[d] = pkt[d]
          /\ entry'[flusso[d]].tuple = entry[flusso[d]].tuple
          /\ entry'[flusso[d]].timestamp = entry[flusso[d]].timestamp
      BY <1>1, <2>1
    <3> QED BY <1>2, <3>1, OwnsStays
  <2>3. CASE d = c
    <3>1. entry[flusso[c]].toAnon = -1
      BY DEF ExtJudge, ToAnon
    <3>2. entry'[flusso'[c]].toAnon = -1
      BY <1>1, <2>1, <2>3, <3>1
    <3> QED BY <2>2, <2>3, <3>2 DEF Undecided
  <2>4. CASE d # c
    BY <1>1, <1>2, <2>1, <2>2, <2>4 DEF OthersStay, OwnInv, Undecided
  <2> QED BY <2>2, <2>3, <2>4
<1> QED BY <1>1, <1>2 DEF OwnInv

(* A decision is written to the core's own entry, which is no other        *)
(* core's.                                                                 *)
LEMMA StoreOwn ==
    ASSUME IInv, OwnInv, NEW c \in Core, ExtStore(c) \/ Store(c)
    PROVE  OwnInv'
<1>1. /\ OthersStay(c) /\ ~ segv /\ UNCHANGED <<chain, pkt, flusso>>
      /\ pc[c] \in {"extStore", "store"} /\ pc'[c] \in {"detect", "send"}
      /\ \A m \in Address : /\ entry'[m].tuple = entry[m].tuple
                            /\ entry'[m].timestamp = entry[m].timestamp
                            /\ m # flusso[c] => entry'[m] = entry[m]
  BY StoreTypes
<1>2. flusso[c] # None
  BY <1>1, DeciderOwns DEF Served
<1>3. ASSUME NEW d \in Core, flusso[d] # None PROVE Owns(d)' /\ Undecided(d)'
  <2>1. flusso[d] \in Address
    BY <1>3, OwnFacts
  <2>2. Owns(d)'
    <3>1. /\ chain' = chain /\ flusso'[d] = flusso[d] /\ pkt'[d] = pkt[d]
          /\ entry'[flusso[d]].tuple = entry[flusso[d]].tuple
          /\ entry'[flusso[d]].timestamp = entry[flusso[d]].timestamp
      BY <1>1, <2>1
    <3> QED BY <1>3, <3>1, OwnsStays
  <2>3. CASE d = c
    BY <1>1, <2>2, <2>3 DEF Undecided
  <2>4. CASE d # c
    <3>1. entry'[flusso[d]] = entry[flusso[d]]
      <4>1. flusso[d] # flusso[c]
        BY <1>2, <1>3, <2>4, OwnersDiffer
      <4> QED BY <1>1, <2>1, <4>1
    <3> QED BY <1>1, <1>3, <2>2, <2>4, <3>1 DEF OthersStay, OwnInv, Undecided
  <2> QED BY <2>2, <2>3, <2>4
<1> QED BY <1>1, <1>3 DEF OwnInv

(* A core that takes a packet has no entry yet; the others keep theirs.    *)
LEMMA ReceiveOwn ==
    ASSUME IInv, OwnInv, NEW c \in Core, Receive(c)
    PROVE  OwnInv'
<1>1. /\ OthersStay(c) /\ pc[c] = "idle" /\ UNCHANGED <<chain, entry, flusso>>
  BY ReceiveTypes
<1>2. flusso[c] = None
  BY <1>1 DEF IInv, Pointing
<1>3. \A d \in Core : flusso[d] # None => Owns(d)'
  BY <1>1, <1>2, OwnsStays DEF OthersStay
<1>4. \A d \in Core : flusso[d] # None => Undecided(d)'
  BY <1>1, <1>2 DEF OthersStay, OwnInv, Undecided
<1> QED BY <1>1, <1>3, <1>4 DEF OwnInv

(* A core that is done has no entry any more; the others keep theirs.      *)
LEMMA SendOwn ==
    ASSUME IInv, OwnInv, NEW c \in Core, Send(c)
    PROVE  OwnInv'
<1>1. OthersStay(c) /\ flusso'[c] = None /\ UNCHANGED <<chain, entry>>
  BY SendTypes
<1>2. ASSUME NEW d \in Core, d # c, flusso[d] # None PROVE Owns(d)' /\ Undecided(d)'
  <2>1. pc'[d] = pc[d] /\ pkt'[d] = pkt[d] /\ flusso'[d] = flusso[d]
    BY <1>1, <1>2 DEF OthersStay
  <2>2. Owns(d)'
    BY <1>1, <1>2, <2>1, OwnsStays
  <2> QED BY <1>1, <1>2, <2>1, <2>2 DEF OwnInv, Undecided
<1>3. \A d \in Core : d # c => flusso'[d] = flusso[d]
  BY <1>1 DEF OthersStay
<1> QED BY <1>1, <1>2, <1>3 DEF OwnInv

(* Here it matters that a core is done with its packet within T_OUT: its   *)
(* entry has not expired when another core's lookup collects garbage.      *)
LEMMA NotExpired ==
    ASSUME MaxSkew <= T_OUT, IInv, OwnInv, NEW c \in Core, NEW d \in Core, flusso[d] # None,
           pkt[c] \in Packet, pkt[c].time <= clock
    PROVE  ~ Expired(flusso[d], pkt[c].time)
<1>1. /\ pkt[d] \in Packet /\ entry[flusso[d]] \in TableFlow /\ pc[d] # "idle"
  BY OwnFacts
<1>2. clock - pkt[d].time <= MaxSkew /\ pkt[d].time <= entry[flusso[d]].timestamp
  BY <1>1 DEF IInv, Handled, OwnInv, Owns
<1>3. /\ pkt[d].time \in Nat /\ pkt[c].time \in Nat /\ clock \in Nat /\ entry[flusso[d]].timestamp \in Nat
      /\ MaxSkew \in Nat /\ T_OUT \in Nat
  BY <1>1, FlowAssumption DEF Packet, TableFlow, IInv, TypeOK
<1> QED BY <1>2, <1>3 DEF Expired

(* A lookup takes no core's entry away: what it unlinks or reuses is older *)
(* than T_OUT, and no core handles a packet that long.                     *)
LEMMA LookupOwn ==
    ASSUME MaxSkew <= T_OUT, IInv, OwnInv, NEW c \in Core, ExtReference(c) \/ ManagedReference(c)
    PROVE  OwnInv'
<1>1. /\ OthersStay(c) /\ ~ segv /\ pc[c] # "idle" /\ pkt[c] \in Packet
      /\ pc'[c] \in {"extCall", "call"} /\ clock' = clock /\ pkt' = pkt
      /\ Dies \/ \E n \in Address : Serves(c, n)
  BY LookupTypes
<1>2. pkt[c].time <= clock /\ pkt[c].time \in Nat /\ CoreOf[pkt[c].tuple] = c /\ pkt[c].tuple \in Tuple
  BY <1>1 DEF IInv, Handled, Packet
<1>3. Undecided(c)'
  BY <1>1 DEF Undecided
<1>4. CASE Dies
  <2>1. UNCHANGED <<chain, entry, flusso>>
    BY <1>4 DEF Dies
  <2>2. \A d \in Core : flusso[d] # None => Owns(d)'
    BY <1>1, <2>1, OwnsStays
  <2>3. \A d \in Core : d # c /\ flusso[d] # None => Undecided(d)'
    BY <1>1, <2>1 DEF OthersStay, OwnInv, Undecided
  <2> QED BY <1>3, <2>1, <2>2, <2>3 DEF OwnInv
<1>5. ASSUME NEW n \in Address, Serves(c, n) PROVE OwnInv'
  <2>1. flusso'[c] = n
    BY <1>5 DEF Serves, IInv, TypeOK
  <2>2. Owns(c)'
    <3>1. /\ Listed(chain', FlowHash[pkt[c].tuple], n)
          /\ entry'[n].tuple # None /\ Same(entry'[n].tuple, pkt[c].tuple)
          /\ entry'[n].timestamp = pkt[c].time
      BY <1>5, Zenon DEF Serves
    <3>2. pkt' = pkt
      BY <1>1
    <3>3. Listed(chain, FlowHash[pkt[c].tuple], flusso[c])'
      BY ONLY <2>1, <3>1, <3>2, Zenon DEF Listed
    <3>4. Matches(flusso[c], pkt[c].tuple)'
      BY ONLY <2>1, <3>1, <3>2, Zenon DEF Matches
    <3>5. pkt'[c].time <= entry'[flusso'[c]].timestamp
      BY ONLY <1>2, <2>1, <3>1, <3>2
    <3> QED BY ONLY <3>3, <3>4, <3>5, Zenon DEF Owns
  <2>3. ASSUME NEW d \in Core, d # c, flusso[d] # None PROVE Owns(d)' /\ Undecided(d)'
    <3> DEFINE m == flusso[d]
    <3>1. /\ m \in Address /\ FlowHash[pkt[d].tuple] \in Bucket
          /\ entry[m].tuple \in Tuple /\ CoreOf[entry[m].tuple] = d
      BY <2>3, OwnFacts
    <3>2. Owns(d) /\ Undecided(d) /\ Listed(chain, FlowHash[pkt[d].tuple], m)
      BY <2>3 DEF OwnInv, Owns
    <3>3. ~ Expired(m, pkt[c].time)
      BY <1>1, <1>2, <2>3, NotExpired
    <3>4. Listed(chain', FlowHash[pkt[d].tuple], m)
      BY <1>5, <3>1, <3>2, <3>3 DEF Serves
    <3>5. entry'[m] = entry[m] \/ Refreshed(c, m)
      BY <1>5, <3>1, <3>2, <3>3 DEF Serves
    <3>6. ~ Matches(m, pkt[c].tuple)
      <4>1. ~ Same(entry[m].tuple, pkt[c].tuple)
        BY <1>2, <2>3, <3>1, FlowAssumption
      <4> QED BY <4>1 DEF Matches
    <3>7. entry'[m] = entry[m]
      BY <3>5, <3>6 DEF Refreshed
    <3>8. pc'[d] = pc[d] /\ pkt'[d] = pkt[d] /\ flusso'[d] = flusso[d]
      BY <1>1, <2>3 DEF OthersStay
    <3>9. Owns(d)'
      BY <3>2, <3>4, <3>7, <3>8, Zenon DEF Owns, Matches, Listed
    <3>10. Undecided(d)'
      BY <3>2, <3>7, <3>8 DEF Undecided
    <3> QED BY <3>9, <3>10
  <2>4. \A d \in Core : d # c => flusso'[d] = flusso[d]
    BY <1>1 DEF OthersStay
  <2> QED BY <1>3, <2>2, <2>3, <2>4 DEF OwnInv
<1> QED BY <1>1, <1>4, <1>5

(* While no packet is handled for longer than T_OUT, a core's entry stays  *)
(* its own.                                                                *)
LEMMA NextOwn ==
    ASSUME MaxSkew <= T_OUT, IInv, OwnInv, [Next]_vars
    PROVE  OwnInv'
<1>1. CASE UNCHANGED vars \/ Tick
  <2>1. UNCHANGED <<chain, entry, pc, pkt, flusso>>
    BY <1>1 DEF vars, flows, Tick
  <2> QED BY <2>1 DEF OwnInv, Owns, Undecided, Matches, Listed
<1>2. ASSUME NEW c \in Core, Receive(c) \/ Handle(c) PROVE OwnInv'
  <2>1. CASE Receive(c)
    BY <2>1, ReceiveOwn
  <2>2. CASE Quiet(c)
    BY <2>2, QuietOwn
  <2>3. CASE ExtJudge(c)
    BY <2>3, ExtJudgeOwn
  <2>4. CASE ExtStore(c) \/ Store(c)
    BY <2>4, StoreOwn
  <2>5. CASE ExtReference(c) \/ ManagedReference(c)
    BY <2>5, LookupOwn
  <2>6. CASE Send(c)
    BY <2>6, SendOwn
  <2> QED BY <1>2, <2>1, <2>2, <2>3, <2>4, <2>5, <2>6 DEF Handle, Quiet
<1> QED BY <1>1, <1>2 DEF Next

(* No core has an entry in the beginning.                                  *)
LEMMA InitOwn ==
    ASSUME Init
    PROVE  OwnInv
BY DEF Init, OwnInv

-----------------------------------------------------------------------------
(* Decisions.                                                              *)

(* A decision to let a flow pass is taken back only with the entry.        *)
PassStays(m) ==
    entry[m].toAnon = 0 /\ entry'[m].toAnon # 0 =>
        entry'[m].timestamp - entry[m].timestamp > T_OUT

(* No step takes back a decision to let a flow pass, but by the expiry of  *)
(* its entry.                                                              *)
LEMMA PassStep ==
    ASSUME MaxSkew <= T_OUT, IInv, OwnInv, [Next]_vars,
           NEW m \in InUse(chain), m \in InUse(chain')
    PROVE  PassStays(m)
<1>1. /\ Tabled /\ chain' \in Chains
  BY NextInv, InvTabled DEF IInv, TypeOK, Chains
<1>2. (\E b \in Bucket : Listed(chain, b, m)) /\ (\E b \in Bucket : Listed(chain', b, m))
  BY <1>1, InUseIsListed DEF Tabled
<1>3. m \in Address
  BY <1>1, <1>2, ElementOfSeq DEF Listed, Tabled, Chains
<1>4. CASE entry'[m] = entry[m]
  BY <1>4 DEF PassStays
<1>5. ASSUME NEW c \in Core, ExtJudge(c) PROVE PassStays(m)
  BY <1>3, <1>5, ExtJudgeTypes DEF PassStays
<1>6. ASSUME NEW c \in Core, ExtStore(c) \/ Store(c) PROVE PassStays(m)
  <2>1. /\ ~ segv /\ pc[c] \in {"extStore", "store"}
        /\ m # flusso[c] => entry'[m] = entry[m]
    BY <1>3, <1>6, StoreTypes
  <2>2. entry[flusso[c]].toAnon # 0
    BY <2>1, DeciderOwns DEF Served, Undecided
  <2> QED BY <2>1, <2>2 DEF PassStays
<1>7. ASSUME NEW c \in Core, ExtReference(c) \/ ManagedReference(c) PROVE PassStays(m)
  <2>1. pkt[c] \in Packet /\ (Dies \/ \E n \in Address : Serves(c, n))
    BY <1>7, LookupTypes
  <2>2. CASE Dies
    BY <2>2 DEF Dies, PassStays
  <2>3. ASSUME NEW n \in Address, Serves(c, n) PROVE PassStays(m)
    <3>1. PICK b \in Bucket : Listed(chain, b, m)
      BY <1>2
    <3>2. PICK a \in Bucket : Listed(chain', a, m)
      BY <1>2
    <3>3. \/ entry'[m] = entry[m]
          \/ Refreshed(c, m)
          \/ Expired(m, pkt[c].time) /\ entry'[m].timestamp = pkt[c].time
      BY <1>3, <2>3, <3>1, <3>2 DEF Serves
    <3>4. CASE Refreshed(c, m)
      <4>1. entry[m] \in TableFlow
        BY <1>1, <1>3 DEF Tabled
      <4>2. entry'[m].toAnon = entry[m].toAnon
        BY <3>4, <4>1 DEF Refreshed, TableFlow
      <4> QED BY <4>2 DEF PassStays
    <3>5. CASE Expired(m, pkt[c].time) /\ entry'[m].timestamp = pkt[c].time
      BY <3>5 DEF PassStays, Expired
    <3> QED BY <1>4, <3>3, <3>4, <3>5
  <2> QED BY <2>1, <2>2, <2>3
<1>8. CASE UNCHANGED vars \/ Tick
  BY <1>8, <1>4 DEF vars, flows, Tick
<1>9. ASSUME NEW c \in Core, Receive(c) \/ Quiet(c) \/ Send(c) PROVE PassStays(m)
  <2>1. entry' = entry
    BY <1>9, QuietTypes, ReceiveTypes, SendTypes
  <2> QED BY <1>4, <2>1
<1> QED BY <1>5, <1>6, <1>7, <1>8, <1>9 DEF Next, Handle, Quiet

-----------------------------------------------------------------------------
(* The results.                                                            *)

(* The table stays well formed and every core that has an entry got one of *)
(* its packet's flow.                                                      *)
LEMMA Invariance == Spec => []IInv
<1>1. Init => IInv
  BY InitInv
<1>2. IInv /\ [Next]_vars => IInv'
  BY NextInv
<1> QED BY <1>1, <1>2, PTL DEF Spec

(* And, while no packet is handled for longer than T_OUT, the entry is     *)
(* still in use for that flow.                                             *)
LEMMA OwnInvariance == MaxSkew <= T_OUT /\ Spec => [](IInv /\ OwnInv)
<1> SUFFICES ASSUME MaxSkew <= T_OUT PROVE Spec => [](IInv /\ OwnInv)
  OBVIOUS
<1>1. Init => IInv /\ OwnInv
  BY InitInv, InitOwn
<1>2. IInv /\ OwnInv /\ [Next]_vars => (IInv /\ OwnInv)'
  BY NextInv, NextOwn
<1> QED BY <1>1, <1>2, PTL DEF Spec

(* The variables of the engine keep their types, also when the process has *)
(* died: the chains hold entries, a core a packet it received.             *)
THEOREM Typing == Spec => []TypeOK
<1>1. IInv => TypeOK
  BY DEF IInv
<1> QED BY <1>1, Invariance, PTL

(* The mutex is held during reference_flow only (flow_mng.c:35-137), yet   *)
(* no other core frees the entry that a core uses after the unlock, or     *)
(* writes another flow over it, if packets are handled within T_OUT.       *)
THEOREM EntriesKept == MaxSkew <= T_OUT /\ Spec => []EntryIsMine
<1> SUFFICES ASSUME MaxSkew <= T_OUT PROVE Spec => []EntryIsMine
  OBVIOUS
<1>1. IInv /\ OwnInv => EntryIsMine
  <2> SUFFICES ASSUME IInv, OwnInv, NEW c \in Core, flusso[c] # None
               PROVE  /\ \E j \in DOMAIN chain[FlowHash[pkt[c].tuple]] :
                            chain[FlowHash[pkt[c].tuple]][j] = flusso[c]
                      /\ Matches(flusso[c], pkt[c].tuple)
    BY DEF EntryIsMine
  <2>1. Owns(c) /\ FlowHash[pkt[c].tuple] \in Bucket
    BY OwnFacts DEF OwnInv
  <2>2. DOMAIN chain[FlowHash[pkt[c].tuple]] = 1..Len(chain[FlowHash[pkt[c].tuple]])
    BY <2>1 DEF IInv, TypeOK
  <2> QED BY <2>1, <2>2 DEF Owns, Listed
<1> QED BY <1>1, OwnInvariance, PTL

(* The garbage collection of reference_flow (flow_mng.c:69-92) and the     *)
(* reuse of a bucket's first entry take away the entry of a flow that was  *)
(* silent for longer than T_OUT, and no other, however late a core is.     *)
THEOREM OnlySilenceExpires == Spec => []ActiveFlowKept
<1>1. IInv => ActiveFlowKept
  <2> SUFFICES ASSUME IInv, NEW x \in Tuple, ~ segv, looked[x] # Never, clock - looked[x] <= T_OUT
               PROVE  \E j \in DOMAIN chain[FlowHash[x]] : Matches(chain[FlowHash[x]][j], x)
    BY DEF ActiveFlowKept
  <2>1. clock \in Nat /\ looked[x] \in Nat /\ T_OUT \in Nat /\ FlowHash[x] \in Bucket
    BY FlowAssumption DEF IInv, TypeOK
  <2>2. PICK m \in Address : Keeps(m, x)
    BY <2>1 DEF IInv, Remembered
  <2>3. DOMAIN chain[FlowHash[x]] = 1..Len(chain[FlowHash[x]])
    BY <2>1 DEF IInv, TypeOK
  <2> QED BY <2>2, <2>3 DEF Keeps, Listed
<1> QED BY <1>1, Invariance, PTL

(* An entry of the flow table that says its flow passes is not made to say *)
(* otherwise by any core, late or not, before it is given up or was silent *)
(* for longer than T_OUT, if packets are handled within T_OUT. (The flow   *)
(* may still get another entry, undecided, where reference_flow skips it.) *)
THEOREM PassedEntryKept == MaxSkew <= T_OUT /\ Spec => PassedEntryStays
<1> SUFFICES ASSUME MaxSkew <= T_OUT PROVE Spec => PassedEntryStays
  OBVIOUS
<1> DEFINE Stays == \A n \in InUse(chain) \cap InUse(chain') :
                        entry[n].toAnon = 0 /\ entry'[n].toAnon # 0 =>
                            entry'[n].timestamp - entry[n].timestamp > T_OUT
<1>1. IInv /\ OwnInv /\ [Next]_vars => Stays
  BY PassStep DEF PassStays
<1>2. [][Stays]_vars => PassedEntryStays
  BY DEF PassedEntryStays
<1> HIDE DEF Stays
<1>3. IInv /\ OwnInv /\ [Next]_vars => [Stays]_vars
  BY <1>1
<1> QED BY <1>2, <1>3, OwnInvariance, PTL DEF Spec

(* When httpEntry is called, it hides the URI, the host and the page of a  *)
(* plain request of any length within its limits, and nothing else: it     *)
(* finds each although it has rewritten those before (http_mng.c:74-216).  *)
THEOREM FieldsHidden == Spec => []RequestHidden
<1>1. RequestHidden
  BY PlainHides DEF RequestHidden
<1> QED BY <1>1, PTL

(* And it leaves the head of a request as lines, unless "host" is in the   *)
(* URI, also where it takes another word of the request for one of its     *)
(* fields, or the wrong scheme for "http://": the loops at http_mng.c:93,  *)
(* :172 and :198 end in time.                                              *)
THEOREM LinesLeft == Spec => []LinesKept
<1>1. LinesKept
  BY LinesHold DEF LinesKept
<1> QED BY <1>1, PTL

=============================================================================
