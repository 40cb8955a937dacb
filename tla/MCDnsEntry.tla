----------------------------- MODULE MCDnsEntry -----------------------------
(***************************************************************************)
(* Small messages for DnsEntry: names of one or two labels, in full or     *)
(* with a pointer to the question or to the first answer's data.           *)
(***************************************************************************)
EXTENDS DnsEntry

L == Letter
ToQuestion == <<192, HEADER>>

(* "a", "bb.a", the root, a pointer.                                       *)
Questions == {<<1, L, 0>>, <<2, L, L, 1, L, 0>>, <<0>>, ToQuestion}

Record(name, type, data) == [name |-> name, type |-> type, data |-> data]
A(name)   == Record(name, T_A, <<Addr, Addr, Addr, Addr>>)
OPT       == Record(<<0>>, 41, << >>)
AAAA      == Record(ToQuestion, 28, <<Addr, Addr>>)
SOA       == Record(ToQuestion, 6, <<1, L, 192, HEADER, 0, 0>>)

(* Where the data of a first answer with a compressed name are.            *)
ToTarget(q) == <<192, HEADER + Len(q) + 4 + 12>>

(* A short, a compressed and a long alias.                                 *)
Aliases ==
    {Record(ToQuestion, T_CNAME, d) :
        d \in {<<1, L, 0>>, <<3, L, L, L, 192, HEADER>>, <<9, L, L, L, L, L, L, L, L, L, 2, L, L, 192, HEADER>>}}

FirstAnswers == {A(ToQuestion), AAAA} \cup Aliases
LaterAnswers == {A(<<1, L, 0>>), A(<<1, L, 192, HEADER>>)} \cup Aliases

Answers(q) ==
    {<< >>} \cup {<<a>> : a \in FirstAnswers}
    \cup {<<a, b>> : a \in FirstAnswers, b \in LaterAnswers}
    \cup {<<a, A(ToTarget(q))>> : a \in Aliases}

Authorities == {<< >>, <<SOA>>, <<Record(ToQuestion, T_NS, <<2, L, L, 192, HEADER>>)>>}
Additionals == {<< >>, <<A(<<2, L, L, 0>>)>>, <<OPT>>}

Responses ==
    UNION {{[qr |-> 1, rcode |-> 0, question |-> q, answers |-> a, auth |-> u, addit |-> d] :
             a \in Answers(q), u \in Authorities, d \in Additionals} : q \in Questions}

(* A query may also have a label that the packet cuts off.                 *)
Queries ==
    {[qr |-> 0, rcode |-> 0, question |-> q, answers |-> << >>, auth |-> << >>, addit |-> d] :
        q \in Questions \cup {<<40, L, L>>}, d \in {<< >>, <<OPT>>}}

Errors == {[m EXCEPT !.rcode = 3] : m \in {x \in Responses : x.answers = << >>}}

Messages == Responses \cup Queries \cup Errors

=============================================================================
