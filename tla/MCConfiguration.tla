-------------------------- MODULE MCConfiguration ---------------------------
(***************************************************************************)
(* INI files put together from blocks of lines, in every order, and subnet *)
(* files of every content, for Configuration.                              *)
(***************************************************************************)
EXTENDS Configuration, SequencesExt, TLC

CONSTANTS f1, f2, empty, static

Section(name, index) ==
    [kind |-> "section", section |-> [name |-> name, index |-> index], indented |-> FALSE]
Entry(name, value) == [kind |-> "entry", name |-> name, value |-> value, indented |-> FALSE]
Indented(l) == [l EXCEPT !.indented = TRUE]

GroupLine(g, name, value) == <<Section("group_", g), Entry(name, value)>>
Map(p, q)  == <<Section("interfaces_mappings", 0), Entry(p, q)>>
Conf(p, g) == <<Section("interface_conf", 0), Entry(p, g)>>

Allocated == <<Section("general", 0), Entry("num_config", 2)>>

Encrypted(g, file, exempt) ==
    <<Section("group_", g), Entry("anon_ip", 1), Entry("key_mode", static), Entry("key", 1),
      Entry("anon_subnet_file", file), Entry("no_anon_subnet_file", exempt)>>

TwoGroups == Allocated \o Encrypted(0, f1, f2) \o Encrypted(1, f2, empty)

Concat(blocks) == FoldLeft(LAMBDA s, t : s \o t, << >>, blocks)
Orders(Blocks, n) == {Concat(s) : s \in UNION {[1 .. m -> Blocks] : m \in 0 .. n}}

(* Which packets go where.                                                 *)
MappingInis ==
    Orders({Map(0, 2), Map(1, 2), Map(0, 1), Map(1, 3), Map(3, 2)}, 4)

(* More outputs than out_port has room for.                                *)
TooMany == Concat([x \in 1 .. MAX_INTERFACES + 1 |-> Map(0, 2)])

(* What the interfaces do.                                                 *)
SettingInis ==
    {Allocated \o s : s \in Orders({GroupLine(0, "alpha", 0), GroupLine(0, "alpha", 2),
                                    GroupLine(0, "delta", 0), GroupLine(0, "delta", 1),
                                    Conf(2, 0), Allocated, Conf(4, 0),
                                    <<Indented(Entry("alpha", 2))>>}, 4)}
    \cup {s \o <<Section("end", 0), Entry("done", 1)>> : s \in Orders({Allocated, Conf(2, 0), GroupLine(0, "alpha", 2)}, 2)}
    \cup {TwoGroups \o s :
            s \in Orders({Conf(1, 0), Conf(2, 1), Conf(3, 0), GroupLine(0, "anon_ip", 0)}, 3)}

(* README.md's way to write the engine's entries.                          *)
Readme ==
    Allocated \o <<Section("group_", 0), Entry("anon_ip", 0), Entry("engine", 1), Indented(Entry("dns", 1)),
                   Entry("alpha", 3), Entry("delta", 1)>> \o Conf(2, 0)

(* A section that is taken for the rest of the entry before it.            *)
Hanging ==
    Allocated \o GroupLine(0, "alpha", 2) \o <<Indented(Section("general", 0)), Entry("delta", 1)>> \o Conf(2, 0)

Bits(n, w)   == [p \in 1 .. w |-> (n \div 2^(w - p)) % 2]
V4(a, n)     == [kind |-> "v4", addr |-> Bits(a, W), bits |-> n]
Masked(a, m) == [kind |-> "dotted", addr |-> Bits(a, W), mask |-> Bits(m, W)]
V6(a, n)     == [kind |-> "v6", addr |-> [x \in 1 .. Bytes6 |-> Bits(a[x], B)], bits |-> n]

SomeLines == {V4(5, 3), V4(6, 1), V4(0, 2), Masked(3, 5), V6(<<1, 2>>, 3), V6(<<3, 0>>, 0), [kind |-> "bad"]}
SomeFiles == UNION {[1 .. m -> SomeLines] : m \in 0 .. 3}

FilesAre(s, t) == (f1 :> s) @@ (f2 :> t) @@ (empty :> << >>)
TwoFiles == FilesAre(<<V4(5, 3), V6(<<1, 2>>, 3)>>, <<V4(2, 2)>>)

SameGroup == TwoGroups \o Conf(1, 0) \o Conf(2, 0)

Inputs ==
    ((MappingInis \cup SettingInis \cup {Readme, TooMany, Hanging}) \X {TwoFiles})
    \cup ({SameGroup} \X {FilesAre(s, <<V4(6, 2)>>) : s \in SomeFiles \cup {<<l>> : l \in NetLine}})

(* As README.md would have it: two groups with subnet files of their own,  *)
(* the engine's entries indented, a net of the address 0 with a length, an *)
(* input port besides port 0.                                              *)
Whitelist == <<Entry("engine", 1), Indented(Entry("external_ip", 1)), Indented(Entry("dns", 1)),
               Indented(Entry("tls", 1)), Indented(Entry("http", 0)), Entry("alpha", 3), Entry("delta", 1)>>

TwoPolicies ==
    Allocated \o Encrypted(0, f1, empty) \o Whitelist \o Encrypted(1, f2, empty) \o Whitelist
        \o Map(1, 2) \o Map(0, 3) \o Conf(2, 0) \o Conf(3, 1)

Documented == {<<TwoPolicies, FilesAre(<<V4(5, 3)>>, <<V4(0, 2)>>)>>}

=============================================================================
