------------------------ MODULE ConfigurationProofs -------------------------
(***************************************************************************)
(* For any INI file and subnet files, any number of interfaces and any     *)
(* sizes of addresses: what main_loop polls, the settings of each port and *)
(* the internal addresses are what the files say, read at once.            *)
(***************************************************************************)
EXTENDS Configuration, FiniteSetTheorems, WellFoundedInduction, TLAPS

(* The line of the section that the reader is in, 0 before the first one.  *)
OpenedBy(s) ==
    /\ section = IF s = 0 THEN NoSection ELSE ini[s].section
    /\ s # 0 => IsSection(s)
    /\ \A z \in s + 1 .. pos : ~ IsSection(z)

(* The entry that an indented line would continue.                         *)
LastEntry(s, e) ==
    /\ e \in s + 1 .. pos /\ IsEntry(e) /\ ini[e].name = prev_name
    /\ \A z \in e + 1 .. pos : Continuing(z)

IniTyped ==
    /\ Len(ini) \in Nat /\ DOMAIN ini = 1 .. Len(ini)
    /\ \A n \in DOMAIN ini : IsLine(ini[n])

(* The reader's variables are what the lines before pos say.               *)
HeaderInv ==
    /\ IniTyped
    /\ pos \in Nat /\ pos <= Len(ini)
    /\ phase \in {"init", "loop"} => pos = Len(ini)
    /\ phase \in {"ini", "init", "loop", "dead"}
    /\ \E s \in 0 .. pos :
         /\ OpenedBy(s)
         /\ IF prev_name = None THEN s = pos ELSE \E e \in Nat : LastEntry(s, e)

-----------------------------------------------------------------------------
(* Line numbers have a least one, and a greatest one before a bound.       *)
LEMMA LeastOf ==
    ASSUME NEW S \in SUBSET Nat, S # {}
    PROVE  \E m \in S : \A y \in S : m <= y
<1>1. PICK m \in S : \A q \in S : ~ (<<q, m>> \in OpToRel(<, Nat))
  BY NatLessThanWellFounded, WFMin, Zenon
<1>2. ASSUME NEW q \in S PROVE m <= q
  <2> SUFFICES ASSUME q < m PROVE FALSE
    OBVIOUS
  <2>1. <<q, m>> \in Nat \X Nat /\ <<q, m>>[1] < <<q, m>>[2]
    OBVIOUS
  <2>2. <<q, m>> \in {ss \in Nat \X Nat : ss[1] < ss[2]}
    BY <2>1
  <2> QED BY <1>1, <2>2 DEF OpToRel
<1> QED BY <1>2

(* What LastOf chooses.                                                    *)
LEMMA LastOfIs ==
    ASSUME NEW S, NEW n \in Nat, S \subseteq 0 .. n, S # {}
    PROVE  LastOf(S) \in S /\ \A y \in S : y <= LastOf(S)
<1> DEFINE Q == {n - x : x \in S}
<1>1. Q \in SUBSET Nat /\ Q # {}
  OBVIOUS
<1>2. PICK m \in Q : \A y \in Q : m <= y
  BY <1>1, LeastOf
<1>3. PICK x \in S : m = n - x
  BY <1>2
<1>4. \A y \in S : y <= x
  <2> SUFFICES ASSUME NEW y \in S PROVE y <= x
    OBVIOUS
  <2>1. m <= n - y
    BY <1>2
  <2> QED BY <1>3, <2>1
<1> QED BY <1>3, <1>4, Zenon DEF LastOf

(* A member that none exceeds is the last one.                             *)
LEMMA LastIs ==
    ASSUME NEW S, NEW n \in Nat, S \subseteq 0 .. n, NEW m \in S, \A y \in S : y <= m
    PROVE  LastOf(S) = m
<1>1. PICK l : l = LastOf(S)
  OBVIOUS
<1>2. l \in S /\ m <= l
  BY <1>1, LastOfIs
<1>3. l \in Nat /\ m \in Nat /\ l <= m
  BY <1>2
<1> QED BY <1>1, <1>2, <1>3

-----------------------------------------------------------------------------
(* Whether the next line continues the last entry is as its text says.     *)
LEMMA NextContinues ==
    ASSUME HeaderInv, pos < Len(ini)
    PROVE  /\ pos + 1 \in DOMAIN ini /\ IsLine(ini[pos + 1])
           /\ Continues(NextLine) <=> Continuing(pos + 1)
<1>1. pos \in Nat /\ Len(ini) \in Nat /\ DOMAIN ini = 1 .. Len(ini) /\ \A n \in DOMAIN ini : IsLine(ini[n])
  BY Zenon DEF HeaderInv, IniTyped
<1>2. pos + 1 \in DOMAIN ini /\ IsLine(ini[pos + 1])
  BY <1>1
<1>3. PICK s \in 0 .. pos :
        OpenedBy(s) /\ IF prev_name = None THEN s = pos ELSE \E e \in Nat : LastEntry(s, e)
  BY DEF HeaderInv
<1>4. CASE prev_name # None
  <2>1. PICK e \in Nat : LastEntry(s, e)
    BY <1>3, <1>4
  <2>2. e \in 1 .. pos /\ ini[e].kind = "entry" /\ \A z \in e + 1 .. pos : ini[z].indented
    BY <1>1, <2>1 DEF LastEntry, IsEntry, Continuing
  <2>3. ini[pos + 1].indented <=> Continuing(pos + 1)
    BY <1>1, <2>2 DEF Continuing
  <2> QED BY <1>2, <1>4, <2>3 DEF Continues, NextLine
<1>5. CASE prev_name = None
  <2>1. s = pos
    BY <1>3, <1>5
  <2>2. ASSUME Continuing(pos + 1) PROVE FALSE
    <3>1. PICK y \in 1 .. pos : ini[y].kind = "entry" /\ \A z \in y + 1 .. pos : ini[z].indented
      BY <1>1, <2>2 DEF Continuing
    <3>2. pos # 0 /\ IsSection(pos)
      BY <1>1, <1>3, <2>1, <3>1 DEF OpenedBy
    <3>3. ini[pos].kind = "section" /\ ~ Continuing(pos)
      BY <3>2 DEF IsSection
    <3>4. y # pos
      BY <3>1, <3>3
    <3>5. Continuing(pos)
      BY <1>1, <3>1, <3>4 DEF Continuing
    <3> QED BY <3>3, <3>5
  <2> QED BY <1>2, <1>5, <2>2 DEF Continues
<1> QED BY <1>2, <1>4, <1>5

(* The section a line is in is opened by the last section line before it.  *)
LEMMA WithinIs ==
    ASSUME NEW s \in Nat, NEW x \in Nat, s <= x, s # 0 => IsSection(s),
           \A z \in s + 1 .. x : ~ IsSection(z),
           NEW nm, NEW ix
    PROVE  Within(x, nm, ix) <=> s # 0 /\ ini[s].section = [name |-> nm, index |-> ix]
<1>1. ASSUME s # 0, ini[s].section = [name |-> nm, index |-> ix] PROVE Within(x, nm, ix)
  BY <1>1 DEF Within
<1>2. ASSUME Within(x, nm, ix) PROVE s # 0 /\ ini[s].section = [name |-> nm, index |-> ix]
  <2>1. PICK y \in 1 .. x : /\ IsSection(y) /\ ini[y].section = [name |-> nm, index |-> ix]
                            /\ \A z \in y + 1 .. x : ~ IsSection(z)
    BY <1>2 DEF Within
  <2>2. y <= s
    BY <2>1
  <2>3. ~ (y < s)
    BY <2>1
  <2> QED BY <2>1, <2>2, <2>3
<1> QED BY <1>1, <1>2

(* The reader is in the section nm, with number ix.                        *)
InSection(nm, ix) == section = [name |-> nm, index |-> ix]

(* A line that is an entry, or continues none, of the section the reader   *)
(* is in.                                                                  *)
LEMMA SectionOf ==
    ASSUME IniTyped, pos \in Nat, NEW s \in 0 .. pos, OpenedBy(s),
           NEW x \in DOMAIN ini, s < x, IsEntry(x), \A z \in pos + 1 .. x : ~ IsSection(z)
    PROVE  \A nm, ix : nm # "" => (x \in Entries(nm, ix) <=> InSection(nm, ix))
<1>1. s \in Nat /\ x \in Nat /\ s <= x
  BY DEF IniTyped
<1>2. s # 0 => IsSection(s)
  BY DEF OpenedBy
<1>3. \A z \in s + 1 .. x : ~ IsSection(z)
  <2> SUFFICES ASSUME NEW z \in s + 1 .. x PROVE ~ IsSection(z)
    OBVIOUS
  <2>1. z \in s + 1 .. pos \/ z \in pos + 1 .. x
    BY <1>1
  <2> QED BY <2>1 DEF OpenedBy
<1>4. \A nm, ix : Within(x, nm, ix) <=> s # 0 /\ ini[s].section = [name |-> nm, index |-> ix]
  BY <1>1, <1>2, <1>3, WithinIs
<1>5. \A nm, ix : x \in Entries(nm, ix) <=> Within(x, nm, ix)
  BY DEF Entries
<1>6. CASE s = 0
  <2>1. section = NoSection
    BY <1>6 DEF OpenedBy
  <2>2. \A nm, ix : InSection(nm, ix) => nm = ""
    BY <2>1 DEF InSection, NoSection
  <2> QED BY <1>4, <1>5, <1>6, <2>2
<1>7. CASE s # 0
  <2>1. section = ini[s].section
    BY <1>7 DEF OpenedBy
  <2> QED BY <1>4, <1>5, <1>7, <2>1 DEF InSection
<1> QED BY <1>6, <1>7

(* The next line, if it is an entry.                                       *)
LEMMA EntryHere ==
    ASSUME HeaderInv, pos < Len(ini), ~ Continues(NextLine), NextLine.kind = "entry"
    PROVE  /\ IsEntry(pos + 1)
           /\ \A nm, ix : nm # "" => (pos + 1 \in Entries(nm, ix) <=> InSection(nm, ix))
<1>1. pos \in Nat /\ Len(ini) \in Nat /\ IniTyped
  BY Zenon DEF HeaderInv, IniTyped
<1>2. pos + 1 \in DOMAIN ini /\ ~ Continuing(pos + 1)
  BY NextContinues
<1>3. IsEntry(pos + 1)
  BY <1>2 DEF IsEntry, NextLine
<1>4. PICK s \in 0 .. pos : OpenedBy(s)
  BY DEF HeaderInv
<1>5. s < pos + 1 /\ \A z \in pos + 1 .. pos + 1 : ~ IsSection(z)
  <2>1. ini[pos + 1].kind = "entry"
    BY DEF NextLine
  <2>2. ~ IsSection(pos + 1)
    BY <2>1 DEF IsSection
  <2>3. \A z \in pos + 1 .. pos + 1 : z = pos + 1
    BY <1>1
  <2> QED BY <1>1, <2>2, <2>3
<1> QED BY <1>1, <1>2, <1>3, <1>4, <1>5, SectionOf

(* The entry that the next line continues.                                 *)
Continued(e) ==
    /\ e \in 1 .. pos /\ IsEntry(e) /\ ini[e].name = prev_name
    /\ \A z \in e + 1 .. pos + 1 : Continuing(z)
    /\ \A nm, ix : nm # "" => (e \in Entries(nm, ix) <=> InSection(nm, ix))

(* A continuing line continues an entry of the section being read.         *)
LEMMA ContinuedHere ==
    ASSUME HeaderInv, pos < Len(ini), Continues(NextLine)
    PROVE  \E e \in Nat : Continued(e)
<1>1. pos \in Nat /\ Len(ini) \in Nat /\ IniTyped /\ DOMAIN ini = 1 .. Len(ini)
  BY Zenon DEF HeaderInv, IniTyped
<1>2. pos + 1 \in DOMAIN ini /\ Continuing(pos + 1)
  BY NextContinues
<1>3. prev_name # None
  BY DEF Continues
<1>4. PICK s \in 0 .. pos : OpenedBy(s) /\ \E e \in Nat : LastEntry(s, e)
  BY <1>3 DEF HeaderInv
<1>5. PICK e \in Nat : LastEntry(s, e)
  BY <1>4
<1>6. e \in 1 .. pos /\ e \in DOMAIN ini /\ s < e /\ IsEntry(e) /\ ini[e].name = prev_name
  BY <1>1, <1>5 DEF LastEntry
<1>7. \A z \in e + 1 .. pos + 1 : Continuing(z)
  <2> SUFFICES ASSUME NEW z \in e + 1 .. pos + 1 PROVE Continuing(z)
    OBVIOUS
  <2>1. z \in e + 1 .. pos \/ z = pos + 1
    BY <1>1, <1>6
  <2> QED BY <1>2, <1>5, <2>1 DEF LastEntry
<1>8. \A z \in pos + 1 .. e : ~ IsSection(z)
  BY <1>1, <1>6
<1>9. \A nm, ix : nm # "" => (e \in Entries(nm, ix) <=> InSection(nm, ix))
  BY <1>1, <1>4, <1>6, <1>8, SectionOf
<1> QED BY <1>6, <1>7, <1>9 DEF Continued

-----------------------------------------------------------------------------
(* Reading keeps the reader's variables what the lines say.                *)
ReadSame == UNCHANGED <<ini, pos, section, prev_name>>

(* HeaderInv is about what the reader has read only.                       *)
LEMMA HeaderSame ==
    ASSUME HeaderInv, ReadSame, phase' \in {"ini", "init", "loop", "dead"},
           phase' \in {"init", "loop"} => pos = Len(ini)
    PROVE  HeaderInv'
BY ZenonT(60) DEF HeaderInv, ReadSame, IniTyped, OpenedBy, LastEntry, IsSection, IsEntry, Continuing

(* A continuing line keeps HeaderInv.                                      *)
LEMMA ContinuationHeader ==
    ASSUME HeaderInv, pos < Len(ini), Continues(NextLine), pos' = pos + 1,
           UNCHANGED <<ini, section, prev_name>>, phase' \in {"ini", "dead"}
    PROVE  HeaderInv'
<1>1. pos \in Nat /\ Len(ini) \in Nat /\ IniTyped
  BY Zenon DEF HeaderInv, IniTyped
<1>2. Continuing(pos + 1) /\ ~ IsSection(pos + 1)
  BY NextContinues DEF IsSection
<1>3. prev_name # None
  BY DEF Continues
<1>4. PICK s \in 0 .. pos : OpenedBy(s) /\ \E e \in Nat : LastEntry(s, e)
  BY <1>3 DEF HeaderInv
<1>5. PICK e \in Nat : LastEntry(s, e)
  BY <1>4
<1>6. \A x : (IsSection(x)' <=> IsSection(x)) /\ (IsEntry(x)' <=> IsEntry(x)) /\ (Continuing(x)' <=> Continuing(x))
  BY DEF IsSection, IsEntry, Continuing
<1>7. OpenedBy(s)'
  <2>1. \A z \in s + 1 .. pos + 1 : z \in s + 1 .. pos \/ z = pos + 1
    BY <1>1
  <2> QED BY <1>2, <1>4, <1>6, <2>1 DEF OpenedBy
<1>8. LastEntry(s, e)'
  <2>1. \A z \in e + 1 .. pos + 1 : z \in e + 1 .. pos \/ z = pos + 1
    BY <1>1
  <2>2. e \in s + 1 .. pos + 1
    BY <1>1, <1>5 DEF LastEntry
  <2> QED BY <1>2, <1>5, <1>6, <2>1, <2>2 DEF LastEntry
<1>9. s \in 0 .. pos' /\ pos' \in Nat /\ pos' <= Len(ini') /\ IniTyped'
  BY <1>1 DEF IniTyped
<1> QED BY <1>3, <1>7, <1>8, <1>9 DEF HeaderInv

(* A section line keeps HeaderInv.                                         *)
LEMMA SectionHeader ==
    ASSUME HeaderInv, pos < Len(ini), ~ Continues(NextLine), NextLine.kind = "section", pos' = pos + 1,
           section' = NextLine.section, prev_name' = None, ini' = ini, phase' = "ini"
    PROVE  HeaderInv'
<1>1. pos \in Nat /\ Len(ini) \in Nat /\ IniTyped
  BY Zenon DEF HeaderInv, IniTyped
<1>2. IsSection(pos + 1)
  BY NextContinues DEF IsSection, NextLine
<1>3. \A x : IsSection(x)' <=> IsSection(x)
  BY DEF IsSection, Continuing
<1>4. PICK s \in Nat : s = pos + 1
  BY <1>1
<1>5. OpenedBy(s)'
  BY <1>1, <1>2, <1>3, <1>4 DEF OpenedBy, NextLine
<1>6. s \in 0 .. pos' /\ s = pos' /\ pos' \in Nat /\ pos' <= Len(ini') /\ IniTyped'
  BY <1>1, <1>4 DEF IniTyped
<1> QED BY <1>5, <1>6 DEF HeaderInv

(* A line with an entry keeps HeaderInv.                                   *)
LEMMA EntryHeader ==
    ASSUME HeaderInv, pos < Len(ini), ~ Continues(NextLine), NextLine.kind = "entry", pos' = pos + 1,
           prev_name' = NextLine.name, UNCHANGED <<ini, section>>, phase' \in {"ini", "dead"}
    PROVE  HeaderInv'
<1>1. pos \in Nat /\ Len(ini) \in Nat /\ IniTyped
  BY Zenon DEF HeaderInv, IniTyped
<1>2. IsEntry(pos + 1) /\ ~ IsSection(pos + 1)
  BY EntryHere DEF IsSection, IsEntry
<1>3. prev_name' # None
  BY NextContinues DEF IsLine, NextLine
<1>4. PICK s \in 0 .. pos : OpenedBy(s)
  BY DEF HeaderInv
<1>5. \A x : (IsSection(x)' <=> IsSection(x)) /\ (IsEntry(x)' <=> IsEntry(x)) /\ (Continuing(x)' <=> Continuing(x))
  BY DEF IsSection, IsEntry, Continuing
<1>6. OpenedBy(s)'
  <2>1. \A z \in s + 1 .. pos + 1 : z \in s + 1 .. pos \/ z = pos + 1
    BY <1>1
  <2> QED BY <1>2, <1>4, <1>5, <2>1 DEF OpenedBy
<1>7. \E e \in Nat : LastEntry(s, e)'
  <2>1. PICK e \in Nat : e = pos + 1
    BY <1>1
  <2>2. LastEntry(s, e)'
    BY <1>1, <1>2, <1>5, <2>1 DEF LastEntry, NextLine
  <2> QED BY <2>2
<1>8. s \in 0 .. pos' /\ pos' \in Nat /\ pos' <= Len(ini') /\ IniTyped'
  BY <1>1 DEF IniTyped
<1> QED BY <1>3, <1>6, <1>7, <1>8 DEF HeaderInv

-----------------------------------------------------------------------------
(* What parse_ini does with an entry, by the section the reader is in.     *)
Ignored == Keep /\ \A nm \in {"general", "interfaces_mappings", "group_", "interface_conf"} : section.name # nm

Parses(name, value) ==
    \/ InSection("general", 0) /\ General(name, value)
    \/ /\ InSection("interfaces_mappings", 0) /\ name \in Port /\ value \in Port
       /\ Len(in_interface[Place(name)].out_port) < MAX_INTERFACES /\ Mapping(name, value)
    \/ \E g : InSection("group_", g) /\ config # None /\ g \in DOMAIN config /\ Group(g, name, value)
    \/ /\ InSection("interface_conf", 0) /\ name \in Port
       /\ config # None /\ Atoi(value) \in DOMAIN config /\ InterfaceConf(name, value)
    \/ InSection("interface_conf", 0) /\ name \notin Port /\ Keep
    \/ InSection("end", 0) /\ config' = None /\ UNCHANGED <<ports, out_interface, phase>>
    \/ Ignored
    \/ Die

(* The section being read is a name and a number.                          *)
LEMMA SectionShape ==
    ASSUME HeaderInv
    PROVE  /\ section = [name |-> section.name, index |-> section.index]
           /\ section.name # "group_" => section.index = 0
<1>1. PICK s \in 0 .. pos : OpenedBy(s)
  BY DEF HeaderInv
<1>2. CASE s = 0
  BY <1>1, <1>2 DEF OpenedBy, NoSection
<1>3. CASE s # 0
  <2>1. s \in DOMAIN ini /\ IsLine(ini[s])
    <3>1. IniTyped /\ pos \in Nat /\ pos <= Len(ini)
      BY DEF HeaderInv
    <3>2. s \in DOMAIN ini
      BY <1>3, <3>1 DEF IniTyped
    <3> QED BY <3>1, <3>2 DEF IniTyped
  <2>2. section = ini[s].section /\ ini[s].kind = "section"
    BY <1>1, <1>3 DEF OpenedBy, IsSection
  <2>3. /\ ini[s].section = [name |-> ini[s].section.name, index |-> ini[s].section.index]
        /\ ini[s].section.name # "group_" => ini[s].section.index = 0
    BY <2>1, <2>2, Zenon DEF IsLine
  <2> QED BY <2>2, <2>3, Zenon
<1> QED BY <1>2, <1>3

(* What parse_ini does, by the section of the entry.                       *)
LEMMA ParseCases ==
    ASSUME HeaderInv, NEW name, NEW value, ParseIni(name, value)
    PROVE  Parses(name, value)
<1>1. \A nm : nm # "group_" /\ section.name = nm => InSection(nm, 0)
  BY SectionShape DEF InSection
<1>2. section.name = "group_" => InSection("group_", section.index)
  BY SectionShape DEF InSection
<1>3. CASE section.name = "general"
  <2>1. General(name, value)
    BY <1>3 DEF ParseIni
  <2> QED BY <1>1, <1>3, <2>1 DEF Parses
<1>4. CASE section.name = "interfaces_mappings"
  <2>1. IF {name, value} \subseteq Port /\ Len(in_interface[Place(name)].out_port) < MAX_INTERFACES
        THEN Mapping(name, value) ELSE Die
    BY <1>4 DEF ParseIni
  <2> QED BY <1>1, <1>4, <2>1 DEF Parses
<1>5. CASE section.name = "group_"
  <2>1. IF config # None /\ section.index \in DOMAIN config THEN Group(section.index, name, value) ELSE Die
    BY <1>5 DEF ParseIni
  <2> QED BY <1>2, <1>5, <2>1 DEF Parses
<1>6. CASE section.name = "interface_conf"
  <2>1. IF name \notin Port THEN Keep
        ELSE IF config # None /\ Atoi(value) \in DOMAIN config THEN InterfaceConf(name, value)
        ELSE Die
    BY <1>6 DEF ParseIni
  <2> QED BY <1>1, <1>6, <2>1 DEF Parses
<1>7. CASE section.name = "end"
  <2>1. IF config # None THEN config' = None /\ UNCHANGED <<ports, out_interface, phase>> ELSE Die
    BY <1>7 DEF ParseIni
  <2> QED BY <1>1, <1>7, <2>1 DEF Parses
<1>8. CASE section.name \notin {"general", "interfaces_mappings", "group_", "interface_conf", "end"}
  <2>1. Keep
    BY <1>8 DEF ParseIni
  <2> QED BY <1>8, <2>1 DEF Parses, Ignored
<1> QED BY <1>3, <1>4, <1>5, <1>6, <1>7, <1>8

(* A line is parsed or kills the process; it starts nothing.               *)
LEMMA ParsesPhase ==
    ASSUME NEW name, NEW value, Parses(name, value)
    PROVE  phase' \in {phase, "dead"}
BY DEF Parses, General, Mapping, Group, InterfaceConf, Keep, Ignored, Die

(* The steps of the reader: what they read.                                *)
Entry(value) ==
    /\ phase = "ini" /\ pos < Len(ini) /\ pos' = pos + 1 /\ ~ Continues(NextLine) /\ NextLine.kind = "entry"
    /\ prev_name' = NextLine.name /\ value = NextLine.value
    /\ Parses(NextLine.name, value)
    /\ UNCHANGED <<ini, files, section, port, lists>>

Continuation ==
    /\ phase = "ini" /\ pos < Len(ini) /\ pos' = pos + 1 /\ Continues(NextLine)
    /\ Parses(prev_name, Text)
    /\ UNCHANGED <<ini, files, section, prev_name, port, lists>>

Opening ==
    /\ phase = "ini" /\ pos < Len(ini) /\ pos' = pos + 1 /\ ~ Continues(NextLine) /\ NextLine.kind = "section"
    /\ section' = NextLine.section /\ prev_name' = None
    /\ UNCHANGED <<config, ports, out_interface, phase, ini, files, port, lists>>

Started ==
    /\ phase \in {"ini", "init"} /\ (phase = "ini" => pos = Len(ini)) /\ phase' \in {"init", "loop", "dead"}
    /\ UNCHANGED <<ini, files, pos, section, prev_name, config, ports, out_interface>>

(* Every step reads a line or belongs to the start.                        *)
LEMMA Steps ==
    ASSUME HeaderInv, Next
    PROVE  (\E value : Entry(value)) \/ Continuation \/ Opening \/ Started
<1>1. CASE ReadContinuation
  <2>1. ParseIni(prev_name, Text)
    BY <1>1 DEF ReadContinuation
  <2>2. Parses(prev_name, Text)
    BY <2>1, ParseCases
  <2> QED BY <1>1, <2>2 DEF ReadContinuation, Reading, Continuation
<1>2. CASE ReadSection
  BY <1>2 DEF ReadSection, Reading, Opening, Keep
<1>3. CASE ReadEntry
  <2>1. ParseIni(NextLine.name, NextLine.value)
    BY <1>3 DEF ReadEntry
  <2>2. Parses(NextLine.name, NextLine.value)
    BY <2>1, ParseCases
  <2>3. Entry(NextLine.value)
    BY <1>3, <2>2 DEF ReadEntry, Reading, Entry
  <2> QED BY <2>3
<1>4. CASE EndOfIni
  BY <1>4 DEF EndOfIni, Started
<1>5. CASE InitPort
  <2>1. phase = "init" /\ phase' \in {"init", "dead"}
    BY <1>5 DEF InitPort
  <2>2. UNCHANGED <<ini, files, pos, section, prev_name, config, ports, out_interface>>
    BY <1>5 DEF InitPort
  <2> QED BY <2>1, <2>2 DEF Started
<1>6. CASE StartLoop
  BY <1>6 DEF StartLoop, Started
<1> QED BY <1>1, <1>2, <1>3, <1>4, <1>5, <1>6 DEF Next

(* Every step keeps HeaderInv.                                             *)
LEMMA HeaderKept ==
    ASSUME HeaderInv, [Next]_vars
    PROVE  HeaderInv'
<1>1. CASE UNCHANGED vars
  BY <1>1, HeaderSame DEF vars, ReadSame, HeaderInv
<1>2. CASE \E value : Entry(value)
  <2>1. PICK value : Entry(value)
    BY <1>2
  <2>2. phase' \in {"ini", "dead"}
    BY <2>1, ParsesPhase DEF Entry
  <2> QED BY <2>1, <2>2, EntryHeader DEF Entry
<1>3. CASE Continuation
  <2>1. phase' \in {"ini", "dead"}
    BY <1>3, ParsesPhase DEF Continuation
  <2> QED BY <1>3, <2>1, ContinuationHeader DEF Continuation
<1>4. CASE Opening
  BY <1>4, SectionHeader DEF Opening
<1>5. CASE Started
  <2>1. phase' \in {"init", "loop", "dead"} /\ ReadSame
    BY <1>5 DEF Started, ReadSame
  <2>2. pos = Len(ini)
    BY <1>5 DEF Started, HeaderInv
  <2> QED BY <2>1, <2>2, HeaderSame
<1> QED BY <1>1, <1>2, <1>3, <1>4, <1>5, Steps

-----------------------------------------------------------------------------
(* The ports. The entries before in_interface_cnt are different inputs     *)
(* with an output; the one behind them has no id of its own, but may have  *)
(* got outputs of port 0, whose id it seems to have.                       *)
PortsTyped ==
    /\ in_interface_cnt \in Nat /\ in_interface_cnt <= MAX_INTERFACES
    /\ DOMAIN in_interface = Port
    /\ \A x \in Port : /\ in_interface[x] = [id |-> in_interface[x].id, out_port |-> in_interface[x].out_port]
                       /\ in_interface[x].id \in Port /\ in_interface[x].out_port \in Seq(Port)

PortsInv ==
    /\ PortsTyped
    /\ \A x, y \in Polled : in_interface[x].id = in_interface[y].id => x = y
    /\ \A x \in Polled : in_interface[x].out_port # << >> /\ in_interface[x].id \in used_ports
    /\ \A x \in Port : \A n \in DOMAIN in_interface[x].out_port : in_interface[x].out_port[n] \in used_ports
    /\ \A x \in Port : x >= in_interface_cnt => in_interface[x].id = 0
    /\ \A x \in Port : x > in_interface_cnt => in_interface[x].out_port = << >>

(* The polled entries are entries of the array.                            *)
LEMMA PolledArePorts == PortsTyped => Polled \subseteq Port /\ Polled \subseteq Nat
BY ConfigurationAssumption DEF PortsTyped, Polled, Port

(* The number of interfaces is a number.                                   *)
LEMMA MaxTyped == MAX_INTERFACES \in Nat
BY ConfigurationAssumption

(* The search finds an input where it is; there is room for a new one.     *)
LEMMA PlaceFacts ==
    ASSUME PortsInv, NEW p \in Port
    PROVE  /\ Place(p) \in Port /\ Place(p) <= in_interface_cnt
           /\ Found(p) = {} => Place(p) = in_interface_cnt /\ \A x \in Polled : in_interface[x].id # p
           /\ Found(p) # {} => in_interface[Place(p)].id = p
           /\ (\E x \in Polled : in_interface[x].id = p) => Found(p) # {} /\ Place(p) \in Polled
           /\ Found(p) # {} /\ Place(p) \notin Polled => Place(p) = in_interface_cnt /\ p = 0 /\ in_interface_cnt # 0
<1>1. MAX_INTERFACES \in Nat /\ in_interface_cnt \in Nat /\ in_interface_cnt <= MAX_INTERFACES
  BY ConfigurationAssumption DEF PortsInv, PortsTyped
<1>2. Polled \subseteq Port /\ Polled \subseteq Nat /\ Port \subseteq Nat
  BY PolledArePorts DEF PortsInv, Port
<1>3. \A x \in Polled : in_interface[x].id = p => x \in Found(p)
  <2> SUFFICES ASSUME NEW x \in Polled, in_interface[x].id = p PROVE x \in Found(p)
    OBVIOUS
  <2>1. x \in Port /\ x <= in_interface_cnt /\ in_interface_cnt # 0
    BY <1>1, <1>2 DEF Polled
  <2> QED BY <2>1 DEF Found
<1>4. CASE Found(p) = {}
  <2>1. Place(p) = in_interface_cnt /\ \A x \in Polled : in_interface[x].id # p
    BY <1>3, <1>4 DEF Place
  <2>2. ASSUME in_interface_cnt = MAX_INTERFACES PROVE FALSE
    <3>1. IsFiniteSet(Port) /\ Cardinality(Port) \in Nat
      BY <1>1, FS_Interval, FS_CardinalityType DEF Port
    <3>2. IsFiniteSet(Port \ {p}) /\ Cardinality(Port \ {p}) = Cardinality(Port) - 1
      BY <3>1, FS_RemoveElement, Zenon
    <3>3. Polled = Port
      BY <2>2 DEF Polled, Port
    <3>4. PICK f : f = [x \in Port |-> in_interface[x].id]
      OBVIOUS
    <3>5. f \in [Port -> Port \ {p}]
      BY <2>1, <3>3, <3>4 DEF PortsInv, PortsTyped
    <3>6. Cardinality(Port \ {p}) < Cardinality(Port)
      BY <3>1, <3>2
    <3>7. \E x, y \in Port : x # y /\ f[x] = f[y]
      BY <3>1, <3>2, <3>5, <3>6, FS_PigeonHole, Zenon
    <3> QED BY <3>3, <3>4, <3>7 DEF PortsInv
  <2>3. in_interface_cnt \in Port
    BY <1>1, <2>2 DEF Port
  <2> QED BY <1>1, <1>4, <2>1, <2>3
<1>5. CASE Found(p) # {}
  <2>1. Found(p) \subseteq Nat /\ \A x \in Found(p) : x \in Port /\ x <= in_interface_cnt /\ in_interface[x].id = p /\ in_interface_cnt # 0
    BY <1>2 DEF Found
  <2>2. \E x \in Found(p) : \A y \in Found(p) : x <= y
    BY <1>5, <2>1, LeastOf
  <2>3. Place(p) \in Found(p) /\ \A y \in Found(p) : Place(p) <= y
    BY <1>5, <2>2 DEF Place
  <2>4. ASSUME NEW x \in Polled, in_interface[x].id = p PROVE Place(p) \in Polled
    <3>1. Place(p) <= x /\ Place(p) \in Nat /\ x < in_interface_cnt /\ x \in Nat
      BY <1>1, <1>3, <2>1, <2>3, <2>4 DEF Polled
    <3> QED BY <1>1, <3>1 DEF Polled
  <2>5. ASSUME Place(p) \notin Polled PROVE Place(p) = in_interface_cnt /\ p = 0
    <3>1. Place(p) = in_interface_cnt
      BY <1>1, <2>1, <2>3, <2>5 DEF Polled
    <3>2. in_interface[Place(p)].id = 0
      BY <1>1, <2>1, <2>3, <3>1 DEF PortsInv
    <3> QED BY <2>1, <2>3, <3>1, <3>2
  <2> QED BY <1>5, <2>1, <2>3, <2>4, <2>5
<1> QED BY <1>4, <1>5

(* A new line of the mappings keeps them.                                  *)
LEMMA MappingPorts ==
    ASSUME PortsInv, NEW p \in Port, NEW q \in Port, Mapping(p, q)
    PROVE  PortsInv'
<1>1. PICK k \in Port : k = Place(p) /\ k <= in_interface_cnt
  BY PlaceFacts
<1>2. PICK n \in Nat : n = in_interface_cnt /\ n <= MAX_INTERFACES /\ Port \subseteq Nat
  BY DEF PortsInv, PortsTyped, Port
<1>3. PICK o \in Seq(Port) : o = in_interface[k].out_port
  BY <1>1 DEF PortsInv, PortsTyped
<1>4. PICK m : m = Append(o, q)
  OBVIOUS
<1>5. /\ m \in Seq(Port) /\ m # << >> /\ DOMAIN m = DOMAIN o \cup {Len(o) + 1}
      /\ \A x \in DOMAIN m : m[x] = q \/ (x \in DOMAIN o /\ m[x] = o[x])
  BY <1>3, <1>4
<1>6. /\ DOMAIN in_interface' = Port /\ in_interface'[k] = [id |-> p, out_port |-> m]
      /\ \A x \in Port : x # k => in_interface'[x] = in_interface[x]
  <2>1. in_interface' = [in_interface EXCEPT ![k] = [id |-> p, out_port |-> Append(@.out_port, q)]]
    BY <1>1 DEF Mapping
  <2>2. DOMAIN in_interface = Port
    BY DEF PortsInv, PortsTyped
  <2> QED BY <1>3, <1>4, <2>1, <2>2
<1>7. /\ used_ports' = used_ports \cup {p, q}
      /\ in_interface_cnt' = IF Found(p) = {} THEN n + 1 ELSE n
  BY <1>2 DEF Mapping
<1>8. PICK c \in Nat : c = in_interface_cnt' /\ c \in {n, n + 1} /\ c <= MAX_INTERFACES
  <2>1. Found(p) = {} => n < MAX_INTERFACES
    <3>1. Found(p) = {} => k = n
      BY <1>1, <1>2, PlaceFacts
    <3> QED BY <1>1, <3>1, MaxTyped DEF Port
  <2>2. CASE Found(p) = {}
    <3>1. n + 1 \in Nat /\ n + 1 <= MAX_INTERFACES
      BY <1>2, <2>1, <2>2, MaxTyped
    <3> QED BY <1>7, <2>2, <3>1
  <2>3. CASE Found(p) # {}
    BY <1>2, <1>7, <2>3
  <2> QED BY <2>2, <2>3
<1>9. \A x \in Port : x # k => (x \in Polled' <=> x \in Polled)
  <2>1. CASE Found(p) = {}
    <3>1. k = n /\ c = n + 1
      BY <1>1, <1>2, <1>7, <1>8, <2>1, PlaceFacts
    <3> QED BY <1>2, <1>8, <3>1 DEF Polled
  <2>2. CASE Found(p) # {}
    BY <1>2, <1>7, <1>8, <2>2 DEF Polled
  <2> QED BY <2>1, <2>2
<1>10. PortsTyped'
  <2>1. \A x \in Port : /\ in_interface'[x] = [id |-> in_interface'[x].id, out_port |-> in_interface'[x].out_port]
                        /\ in_interface'[x].id \in Port /\ in_interface'[x].out_port \in Seq(Port)
    BY <1>5, <1>6 DEF PortsInv, PortsTyped
  <2> QED BY <1>6, <1>8, <2>1 DEF PortsTyped, Port
<1>11. Polled' \subseteq Port
  <2>1. Polled' = 0 .. c - 1
    BY <1>8 DEF Polled
  <2>2. 0 .. c - 1 \subseteq 0 .. MAX_INTERFACES - 1
    <3>1. c <= MAX_INTERFACES /\ c \in Nat
      BY <1>8
    <3> QED BY <3>1, MaxTyped
  <2> QED BY <2>1, <2>2, Zenon DEF Polled, Port
<1>12. \A x, y \in Polled' : in_interface'[x].id = in_interface'[y].id => x = y
  <2>1. ASSUME NEW x \in Polled, x \in Port, in_interface[x].id = p PROVE x = k
    <3>1. Found(p) # {} /\ k \in Polled
      BY <1>1, <2>1, PlaceFacts
    <3>2. in_interface[k].id = p
      BY <1>1, <3>1, PlaceFacts
    <3> QED BY <2>1, <3>1, <3>2 DEF PortsInv
  <2>2. \A x \in Polled' : x # k => x \in Polled /\ in_interface'[x].id = in_interface[x].id
    BY <1>6, <1>9, <1>11
  <2>3. in_interface'[k].id = p
    BY <1>6
  <2>4. \A x, y \in Polled : in_interface[x].id = in_interface[y].id => x = y
    BY DEF PortsInv
  <2> QED BY <1>11, <2>1, <2>2, <2>3, <2>4
<1>13. \A x \in Polled' : in_interface'[x].out_port # << >> /\ in_interface'[x].id \in used_ports'
  <2> SUFFICES ASSUME NEW x \in Polled'
               PROVE  in_interface'[x].out_port # << >> /\ in_interface'[x].id \in used_ports'
    OBVIOUS
  <2>1. CASE x = k
    BY <1>5, <1>6, <1>7, <2>1
  <2>2. CASE x # k
    <3>1. x \in Polled /\ in_interface'[x] = in_interface[x]
      BY <1>6, <1>9, <1>11, <2>2
    <3>2. in_interface[x].out_port # << >> /\ in_interface[x].id \in used_ports
      BY <3>1 DEF PortsInv
    <3> QED BY <1>7, <3>1, <3>2
  <2> QED BY <2>1, <2>2
<1>14. \A x \in Port : \A i \in DOMAIN in_interface'[x].out_port : in_interface'[x].out_port[i] \in used_ports'
  <2>1. \A x \in Port : \A i \in DOMAIN in_interface[x].out_port : in_interface[x].out_port[i] \in used_ports
    BY DEF PortsInv
  <2>2. \A i \in DOMAIN o : o[i] \in used_ports
    BY <1>3, <2>1
  <2>3. \A i \in DOMAIN m : m[i] \in used_ports'
    BY <1>5, <1>7, <2>2
  <2> QED BY <1>6, <1>7, <2>1, <2>3
<1>15. \A x \in Port : x >= c => in_interface'[x].id = 0
  <2> SUFFICES ASSUME NEW x \in Port, x >= c PROVE in_interface'[x].id = 0
    OBVIOUS
  <2>1. CASE x # k
    BY <1>2, <1>6, <1>8, <2>1, SMTT(60) DEF PortsInv
  <2>2. CASE x = k
    <3>1. Found(p) # {}
      BY <1>1, <1>2, <1>7, <1>8, <2>2, PlaceFacts
    <3>2. k \notin Polled
      BY <1>2, <1>7, <1>8, <2>2, <3>1 DEF Polled
    <3>3. p = 0
      BY <1>1, <3>1, <3>2, PlaceFacts
    <3> QED BY <1>6, <2>2, <3>3
  <2> QED BY <2>1, <2>2
<1>16. \A x \in Port : x > c => in_interface'[x].out_port = << >>
  <2> SUFFICES ASSUME NEW x \in Port, x > c PROVE in_interface'[x].out_port = << >>
    OBVIOUS
  <2>1. x # k /\ x > n
    BY <1>1, <1>2, <1>8
  <2> QED BY <1>2, <1>6, <2>1 DEF PortsInv
<1> QED BY <1>8, <1>10, <1>12, <1>13, <1>14, <1>15, <1>16 DEF PortsInv

(* PortsInv is about the ports only.                                       *)
LEMMA PortsSame == PortsInv /\ UNCHANGED ports => PortsInv'
BY DEF PortsInv, PortsTyped, ports, Polled

(* Every step keeps PortsInv.                                              *)
LEMMA PortsKept ==
    ASSUME HeaderInv, PortsInv, [Next]_vars
    PROVE  PortsInv'
<1>1. \A name, value : Parses(name, value) => PortsInv'
  <2> SUFFICES ASSUME NEW name, NEW value, Parses(name, value) PROVE PortsInv'
    OBVIOUS
  <2>1. CASE name \in Port /\ value \in Port /\ Mapping(name, value)
    BY <2>1, MappingPorts
  <2>2. CASE UNCHANGED ports
    BY <2>2, PortsSame
  <2> QED BY <2>1, <2>2 DEF Parses, General, Group, InterfaceConf, Keep, Ignored, Die
<1>2. CASE UNCHANGED vars
  BY <1>2, PortsSame DEF vars
<1>3. CASE \E value : Entry(value)
  BY <1>1, <1>3 DEF Entry
<1>4. CASE Continuation
  BY <1>1, <1>4 DEF Continuation
<1>5. CASE Opening
  BY <1>5, PortsSame DEF Opening
<1>6. CASE Started
  BY <1>6, PortsSame DEF Started
<1> QED BY <1>2, <1>3, <1>4, <1>5, <1>6, Steps

(* Before the first line, HeaderInv holds.                                 *)
LEMMA InitHeader == Init => HeaderInv
<1> SUFFICES ASSUME Init PROVE HeaderInv
  OBVIOUS
<1>1. PICK x \in Input : ini = x[1] /\ files = x[2]
  BY DEF Init
<1>2. IniTyped
  BY <1>1, ConfigurationAssumption, Zenon DEF IniTyped
<1>3. pos = 0 /\ section = NoSection /\ prev_name = None /\ phase = "ini"
  BY DEF Init
<1>4. OpenedBy(0)
  BY <1>3 DEF OpenedBy
<1>5. \E s \in 0 .. pos : OpenedBy(s) /\ s = pos
  BY <1>3, <1>4
<1> QED BY <1>2, <1>3, <1>5 DEF HeaderInv, IniTyped

(* Before the first line, no port is polled.                               *)
LEMMA InitPorts == Init => PortsInv
<1> SUFFICES ASSUME Init PROVE PortsInv
  OBVIOUS
<1>1. in_interface = [x \in Port |-> [id |-> 0, out_port |-> << >>]] /\ in_interface_cnt = 0
  BY DEF Init
<1>2. Polled = {}
  BY <1>1 DEF Polled
<1>3. \A x \in Port : 0 \in Port
  BY MaxTyped DEF Port
<1>4. PortsTyped
  BY <1>1, <1>3, MaxTyped, SMTT(60) DEF PortsTyped
<1> QED BY <1>1, <1>2, <1>4 DEF PortsInv

(* Whatever the INI file says: when main_loop starts, no port is polled    *)
(* twice, each input has an output, and all of them are among the ports    *)
(* that are initialised.                                                   *)
THEOREM PortsReady == Spec => []LoopIsReady
<1> DEFINE Inv == HeaderInv /\ PortsInv
<1>1. Init => Inv
  BY InitHeader, InitPorts
<1>2. Inv /\ [Next]_vars => Inv'
  BY HeaderKept, PortsKept
<1>3. Inv => LoopIsReady
  BY PolledArePorts DEF PortsInv, LoopIsReady
<1> QED BY <1>1, <1>2, <1>3, PTL DEF Spec

-----------------------------------------------------------------------------
(* The mappings. M: the lines of the mappings in the text t of the file,   *)
(* of which those up to n were read.                                       *)
LinesTo(M, t, n, p) == {y \in M : y <= n /\ t[y].name = p}

OutputsAre(S, t, outs) ==
    /\ DOMAIN outs = 1 .. Cardinality(S)
    /\ \A x \in S : outs[Cardinality({y \in S : y <= x})] = t[x].value

ServedTo(M, t, n) ==
    /\ \A x \in Polled : \E y \in M : y <= n /\ t[y].name = in_interface[x].id
    /\ \A y \in M : y <= n => \E x \in Polled : in_interface[x].id = t[y].name
    /\ \A x \in Polled : OutputsAre(LinesTo(M, t, n, in_interface[x].id), t, in_interface[x].out_port)
    /\ \A x \in Port : x >= in_interface_cnt => in_interface[x].out_port = << >>

NotContinued(M, t, n) == \A y \in M : y < n => ~ t[y + 1].indented

(* A continued mapping kills the process: Text is no port.                 *)
ServedInv ==
    phase # "dead" /\ PortZeroFirst => ServedTo(Mappings, ini, pos) /\ NotContinued(Mappings, ini, pos)

(* One more line, one more output.                                         *)
LEMMA AppendOutput ==
    ASSUME NEW S, S \subseteq Nat, IsFiniteSet(S), NEW n \in Nat, \A y \in S : y < n,
           NEW t, NEW outs \in Seq(Port), OutputsAre(S, t, outs)
    PROVE  OutputsAre(S \cup {n}, t, Append(outs, t[n].value))
<1>1. PICK c \in Nat : c = Cardinality(S)
  BY FS_CardinalityType
<1>2. n \notin S
  OBVIOUS
<1>3. Cardinality(S \cup {n}) = c + 1
  BY <1>1, <1>2, FS_AddElement
<1>4. PICK more : more = Append(outs, t[n].value)
  OBVIOUS
<1>5. DOMAIN outs = 1 .. c
  BY <1>1 DEF OutputsAre
<1>6. Len(outs) = c /\ DOMAIN more = 1 .. c + 1 /\ more[c + 1] = t[n].value /\ \A x \in 1 .. c : more[x] = outs[x]
  <2>1. Len(outs) \in Nat /\ DOMAIN outs = 1 .. Len(outs)
    OBVIOUS
  <2>2. Len(outs) = c
    BY <1>5, <2>1
  <2> QED BY <1>4, <2>2
<1>7. ASSUME NEW x \in S PROVE more[Cardinality({y \in S \cup {n} : y <= x})] = t[x].value
  <2>1. PICK T : T = {y \in S : y <= x}
    OBVIOUS
  <2>2. {y \in S \cup {n} : y <= x} = T
    <3>1. x < n /\ x \in Nat
      OBVIOUS
    <3> QED BY <2>1, <3>1
  <2>3. T \subseteq S /\ x \in T
    BY <2>1
  <2>4. IsFiniteSet(T) /\ Cardinality(T) <= c
    BY <1>1, <2>3, FS_Subset
  <2>5. Cardinality(T) \in Nat /\ Cardinality(T) # 0
    BY <2>3, <2>4, FS_CardinalityType, FS_EmptySet
  <2>6. Cardinality(T) \in 1 .. c
    BY <2>4, <2>5
  <2>7. outs[Cardinality(T)] = t[x].value
    BY <2>1 DEF OutputsAre
  <2> QED BY <1>6, <2>2, <2>6, <2>7
<1>8. more[Cardinality({y \in S \cup {n} : y <= n})] = t[n].value
  <2>1. \A y \in S \cup {n} : y <= n
    OBVIOUS
  <2>2. {y \in S \cup {n} : y <= n} = S \cup {n}
    BY <2>1, Zenon
  <2> QED BY <1>3, <1>6, <2>2
<1>9. \A x \in S \cup {n} : more[Cardinality({y \in S \cup {n} : y <= x})] = t[x].value
  BY <1>7, <1>8
<1> QED BY <1>3, <1>4, <1>6, <1>9 DEF OutputsAre

(* Port 0, if it is an input, is found as one.                             *)
ZeroFirst(M, t) == \A x \in M : t[x].name = 0 => \E y \in M : t[y].name = 0 /\ \A z \in M : y <= z

NextMapping(M, t, n, p, q) == n \in M /\ p = t[n].name /\ q = t[n].value

(* A mapping that was read is served.                                      *)
LEMMA ServedMapping ==
    ASSUME PortsInv, NEW M \in SUBSET Nat, NEW t, NEW n \in Nat, ServedTo(M, t, n), ZeroFirst(M, t),
           NEW p \in Port, NEW q \in Port, NextMapping(M, t, n + 1, p, q), Mapping(p, q)
    PROVE  ServedTo(M, t, n + 1)'
<1>0. PICK m \in Nat : m = n + 1
  OBVIOUS
<1>1. PICK k \in Port : k = Place(p) /\ k <= in_interface_cnt
  BY PlaceFacts
<1>2. PICK c \in Nat : c = in_interface_cnt
  BY DEF PortsInv, PortsTyped
<1>3. Polled \subseteq Port /\ Polled \subseteq Nat /\ Polled = 0 .. c - 1 /\ Port \subseteq Nat
  BY <1>2, PolledArePorts DEF PortsInv, Polled, Port
<1>4. PICK o \in Seq(Port) : o = in_interface[k].out_port
  BY <1>1 DEF PortsInv, PortsTyped
<1>5. /\ DOMAIN in_interface' = Port /\ in_interface'[k] = [id |-> p, out_port |-> Append(o, q)]
      /\ \A x \in Port : x # k => in_interface'[x] = in_interface[x]
  <2>1. in_interface' = [in_interface EXCEPT ![k] = [id |-> p, out_port |-> Append(@.out_port, q)]]
    BY <1>1 DEF Mapping
  <2>2. DOMAIN in_interface = Port
    BY DEF PortsInv, PortsTyped
  <2> QED BY <1>4, <2>1, <2>2
<1>6. in_interface_cnt' = IF Found(p) = {} THEN c + 1 ELSE c
  BY <1>2 DEF Mapping
<1>7. Found(p) # {} => k \in Polled
  <2> SUFFICES ASSUME Found(p) # {}, k \notin Polled PROVE FALSE
    OBVIOUS
  <2>1. p = 0 /\ c # 0
    BY <1>1, <1>2, PlaceFacts
  <2>2. PICK y \in M : t[y].name = 0 /\ \A z \in M : y <= z
    BY <1>0, <2>1 DEF ZeroFirst, NextMapping
  <2>3. 0 \in Polled
    BY <1>3, <2>1
  <2>4. PICK z \in M : z <= n
    BY <2>3 DEF ServedTo
  <2>5. y <= n
    <3>1. y <= z /\ y \in Nat /\ z \in Nat
      BY <2>2
    <3> QED BY <2>4, <3>1
  <2>6. \E x \in Polled : in_interface[x].id = 0
    BY <2>2, <2>5 DEF ServedTo
  <2> QED BY <1>1, <2>1, <2>6, PlaceFacts
<1>8. Polled' = Polled \cup {k} /\ (k \notin Polled <=> Found(p) = {}) /\ (k \in Polled => in_interface[k].id = p)
  <2>1. CASE Found(p) = {}
    <3>1. k = c /\ in_interface_cnt' = c + 1
      BY <1>1, <1>2, <1>6, <2>1, PlaceFacts
    <3>2. 0 .. c + 1 - 1 = (0 .. c - 1) \cup {c} /\ c \notin 0 .. c - 1
      OBVIOUS
    <3>3. Polled' = 0 .. c + 1 - 1
      BY <3>1 DEF Polled
    <3> QED BY <1>3, <2>1, <3>1, <3>2, <3>3
  <2>2. CASE Found(p) # {}
    <3>1. in_interface[k].id = p
      BY <1>1, <2>2, PlaceFacts
    <3>2. in_interface_cnt' = in_interface_cnt
      BY <1>2, <1>6, <2>2
    <3> QED BY <1>7, <2>2, <3>1, <3>2 DEF Polled
  <2> QED BY <2>1, <2>2
<1>9. \A x \in Polled : x # k => in_interface[x].id # p
  <2>1. CASE k \in Polled
    BY <1>8, <2>1 DEF PortsInv
  <2>2. CASE k \notin Polled
    BY <1>8, <2>2, PlaceFacts
  <2> QED BY <2>1, <2>2
<1>10. m \in M /\ p = t[m].name /\ q = t[m].value /\ \A y \in M : y <= m <=> y <= n \/ y = m
  <2>1. \A y \in Nat : y <= m <=> y <= n \/ y = m
    BY <1>0
  <2> QED BY <1>0, <2>1 DEF NextMapping
<1>11. \A x \in Polled' : \E y \in M : y <= m /\ t[y].name = in_interface'[x].id
  <2>1. ASSUME NEW x \in Polled, x # k PROVE \E y \in M : y <= m /\ t[y].name = in_interface'[x].id
    <3>1. PICK y \in M : y <= n /\ t[y].name = in_interface[x].id
      BY DEF ServedTo
    <3>2. in_interface'[x] = in_interface[x]
      BY <1>3, <1>5, <2>1
    <3> QED BY <1>10, <3>1, <3>2
  <2>2. \E y \in M : y <= m /\ t[y].name = in_interface'[k].id
    BY <1>5, <1>10
  <2> QED BY <1>8, <2>1, <2>2
<1>12. \A y \in M : y <= m => \E x \in Polled' : in_interface'[x].id = t[y].name
  <2>1. in_interface'[k].id = p
    BY <1>5
  <2>2. \A x \in Polled : in_interface'[x].id = in_interface[x].id
    BY <1>3, <1>5, <1>8, <2>1
  <2>3. ASSUME NEW y \in M, y <= n PROVE \E x \in Polled' : in_interface'[x].id = t[y].name
    <3>1. PICK x \in Polled : in_interface[x].id = t[y].name
      BY <2>3 DEF ServedTo
    <3> QED BY <1>8, <2>2, <3>1
  <2> QED BY <1>8, <1>10, <2>1, <2>3
<1>13. PICK S : S = LinesTo(M, t, n, p)
  OBVIOUS
<1>14. S \subseteq Nat /\ IsFiniteSet(S) /\ \A y \in S : y < m
  <2>0. m = n + 1 /\ S \subseteq M /\ \A y \in S : y <= n
    BY <1>0, <1>13 DEF LinesTo
  <2>1. S \subseteq 0 .. n
    BY <2>0
  <2>2. IsFiniteSet(0 .. n)
    BY FS_Interval
  <2>3. IsFiniteSet(S)
    BY <2>1, <2>2, FS_Subset
  <2> QED BY <2>0, <2>3
<1>15. LinesTo(M, t, m, p) = S \cup {m}
  BY <1>10, <1>13 DEF LinesTo
<1>16. OutputsAre(S, t, o)
  <2>1. CASE k \in Polled
    BY <1>4, <1>8, <1>13, <2>1 DEF ServedTo
  <2>2. CASE k \notin Polled
    <3>1. S = {}
      <4> SUFFICES ASSUME NEW y \in S PROVE FALSE
        OBVIOUS
      <4>1. y \in M /\ y <= n /\ t[y].name = p
        BY <1>13 DEF LinesTo
      <4>2. \E x \in Polled : in_interface[x].id = p
        BY <4>1 DEF ServedTo
      <4> QED BY <1>8, <2>2, <4>2, PlaceFacts
    <3>2. o = << >>
      <4>1. k >= in_interface_cnt
        BY <1>2, <1>3, <2>2
      <4> QED BY <1>4, <4>1 DEF ServedTo
    <3>3. Cardinality(S) = 0
      BY <3>1, FS_EmptySet
    <3>4. DOMAIN o = 1 .. 0
      BY <3>2
    <3> QED BY <3>1, <3>3, <3>4 DEF OutputsAre
  <2> QED BY <2>1, <2>2
<1>17. OutputsAre(LinesTo(M, t, m, p), t, Append(o, q))
  <2>1. OutputsAre(S \cup {m}, t, Append(o, t[m].value))
    BY <1>14, <1>16, AppendOutput
  <2> QED BY <1>10, <1>15, <2>1
<1>18. ASSUME NEW x \in Polled'
       PROVE  OutputsAre(LinesTo(M, t, m, in_interface'[x].id), t, in_interface'[x].out_port)
  <2>1. CASE x = k
    <3>1. in_interface'[x].id = p /\ in_interface'[x].out_port = Append(o, q)
      BY <1>5, <2>1
    <3> QED BY <1>17, <3>1
  <2>2. CASE x # k
    <3>1. x \in Polled /\ in_interface'[x] = in_interface[x] /\ in_interface[x].id # p
      BY <1>3, <1>5, <1>8, <1>9, <2>2
    <3>2. LinesTo(M, t, m, in_interface[x].id) = LinesTo(M, t, n, in_interface[x].id)
      BY <1>10, <3>1 DEF LinesTo
    <3> QED BY <3>1, <3>2 DEF ServedTo
  <2> QED BY <2>1, <2>2
<1>19. \A x \in Port : x >= in_interface_cnt' => in_interface'[x].out_port = << >>
  <2> SUFFICES ASSUME NEW x \in Port, x >= in_interface_cnt' PROVE in_interface'[x].out_port = << >>
    OBVIOUS
  <2>1. x \in Nat /\ x >= c /\ x # k
    <3>1. CASE Found(p) = {}
      <4>1. k = c /\ x >= c + 1 /\ x \in Nat
        BY <1>1, <1>2, <1>3, <1>6, <3>1, PlaceFacts
      <4> QED BY <4>1
    <3>2. CASE Found(p) # {}
      <4>1. k \in 0 .. c - 1 /\ x >= c /\ x \in Nat
        BY <1>3, <1>6, <1>7, <3>2
      <4> QED BY <4>1
    <3> QED BY <3>1, <3>2
  <2> QED BY <1>2, <1>5, <2>1 DEF ServedTo
<1>20. ServedTo(M, t, m)'
  BY <1>11, <1>12, <1>18, <1>19 DEF ServedTo
<1> QED BY <1>0, <1>20

(* What is served depends on the ports only.                               *)
LEMMA ServedSame ==
    ASSUME NEW M, NEW t, NEW n, ServedTo(M, t, n), UNCHANGED ports
    PROVE  ServedTo(M, t, n)'
BY DEF ServedTo, ports, Polled

(* A line that is no mapping changes nothing.                              *)
LEMMA ServedSkip ==
    ASSUME NEW M \in SUBSET Nat, NEW t, NEW n \in Nat, n + 1 \notin M, ServedTo(M, t, n), UNCHANGED ports
    PROVE  ServedTo(M, t, n + 1)'
<1>1. PICK m \in Nat : m = n + 1
  OBVIOUS
<1>2. \A y \in M : y <= m <=> y <= n
  <2>1. \A y \in Nat : y # m => (y <= m <=> y <= n)
    BY <1>1
  <2> QED BY <1>1, <2>1
<1>3. \A p : LinesTo(M, t, m, p) = LinesTo(M, t, n, p)
  BY <1>2 DEF LinesTo
<1>4. ServedTo(M, t, m)
  <2>1. \A x \in Polled : \E y \in M : y <= m /\ t[y].name = in_interface[x].id
    BY <1>2 DEF ServedTo
  <2>2. \A y \in M : y <= m => \E x \in Polled : in_interface[x].id = t[y].name
    BY <1>2 DEF ServedTo
  <2>3. \A x \in Polled : OutputsAre(LinesTo(M, t, m, in_interface[x].id), t, in_interface[x].out_port)
    BY <1>3 DEF ServedTo
  <2> QED BY <2>1, <2>2, <2>3 DEF ServedTo
<1> QED BY <1>1, <1>4, ServedSame

(* The line after a mapping does not continue it.                          *)
LEMMA NoneContinued ==
    ASSUME HeaderInv, pos < Len(ini), NotContinued(Mappings, ini, pos),
           ~ Continues(NextLine) \/ ~ InSection("interfaces_mappings", 0)
    PROVE  NotContinued(Mappings, ini, pos + 1)
<1>1. pos \in Nat /\ DOMAIN ini = 1 .. Len(ini) /\ Len(ini) \in Nat
  BY Zenon DEF HeaderInv, IniTyped
<1>2. Mappings \subseteq Nat /\ \A y \in Mappings : IsEntry(y) /\ y # 0
  BY <1>1 DEF Mappings, Entries
<1>3. ASSUME pos \in Mappings, ini[pos + 1].indented PROVE FALSE
  <2>1. ini[pos].kind = "entry" /\ ~ Continuing(pos) /\ pos # 0
    BY <1>2, <1>3 DEF IsEntry
  <2>2. Continuing(pos + 1)
    BY <1>1, <1>3, <2>1 DEF Continuing
  <2>3. Continues(NextLine)
    BY <2>2, NextContinues
  <2>4. PICK e \in Nat : Continued(e)
    BY <2>3, ContinuedHere
  <2>5. e = pos
    <3>1. e \in 1 .. pos /\ \A z \in e + 1 .. pos + 1 : Continuing(z)
      BY <2>4 DEF Continued
    <3> QED BY <1>1, <2>1, <3>1
  <2>6. pos \in Entries("interfaces_mappings", 0) <=> InSection("interfaces_mappings", 0)
    BY <2>4, <2>5, Zenon DEF Continued
  <2> QED BY <1>3, <2>3, <2>6 DEF Mappings
<1>4. \A y \in Nat : y < pos + 1 => y < pos \/ y = pos
  BY <1>1
<1> QED BY <1>2, <1>3, <1>4 DEF NotContinued

(* Only the mappings touch the ports, and a mapping is of two ports.       *)
LEMMA MappingOrNot ==
    ASSUME NEW name, NEW value, Parses(name, value), phase' # "dead"
    PROVE  IF InSection("interfaces_mappings", 0) THEN name \in Port /\ value \in Port /\ Mapping(name, value)
           ELSE UNCHANGED ports
<1>1. \A nm, ix : InSection(nm, ix) => section.name = nm
  BY DEF InSection
<1> QED BY <1>1 DEF Parses, General, Group, InterfaceConf, Keep, Ignored, Die

(* The text stays, and what it says.                                       *)
LEMMA TextStays ==
    ASSUME ini' = ini
    PROVE  /\ \A nm, ix : Entries(nm, ix)' = Entries(nm, ix)
           /\ Mappings' = Mappings /\ (PortZeroFirst' <=> PortZeroFirst)
BY DEF Entries, IsEntry, Within, IsSection, Continuing, Mappings, PortZeroFirst

(* Every step keeps ServedInv.                                             *)
LEMMA ServedKept ==
    ASSUME HeaderInv, PortsInv, ServedInv, [Next]_vars
    PROVE  ServedInv'
<1>1. ini' = ini /\ (phase' # "dead" => phase # "dead")
  <2>1. CASE UNCHANGED vars
    BY <2>1 DEF vars
  <2>2. CASE Next
    BY <2>2, Steps DEF Entry, Continuation, Opening, Started
  <2> QED BY <2>1, <2>2
<1> SUFFICES ASSUME phase' # "dead", PortZeroFirst'
             PROVE  ServedTo(Mappings, ini, pos)' /\ NotContinued(Mappings, ini, pos)'
  BY DEF ServedInv
<1>2. PICK M, t : M = Mappings /\ t = ini
  OBVIOUS
<1>3. PICK n \in Nat : n = pos
  BY DEF HeaderInv
<1>4. Mappings' = M /\ ini' = t /\ PortZeroFirst
  BY <1>1, <1>2, TextStays
<1>5. ServedTo(M, t, n) /\ NotContinued(M, t, n) /\ ZeroFirst(M, t)
  <2>1. ServedTo(Mappings, ini, pos) /\ NotContinued(Mappings, ini, pos)
    BY <1>1, <1>4 DEF ServedInv
  <2>2. ServedTo(M, t, n) /\ NotContinued(M, t, n)
    BY <1>2, <1>3, <2>1
  <2>3. ZeroFirst(M, t)
    BY <1>2, <1>4 DEF PortZeroFirst, ZeroFirst
  <2> QED BY <2>2, <2>3
<1>6. M \in SUBSET Nat
  <2>1. M \subseteq DOMAIN ini
    BY <1>2 DEF Mappings, Entries
  <2>2. DOMAIN ini = 1 .. Len(ini) /\ Len(ini) \in Nat
    BY Zenon DEF HeaderInv, IniTyped
  <2> QED BY <2>1, <2>2
<1>7. SUFFICES \E m \in {n, n + 1} : pos' = m /\ ServedTo(M, t, m)' /\ NotContinued(M, t, m)
  BY <1>4
<1>8. CASE pos' = pos /\ UNCHANGED ports
  BY <1>3, <1>5, <1>8, ServedSame
<1>9. CASE pos' = pos + 1 /\ pos < Len(ini)
  <2>1. ASSUME n + 1 \notin M, UNCHANGED ports PROVE ServedTo(M, t, n + 1)'
    BY <1>5, <1>6, <2>1, ServedSkip
  <2>2. ASSUME ~ Continues(NextLine) \/ ~ InSection("interfaces_mappings", 0) PROVE NotContinued(M, t, n + 1)
    <3>1. NotContinued(Mappings, ini, pos)
      BY <1>2, <1>3, <1>5
    <3>2. NotContinued(Mappings, ini, pos + 1)
      BY <1>9, <2>2, <3>1, NoneContinued
    <3> QED BY <1>2, <1>3, <3>2
  <2>3. CASE \E value : Entry(value)
    <3>1. PICK value : Entry(value)
      BY <2>3
    <3>2. PICK name : name = NextLine.name
      OBVIOUS
    <3>3. ~ Continues(NextLine) /\ NextLine.kind = "entry" /\ value = NextLine.value /\ Parses(name, value)
      BY <3>1, <3>2 DEF Entry
    <3>4. pos + 1 \in Mappings <=> InSection("interfaces_mappings", 0)
      BY <1>9, <3>3, EntryHere DEF Mappings
    <3>5. IF InSection("interfaces_mappings", 0) THEN name \in Port /\ value \in Port /\ Mapping(name, value)
          ELSE UNCHANGED ports
      BY <3>3, MappingOrNot
    <3>6. CASE InSection("interfaces_mappings", 0)
      <4>1. NextMapping(M, t, n + 1, name, value)
        BY <1>2, <1>3, <3>2, <3>3, <3>4, <3>6 DEF NextMapping, NextLine
      <4>2. name \in Port /\ value \in Port /\ Mapping(name, value)
        BY <3>5, <3>6
      <4>3. ServedTo(M, t, n + 1)'
        BY <1>5, <1>6, <4>1, <4>2, ServedMapping
      <4> QED BY <1>3, <1>9, <2>2, <3>3, <4>3
    <3>7. CASE ~ InSection("interfaces_mappings", 0)
      <4>1. n + 1 \notin M /\ UNCHANGED ports
        BY <1>2, <1>3, <3>4, <3>5, <3>7
      <4> QED BY <1>3, <1>9, <2>1, <2>2, <3>3, <4>1
    <3> QED BY <3>6, <3>7
  <2>4. CASE Continuation
    <3>1. Parses(prev_name, Text) /\ Continues(NextLine)
      BY <2>4 DEF Continuation
    <3>2. Text \notin Port
      BY ConfigurationAssumption DEF Port
    <3>3. ~ InSection("interfaces_mappings", 0) /\ UNCHANGED ports
      BY <3>1, <3>2, MappingOrNot
    <3>4. pos + 1 \notin Mappings
      BY <1>9, <3>1, NextContinues DEF Mappings, Entries, IsEntry
    <3> QED BY <1>2, <1>3, <1>9, <2>1, <2>2, <3>3, <3>4
  <2>5. CASE Opening
    <3>1. ~ Continues(NextLine) /\ NextLine.kind = "section" /\ UNCHANGED ports
      BY <2>5 DEF Opening
    <3>2. pos + 1 \notin Mappings
      BY <3>1 DEF NextLine, Mappings, Entries, IsEntry
    <3> QED BY <1>2, <1>3, <1>9, <2>1, <2>2, <3>1, <3>2
  <2>6. pos' # pos
    BY <1>3, <1>9
  <2>7. ~ UNCHANGED vars /\ ~ Started
    BY <2>6 DEF vars, Started
  <2> QED BY <2>3, <2>4, <2>5, <2>7, Steps
<1>10. CASE UNCHANGED vars \/ Started
  <2>1. pos' = pos /\ UNCHANGED ports
    BY <1>10 DEF vars, Started
  <2> QED BY <1>8, <2>1
<1>11. CASE (\E value : Entry(value)) \/ Continuation \/ Opening
  <2>1. pos' = pos + 1 /\ pos < Len(ini)
    BY <1>11 DEF Entry, Continuation, Opening
  <2> QED BY <1>9, <2>1
<1> QED BY <1>10, <1>11, Steps

(* At the end of the file, all lines are read.                             *)
LEMMA ServedAll ==
    ASSUME HeaderInv, PortsInv, ServedInv
    PROVE  MappingsServed
<1> SUFFICES ASSUME Read, PortZeroFirst
             PROVE  /\ {in_interface[x].id : x \in Polled} = {ini[x].name : x \in Mappings}
                    /\ \A x \in Polled : ValuesOf(LinesOf(in_interface[x].id), in_interface[x].out_port)
  BY DEF MappingsServed
<1>1. ServedTo(Mappings, ini, pos) /\ NotContinued(Mappings, ini, pos) /\ pos = Len(ini)
  BY DEF Read, ServedInv, HeaderInv
<1>2. DOMAIN ini = 1 .. pos /\ pos \in Nat
  BY <1>1, Zenon DEF HeaderInv, IniTyped
<1>3. \A y \in Mappings : y \in Nat /\ y \in DOMAIN ini /\ y <= pos
  BY <1>2 DEF Mappings, Entries
<1>4. \A y \in Mappings : Value(y) = ini[y].value
  <2> SUFFICES ASSUME NEW y \in Mappings PROVE Value(y) = ini[y].value
    OBVIOUS
  <2>1. ASSUME y + 1 \in DOMAIN ini PROVE ~ ini[y + 1].indented
    <3>1. y < pos
      BY <1>2, <1>3, <2>1
    <3> QED BY <1>1, <3>1 DEF NotContinued
  <2> QED BY <2>1 DEF Value
<1>5. {in_interface[x].id : x \in Polled} = {ini[x].name : x \in Mappings}
  <2>1. \A x \in Polled : \E y \in Mappings : ini[y].name = in_interface[x].id
    BY <1>1 DEF ServedTo
  <2>2. \A y \in Mappings : \E x \in Polled : in_interface[x].id = ini[y].name
    BY <1>1, <1>3 DEF ServedTo
  <2> QED BY <2>1, <2>2
<1>6. ASSUME NEW x \in Polled PROVE ValuesOf(LinesOf(in_interface[x].id), in_interface[x].out_port)
  <2>1. PICK p : p = in_interface[x].id
    OBVIOUS
  <2>2. LinesTo(Mappings, ini, pos, p) = LinesOf(p)
    BY <1>3 DEF LinesTo, LinesOf
  <2>3. OutputsAre(LinesOf(p), ini, in_interface[x].out_port)
    BY <1>1, <2>1, <2>2 DEF ServedTo
  <2>4. \A y \in LinesOf(p) : Value(y) = ini[y].value
    BY <1>4 DEF LinesOf
  <2> QED BY <2>1, <2>3, <2>4 DEF OutputsAre, ValuesOf
<1> QED BY <1>5, <1>6

(* Before the first line, there is nothing to serve.                       *)
LEMMA InitServed == Init => ServedInv
<1> SUFFICES ASSUME Init PROVE ServedInv
  OBVIOUS
<1>1. pos = 0 /\ in_interface_cnt = 0 /\ in_interface = [x \in Port |-> [id |-> 0, out_port |-> << >>]]
  BY DEF Init
<1>2. HeaderInv
  BY InitHeader
<1>3. \A y \in Mappings : ~ (y <= 0) /\ ~ (y < 0)
  <2>1. \A y \in Mappings : y \in 1 .. Len(ini) /\ Len(ini) \in Nat
    BY <1>2, Zenon DEF Mappings, Entries, HeaderInv, IniTyped
  <2> QED BY <2>1
<1>4. Polled = {}
  BY <1>1 DEF Polled
<1>5. ServedTo(Mappings, ini, 0)
  BY <1>1, <1>3, <1>4 DEF ServedTo
<1>6. NotContinued(Mappings, ini, 0)
  BY <1>3 DEF NotContinued
<1> QED BY <1>1, <1>5, <1>6 DEF ServedInv

(* If port 0 is the first input or none: main_loop polls the ports that    *)
(* the mappings name, and sends to the outputs of each in the file's order.*)
THEOREM PortsServed == Spec => []MappingsServed
<1> DEFINE Inv == HeaderInv /\ PortsInv /\ ServedInv
<1>1. Init => Inv
  BY InitHeader, InitPorts, InitServed
<1>2. Inv /\ [Next]_vars => Inv'
  BY HeaderKept, PortsKept, ServedKept
<1>3. Inv => MappingsServed
  BY ServedAll
<1> QED BY <1>1, <1>2, <1>3, PTL DEF Spec

-----------------------------------------------------------------------------
(* The settings. The value of line x as far as n lines tell, and that of   *)
(* field f if the lines S set it.                                          *)
ValueTo(x, n) == IF x < n /\ ini[x + 1].indented THEN Text ELSE ini[x].value
AsField(f, v) == IF f \in StringField THEN v ELSE Atoi(v)
Known(S, n, f) == IF S = {} THEN Junk ELSE AsField(f, ValueTo(LastOf(S), n))

(* v is the value k of field f; a delta that is not positive may not be.   *)
Tells(f, k, v) == (f = "delta" => k \in Int /\ k > 0) => v = k

Shown(s, g, c, n) == \A f \in Field : Tells(f, Known(SetBy(g, c, f), n, f), s[f])

PairIs(alphas, deltas, s) ==
    /\ deltas = {} => s.delta = Junk
    /\ alphas # {} /\ (\A x \in alphas, y \in deltas : x < y) =>
           s.alpha = 0 \/ s.delta = Junk \/ s.delta > 0

Paired(s, g, c) == PairIs(SetBy(g, c, "alpha"), SetBy(g, c, "delta"), s)

(* The settings s are what the lines before c say of group g, as far as n  *)
(* lines tell.                                                             *)
Agrees(s, g, c, n) == DOMAIN s = Field /\ Shown(s, g, c, n) /\ Paired(s, g, c)

AllocLine(n) == n \in Entries("general", 0) /\ ini[n].name = "num_config"

(* Entries are line numbers.                                               *)
LEMMA EntriesAre == IniTyped => \A nm, ix : Entries(nm, ix) \in SUBSET (Nat \ {0})
<1> SUFFICES ASSUME IniTyped, NEW nm, NEW ix PROVE Entries(nm, ix) \in SUBSET (Nat \ {0})
  OBVIOUS
<1>1. Entries(nm, ix) \subseteq DOMAIN ini
  BY DEF Entries
<1> QED BY <1>1 DEF IniTyped

(* The groups' memory is allocated again, or not, by line n.               *)
LEMMA AllocNext ==
    ASSUME IniTyped, NEW n \in Nat
    PROVE  /\ Alloc(n) \in Nat
           /\ n # 0 => Alloc(n) < n
           /\ Alloc(n + 1) = IF AllocLine(n) THEN n ELSE Alloc(n)
           /\ Alloc(n) # 0 => Alloc(n) \in Entries("general", 0)
<1> DEFINE A(m) == {0} \cup {x \in Entries("general", 0) : x < m /\ ini[x].name = "num_config"}
<1>1. Entries("general", 0) \in SUBSET (Nat \ {0})
  BY EntriesAre
<1>2. \A m \in Nat : /\ LastOf(A(m)) \in A(m) /\ \A y \in A(m) : y <= LastOf(A(m))
  <2> SUFFICES ASSUME NEW m \in Nat PROVE LastOf(A(m)) \in A(m) /\ \A y \in A(m) : y <= LastOf(A(m))
    OBVIOUS
  <2>1. A(m) \subseteq 0 .. m /\ A(m) # {}
    BY <1>1
  <2> HIDE DEF A
  <2> QED BY <2>1, LastOfIs
<1>3. \A m : Alloc(m) = LastOf(A(m))
  BY DEF Alloc
<1>4. A(n) \in SUBSET Nat /\ A(n + 1) \in SUBSET Nat
  BY <1>1
<1>5. PICK a \in Nat, b \in Nat : a = Alloc(n) /\ b = Alloc(n + 1) /\ a \in A(n) /\ b \in A(n + 1)
                                  /\ (\A y \in A(n) : y <= a) /\ (\A y \in A(n + 1) : y <= b)
  <2> HIDE DEF A
  <2>1. n + 1 \in Nat
    OBVIOUS
  <2>2. /\ Alloc(n) \in A(n) /\ \A y \in A(n) : y <= Alloc(n)
        /\ Alloc(n + 1) \in A(n + 1) /\ \A y \in A(n + 1) : y <= Alloc(n + 1)
    BY <1>2, <1>3, <2>1, Zenon
  <2>3. Alloc(n) \in Nat /\ Alloc(n + 1) \in Nat
    BY <1>4, <2>2, Zenon
  <2> QED BY <2>2, <2>3, Zenon
<1>6. A(n + 1) = A(n) \cup (IF AllocLine(n) THEN {n} ELSE {})
  <2>1. \A y \in Nat : y < n + 1 <=> y < n \/ y = n
    OBVIOUS
  <2> QED BY <1>1, <2>1 DEF AllocLine
<1>7. \A y \in A(n) : y = 0 \/ y < n
  OBVIOUS
<1>8. a \in Nat /\ (n # 0 => a < n)
  BY <1>5, <1>7
<1>9. b = IF AllocLine(n) THEN n ELSE a
  <2>1. CASE AllocLine(n)
    <3>1. n \in A(n + 1)
      BY <1>6, <2>1
    <3>2. n <= b
      BY <1>5, <3>1
    <3>3. b \in A(n) \/ b = n
      BY <1>5, <1>6
    <3>4. b = n
      BY <1>7, <3>2, <3>3
    <3> QED BY <2>1, <3>4
  <2>2. CASE ~ AllocLine(n)
    <3>1. b \in A(n) /\ a \in A(n + 1)
      BY <1>5, <1>6, <2>2
    <3>2. b <= a /\ a <= b
      BY <1>5, <3>1
    <3> QED BY <2>2, <3>2
  <2> QED BY <2>1, <2>2
<1>10. a # 0 => a \in Entries("general", 0)
  BY <1>5
<1> QED BY <1>5, <1>8, <1>9, <1>10

(* The lines that set a field, one line later.                             *)
LEMMA SetByNext ==
    ASSUME IniTyped, NEW n \in Nat, n # 0, NEW g, NEW f
    PROVE  /\ SetBy(g, n, f) \subseteq Entries("group_", g) /\ SetBy(g, n, f) \subseteq Nat
           /\ \A x \in SetBy(g, n, f) : x < n
           /\ AllocLine(n) => SetBy(g, n + 1, f) = {}
           /\ ~ AllocLine(n) => SetBy(g, n + 1, f) =
                   SetBy(g, n, f) \cup (IF n \in Entries("group_", g) /\ ini[n].name = f THEN {n} ELSE {})
<1>1. Entries("group_", g) \in SUBSET Nat
  BY EntriesAre
<1>2. PICK a \in Nat, b \in Nat :
        a = Alloc(n) /\ b = Alloc(n + 1) /\ a < n /\ b = IF AllocLine(n) THEN n ELSE a
  <2>1. Alloc(n) \in Nat /\ Alloc(n) < n /\ Alloc(n + 1) = IF AllocLine(n) THEN n ELSE Alloc(n)
    BY AllocNext, Zenon
  <2>2. Alloc(n + 1) \in Nat
    BY <2>1
  <2> QED BY <2>1, <2>2, Zenon
<1>3. \A y \in Nat : y < n + 1 <=> y < n \/ y = n
  OBVIOUS
<1>4. \A y : y \in SetBy(g, n, f) <=> y \in Entries("group_", g) /\ a < y /\ y < n /\ ini[y].name = f
  BY <1>2 DEF SetBy
<1>5. \A y : y \in SetBy(g, n + 1, f) <=> y \in Entries("group_", g) /\ b < y /\ y < n + 1 /\ ini[y].name = f
  BY <1>2 DEF SetBy
<1>6. AllocLine(n) => SetBy(g, n + 1, f) = {}
  <2> SUFFICES ASSUME AllocLine(n), NEW y \in SetBy(g, n + 1, f) PROVE FALSE
    OBVIOUS
  <2>1. y \in Nat /\ n < y /\ (y < n \/ y = n)
    BY <1>1, <1>2, <1>3, <1>5
  <2> QED BY <2>1
<1>7. ASSUME ~ AllocLine(n)
      PROVE  SetBy(g, n + 1, f) =
                   SetBy(g, n, f) \cup (IF n \in Entries("group_", g) /\ ini[n].name = f THEN {n} ELSE {})
  <2>1. \A y : y \in SetBy(g, n + 1, f) <=>
                   y \in SetBy(g, n, f) \/ (y = n /\ n \in Entries("group_", g) /\ ini[n].name = f)
    BY <1>1, <1>2, <1>3, <1>4, <1>5, <1>7
  <2> QED BY <2>1
<1> QED BY <1>1, <1>4, <1>6, <1>7

(* Nothing that was said of the group changes.                             *)
LEMMA AgreesMove ==
    ASSUME IniTyped, NEW s, NEW g, NEW c \in Nat, NEW n, NEW d, NEW m, c # 0, Agrees(s, g, c, n),
           \A f : SetBy(g, d, f) = SetBy(g, c, f),
           \A x \in Entries("group_", g) : x < c => ValueTo(x, m) = ValueTo(x, n)
    PROVE  Agrees(s, g, d, m)
<1>1. ASSUME NEW f PROVE Known(SetBy(g, d, f), m, f) = Known(SetBy(g, c, f), n, f)
  <2>1. PICK S : S = SetBy(g, c, f) /\ S = SetBy(g, d, f)
    OBVIOUS
  <2>2. CASE S = {}
    BY <2>1, <2>2 DEF Known
  <2>3. CASE S # {}
    <3>1. S \subseteq 0 .. c /\ S \subseteq Entries("group_", g) /\ \A x \in S : x < c
      BY <2>1, SetByNext
    <3>2. LastOf(S) \in S
      BY <2>3, <3>1, LastOfIs
    <3>3. ValueTo(LastOf(S), m) = ValueTo(LastOf(S), n)
      BY <3>1, <3>2
    <3> QED BY <2>1, <2>3, <3>3 DEF Known
  <2> QED BY <2>2, <2>3
<1>2. Shown(s, g, d, m)
  BY <1>1 DEF Agrees, Shown
<1>3. Paired(s, g, d)
  <2>1. SetBy(g, d, "alpha") = SetBy(g, c, "alpha") /\ SetBy(g, d, "delta") = SetBy(g, c, "delta")
    OBVIOUS
  <2> QED BY <2>1 DEF Agrees, Paired
<1> QED BY <1>2, <1>3 DEF Agrees

(* A new value v of the setting name.                                      *)
AssignedTo(s, r, name, v) ==
    /\ DOMAIN r = Field
    /\ \A f \in IntField \cup StringField : r[f] = IF f = name THEN AsField(f, v) ELSE s[f]
    /\ r.delta \in IF name = "delta" THEN Delta(s, v) ELSE {s.delta}

(* The kinds of fields are disjoint.                                       *)
LEMMA FieldsAre ==
    /\ IntField \subseteq Field /\ StringField \subseteq Field /\ "delta" \in Field /\ "alpha" \in IntField
    /\ "delta" \notin IntField /\ "delta" \notin StringField /\ \A f \in IntField : f \notin StringField
BY DEF Field, IntField, StringField

(* What a line assigns, field by field.                                    *)
LEMMA AssignedIs ==
    ASSUME NEW s, DOMAIN s = Field, NEW name, NEW v, NEW r \in Assigned(s, name, v)
    PROVE  AssignedTo(s, r, name, v)
<1>1. CASE name \in IntField
  <2>0. name \notin StringField /\ name # "delta"
    BY <1>1, FieldsAre
  <2>1. r = [s EXCEPT ![name] = Atoi(v)]
    BY <1>1, <2>0 DEF Assigned
  <2>2. DOMAIN r = Field /\ \A f \in Field : r[f] = IF f = name THEN Atoi(v) ELSE s[f]
    BY <1>1, <2>1, FieldsAre
  <2> QED BY <1>1, <2>2, FieldsAre DEF AssignedTo, AsField
<1>2. CASE name \in StringField
  <2>1. r = [s EXCEPT ![name] = v]
    BY <1>2, FieldsAre DEF Assigned
  <2>2. DOMAIN r = Field /\ \A f \in Field : r[f] = IF f = name THEN v ELSE s[f]
    BY <1>2, <2>1, FieldsAre
  <2> QED BY <1>2, <2>2, FieldsAre DEF AssignedTo, AsField
<1>3. CASE name = "delta"
  <2>1. PICK d \in Delta(s, v) : r = [s EXCEPT !.delta = d]
    BY <1>3, FieldsAre DEF Assigned
  <2>2. DOMAIN r = Field /\ \A f \in Field : r[f] = IF f = "delta" THEN d ELSE s[f]
    BY <2>1, FieldsAre
  <2> QED BY <1>3, <2>1, <2>2, FieldsAre DEF AssignedTo
<1>4. CASE name \notin IntField /\ name \notin StringField /\ name # "delta"
  <2>1. r = s
    BY <1>4 DEF Assigned
  <2> QED BY <1>4, <2>1 DEF AssignedTo
<1> QED BY <1>1, <1>2, <1>3, <1>4

(* atoi gives a number, 0 for a text.                                      *)
LEMMA AtoiTyped == (\A v : Atoi(v) \in Int) /\ Atoi(Text) = 0 /\ Junk \notin Int
BY ConfigurationAssumption DEF Atoi

(* The check of the pair keeps what it promises.                           *)
LEMMA PairSet ==
    ASSUME NEW alphas, NEW deltas, NEW n \in Nat, \A y \in deltas : y \in Nat /\ y < n,
           NEW s, PairIs(alphas, deltas, s), alphas # {} => s.alpha \in Int,
           NEW r, NEW name, NEW v, AssignedTo(s, r, name, v)
    PROVE  PairIs(IF name = "alpha" THEN alphas \cup {n} ELSE alphas,
                  IF name = "delta" THEN deltas \cup {n} ELSE deltas, r)
<1>1. r.delta \in IF name = "delta" THEN Delta(s, v) ELSE {s.delta}
  BY DEF AssignedTo
<1>2. name # "alpha" => r.alpha = s.alpha
  BY FieldsAre DEF AssignedTo
<1>3. CASE name = "alpha"
  <2>1. r.delta = s.delta
    BY <1>1, <1>3
  <2>2. ASSUME \A x \in alphas \cup {n}, y \in deltas : x < y PROVE deltas = {}
    <3>1. \A y \in deltas : n < y
      BY <2>2
    <3>2. \A y \in Nat : ~ (y < n /\ n < y)
      OBVIOUS
    <3> QED BY <3>1, <3>2
  <2>3. deltas = {} => r.delta = Junk
    BY <2>1 DEF PairIs
  <2> QED BY <1>3, <2>2, <2>3 DEF PairIs
<1>4. CASE name = "delta"
  <2>1. ASSUME alphas # {}, \A x \in alphas, y \in deltas \cup {n} : x < y
        PROVE  r.alpha = 0 \/ r.delta = Junk \/ r.delta > 0
    <3>1. s.alpha \in Int /\ s.alpha # Junk
      BY <2>1, AtoiTyped
    <3>2. s.alpha = 0 \/ s.delta = Junk \/ s.delta > 0
      BY <2>1 DEF PairIs
    <3>3. CASE s.alpha = 0
      BY <1>2, <1>4, <3>3
    <3>4. CASE s.alpha # 0
      <4>1. r.delta = IF Atoi(v) > 0 THEN Atoi(v) ELSE s.delta
        BY <1>1, <1>4, <3>1, <3>4 DEF Delta
      <4> QED BY <3>2, <3>4, <4>1
    <3> QED BY <3>3, <3>4
  <2> QED BY <1>4, <2>1 DEF PairIs
<1>5. CASE name # "alpha" /\ name # "delta"
  <2>1. r.alpha = s.alpha /\ r.delta = s.delta
    BY <1>1, <1>2, <1>5
  <2> QED BY <1>5, <2>1 DEF PairIs
<1> QED BY <1>3, <1>4, <1>5

(* So does an entry that is continued: its value counts as 0.              *)
LEMMA PairCut ==
    ASSUME NEW alphas, NEW deltas, NEW s, PairIs(alphas, deltas, s), alphas # {} => s.alpha \in Int,
           NEW r, NEW name, AssignedTo(s, r, name, Text), name = "delta" => deltas # {}
    PROVE  PairIs(alphas, deltas, r)
<1>1. r.delta \in IF name = "delta" THEN Delta(s, Text) ELSE {s.delta}
  BY DEF AssignedTo
<1>2. r.alpha = IF name = "alpha" THEN 0 ELSE s.alpha
  BY FieldsAre, AtoiTyped DEF AssignedTo, AsField
<1>3. CASE name = "alpha"
  BY <1>1, <1>2, <1>3 DEF PairIs
<1>4. CASE name = "delta"
  <2>1. ASSUME alphas # {}, \A x \in alphas, y \in deltas : x < y
        PROVE  r.alpha = 0 \/ r.delta = Junk \/ r.delta > 0
    <3>1. s.alpha \in Int /\ s.alpha # Junk
      BY <2>1, AtoiTyped
    <3>2. s.alpha = 0 \/ s.delta = Junk \/ s.delta > 0
      BY <2>1 DEF PairIs
    <3>3. CASE s.alpha = 0
      BY <1>2, <1>4, <3>3
    <3>4. CASE s.alpha # 0
      <4>1. r.delta = s.delta
        BY <1>1, <1>4, <3>1, <3>4, AtoiTyped DEF Delta
      <4> QED BY <3>2, <3>4, <4>1
    <3> QED BY <3>3, <3>4
  <2> QED BY <1>4, <2>1 DEF PairIs
<1>5. CASE name # "alpha" /\ name # "delta"
  <2>1. r.alpha = s.alpha /\ r.delta = s.delta
    BY <1>1, <1>2, <1>5
  <2> QED BY <2>1 DEF PairIs
<1> QED BY <1>3, <1>4, <1>5

(* New memory agrees with the lines behind the allocation: none.           *)
LEMMA AgreesFresh ==
    ASSUME IniTyped, NEW n \in Nat, n # 0, AllocLine(n), NEW g, NEW m
    PROVE  Agrees(Unset, g, n + 1, m)
<1>1. \A f : SetBy(g, n + 1, f) = {}
  BY SetByNext
<1>2. DOMAIN Unset = Field /\ \A f \in Field : Unset[f] = Junk
  BY DEF Unset
<1>3. Shown(Unset, g, n + 1, m)
  <2>1. \A f \in Field : Unset[f] = Known(SetBy(g, n + 1, f), m, f)
    BY <1>1, <1>2 DEF Known
  <2> QED BY <2>1 DEF Shown, Tells
<1>4. Paired(Unset, g, n + 1)
  BY <1>1, <1>2, FieldsAre DEF Paired, PairIs
<1> QED BY <1>2, <1>3, <1>4 DEF Agrees

(* An alpha that was written is a number.                                  *)
LEMMA AlphaIsInt ==
    ASSUME NEW s, NEW g, NEW c, NEW n, Agrees(s, g, c, n)
    PROVE  SetBy(g, c, "alpha") # {} => s.alpha \in Int
<1>1. s.alpha = Known(SetBy(g, c, "alpha"), n, "alpha")
  BY FieldsAre DEF Agrees, Shown, Tells
<1>2. \A v : AsField("alpha", v) \in Int
  BY FieldsAre, AtoiTyped DEF AsField
<1> QED BY <1>1, <1>2 DEF Known

(* A new value is kept, but for a delta that is refused.                   *)
LEMMA AssignedTells ==
    ASSUME NEW s, NEW r, NEW f \in Field, NEW v, AssignedTo(s, r, f, v)
    PROVE  Tells(f, AsField(f, v), r[f])
<1>1. CASE f = "delta"
  <2>1. r.delta \in Delta(s, v)
    BY <1>1 DEF AssignedTo
  <2>2. AsField(f, v) = Atoi(v)
    BY <1>1, FieldsAre DEF AsField
  <2>3. Atoi(v) > 0 => r.delta = Atoi(v)
    BY <2>1 DEF Delta
  <2> QED BY <1>1, <2>2, <2>3 DEF Tells
<1>2. CASE f # "delta"
  <2>1. f \in IntField \cup StringField
    BY <1>2 DEF Field
  <2> QED BY <2>1 DEF AssignedTo, Tells
<1> QED BY <1>1, <1>2

(* The other fields are not touched.                                       *)
LEMMA OthersKept ==
    ASSUME NEW s, NEW r, NEW name, NEW v, AssignedTo(s, r, name, v), NEW f \in Field, f # name
    PROVE  r[f] = s[f]
<1>1. f = "delta" \/ f \in IntField \cup StringField
  BY DEF Field
<1> QED BY <1>1 DEF AssignedTo

(* A line of a group that was assigned agrees.                             *)
LEMMA AgreesSet ==
    ASSUME IniTyped, NEW n \in Nat, n # 0, ~ AllocLine(n), NEW g, n \in Entries("group_", g),
           NEW s, Agrees(s, g, n, n), NEW r, AssignedTo(s, r, ini[n].name, ini[n].value)
    PROVE  Agrees(r, g, n + 1, n)
<1>1. PICK name, v : name = ini[n].name /\ v = ini[n].value
  OBVIOUS
<1>2. AssignedTo(s, r, name, v)
  BY <1>1
<1>3. \A f : SetBy(g, n + 1, f) = IF f = name THEN SetBy(g, n, f) \cup {n} ELSE SetBy(g, n, f)
  <2>1. \A f : SetBy(g, n + 1, f) =
               SetBy(g, n, f) \cup (IF n \in Entries("group_", g) /\ ini[n].name = f THEN {n} ELSE {})
    BY SetByNext
  <2> QED BY <1>1, <2>1
<1>4. \A f : SetBy(g, n, f) \subseteq Nat /\ \A x \in SetBy(g, n, f) : x < n
  BY SetByNext
<1>5. ASSUME NEW f \in Field PROVE Tells(f, Known(SetBy(g, n + 1, f), n, f), r[f])
  <2>1. CASE f = name
    <3>1. PICK S : S = SetBy(g, n, f) \cup {n}
      OBVIOUS
    <3>2. S \subseteq 0 .. n /\ S # {} /\ n \in S
      BY <1>4, <3>1
    <3>3. \A y \in S : y <= n
      BY <3>2
    <3>4. LastOf(S) = n
      BY <3>2, <3>3, LastIs
    <3>5. ValueTo(n, n) = v
      BY <1>1 DEF ValueTo
    <3>6. Known(S, n, f) = AsField(f, v)
      BY <3>2, <3>4, <3>5 DEF Known
    <3>7. Tells(f, AsField(f, v), r[f])
      BY <1>2, <2>1, AssignedTells
    <3> QED BY <1>3, <2>1, <3>1, <3>6, <3>7
  <2>2. CASE f # name
    <3>1. Tells(f, Known(SetBy(g, n, f), n, f), s[f])
      BY DEF Agrees, Shown
    <3>2. r[f] = s[f]
      BY <1>2, <2>2, OthersKept
    <3> QED BY <1>3, <2>2, <3>1, <3>2
  <2> QED BY <2>1, <2>2
<1>6. Paired(r, g, n + 1)
  <2>1. PICK alphas, deltas : alphas = SetBy(g, n, "alpha") /\ deltas = SetBy(g, n, "delta")
    OBVIOUS
  <2>2. PairIs(alphas, deltas, s) /\ (alphas # {} => s.alpha \in Int)
    BY <2>1, AlphaIsInt DEF Agrees, Paired
  <2>3. \A y \in deltas : y \in Nat /\ y < n
    BY <1>4, <2>1
  <2>4. PairIs(IF name = "alpha" THEN alphas \cup {n} ELSE alphas,
               IF name = "delta" THEN deltas \cup {n} ELSE deltas, r)
    BY <1>2, <2>2, <2>3, PairSet
  <2>5. /\ SetBy(g, n + 1, "alpha") = IF name = "alpha" THEN alphas \cup {n} ELSE alphas
        /\ SetBy(g, n + 1, "delta") = IF name = "delta" THEN deltas \cup {n} ELSE deltas
    BY <1>3, <2>1
  <2> QED BY <2>4, <2>5 DEF Paired
<1> QED BY <1>2, <1>5, <1>6 DEF Agrees, Shown, AssignedTo

(* Line n continues the entry e of group g.                                *)
LEMMA AgreesCut ==
    ASSUME IniTyped, NEW n \in Nat, n # 0, ~ AllocLine(n), NEW g, n \notin Entries("group_", g),
           NEW e \in Nat, e \in SetBy(g, n, ini[e].name), ValueTo(e, n) = Text,
           NEW m, \A x \in Entries("group_", g) : x < n => x <= e /\ (x # e => ValueTo(x, n) = ValueTo(x, m)),
           NEW s, Agrees(s, g, n, m), NEW r, AssignedTo(s, r, ini[e].name, Text)
    PROVE  Agrees(r, g, n + 1, n)
<1>1. PICK name : name = ini[e].name
  OBVIOUS
<1>2. AssignedTo(s, r, name, Text)
  BY <1>1
<1>3. \A f : SetBy(g, n + 1, f) = SetBy(g, n, f)
  <2>1. \A f : SetBy(g, n + 1, f) =
               SetBy(g, n, f) \cup (IF n \in Entries("group_", g) /\ ini[n].name = f THEN {n} ELSE {})
    BY SetByNext
  <2> QED BY <2>1
<1>4. \A f : /\ SetBy(g, n, f) \subseteq Entries("group_", g) /\ SetBy(g, n, f) \subseteq Nat
             /\ \A x \in SetBy(g, n, f) : x < n /\ ini[x].name = f
  BY SetByNext DEF SetBy
<1>5. ASSUME NEW f \in Field PROVE Tells(f, Known(SetBy(g, n + 1, f), n, f), r[f])
  <2>1. PICK S : S = SetBy(g, n, f)
    OBVIOUS
  <2>2. S \subseteq 0 .. n /\ S \subseteq Entries("group_", g) /\ \A x \in S : x < n /\ ini[x].name = f
    BY <1>4, <2>1
  <2>3. CASE f = name
    <3>1. e \in S
      BY <1>1, <2>1, <2>3
    <3>2. \A y \in S : y <= e
      BY <2>2
    <3>3. LastOf(S) = e
      BY <2>2, <3>1, <3>2, LastIs
    <3>4. Known(S, n, f) = AsField(f, Text)
      BY <3>1, <3>3 DEF Known
    <3>5. Tells(f, AsField(f, Text), r[f])
      BY <1>2, <2>3, AssignedTells
    <3> QED BY <1>3, <2>1, <3>4, <3>5
  <2>4. CASE f # name
    <3>1. Tells(f, Known(S, m, f), r[f])
      <4>1. r[f] = s[f]
        BY <1>2, <2>4, OthersKept
      <4>2. Tells(f, Known(S, m, f), s[f])
        BY <2>1 DEF Agrees, Shown
      <4> QED BY <4>1, <4>2
    <3>2. CASE S = {}
      BY <1>3, <2>1, <3>1, <3>2 DEF Known
    <3>3. CASE S # {}
      <4>1. LastOf(S) \in S
        BY <2>2, <3>3, LastOfIs
      <4>2. LastOf(S) # e
        BY <1>1, <2>2, <2>4, <4>1
      <4>3. ValueTo(LastOf(S), n) = ValueTo(LastOf(S), m)
        BY <2>2, <4>1, <4>2
      <4> QED BY <1>3, <2>1, <3>1, <3>3, <4>3 DEF Known
    <3> QED BY <3>2, <3>3
  <2> QED BY <2>3, <2>4
<1>6. Paired(r, g, n + 1)
  <2>1. PICK alphas, deltas : alphas = SetBy(g, n, "alpha") /\ deltas = SetBy(g, n, "delta")
    OBVIOUS
  <2>2. PairIs(alphas, deltas, s) /\ (alphas # {} => s.alpha \in Int)
    BY <2>1, AlphaIsInt DEF Agrees, Paired
  <2>3. name = "delta" => deltas # {}
    BY <1>1, <2>1
  <2>4. PairIs(alphas, deltas, r)
    BY <1>2, <2>2, <2>3, PairCut
  <2> QED BY <1>3, <2>1, <2>4 DEF Paired
<1> QED BY <1>2, <1>5, <1>6 DEF Agrees, Shown, AssignedTo

-----------------------------------------------------------------------------
(* Line n is read after line m: what the settings cf of the groups, and o  *)
(* of port p, were told of.                                                *)
ConfsTo(p, n) == {x \in ConfsOf(p) : x <= n}

ConfAgrees(o, p, n) ==
    ConfsTo(p, n) # {} =>
        LET c == LastOf(ConfsTo(p, n)) IN Agrees(o, Atoi(ValueTo(c, n)), c, c)

ConfigAgrees(cf, n, m) == cf # None => \A g \in DOMAIN cf : Agrees(cf[g], g, n, m)
OutAgrees(out, n)      == DOMAIN out = Port /\ \A p \in Port : ConfAgrees(out[p], p, n)

After(n, m) == m \in Nat /\ n = m + 1 /\ IniTyped

Kept(x, n, m) == ValueTo(x, n) = ValueTo(x, m)

(* Line n is the one behind line m.                                        *)
LEMMA AfterIs ==
    ASSUME NEW n, NEW m, After(n, m)
    PROVE  n \in Nat /\ n # 0 /\ m \in Nat /\ n = m + 1 /\ IniTyped
BY DEF After

(* A line outside group g leaves its settings in agreement.                *)
LEMMA SkipConfig ==
    ASSUME NEW m, NEW n, After(n, m), NEW g, n \notin Entries("group_", g), ~ AllocLine(n),
           \A x \in Entries("group_", g) : x < n => Kept(x, n, m), NEW s, Agrees(s, g, n, m)
    PROVE  Agrees(s, g, n + 1, n)
<1>1. n \in Nat /\ n # 0 /\ IniTyped
  BY DEF After
<1>2. \A f : SetBy(g, n + 1, f) = SetBy(g, n, f)
  <2>1. \A f : SetBy(g, n + 1, f) =
               SetBy(g, n, f) \cup (IF n \in Entries("group_", g) /\ ini[n].name = f THEN {n} ELSE {})
    BY <1>1, SetByNext
  <2> QED BY <2>1
<1>3. PICK d : d = n + 1
  OBVIOUS
<1>4. \A f : SetBy(g, d, f) = SetBy(g, n, f)
  BY <1>2, <1>3
<1>5. \A x \in Entries("group_", g) : x < n => ValueTo(x, n) = ValueTo(x, m)
  BY DEF Kept
<1>6. Agrees(s, g, d, n)
  BY <1>1, <1>4, <1>5, AgreesMove
<1> QED BY <1>3, <1>6

(* A line that is not of port p leaves its settings in agreement.          *)
LEMMA SkipConf ==
    ASSUME NEW m, NEW n, After(n, m), NEW p, n \notin ConfsOf(p), NEW o,
           \A x \in ConfsOf(p) : x <= m /\ x = LastOf(ConfsTo(p, m)) => Kept(x, n, m), ConfAgrees(o, p, m)
    PROVE  ConfAgrees(o, p, n)
<1>1. ConfsOf(p) \subseteq Nat
  <2>1. ConfsOf(p) \subseteq Entries("interface_conf", 0)
    BY DEF ConfsOf
  <2> QED BY <2>1, EntriesAre DEF After
<1>2. ConfsTo(p, n) = ConfsTo(p, m)
  <2>1. \A x \in Nat : x <= n <=> x <= m \/ x = n
    BY DEF After
  <2> QED BY <1>1, <2>1 DEF ConfsTo
<1>3. ASSUME ConfsTo(p, m) # {}
      PROVE  LET c == LastOf(ConfsTo(p, m)) IN Agrees(o, Atoi(ValueTo(c, n)), c, c)
  <2>1. PICK c : c = LastOf(ConfsTo(p, m))
    OBVIOUS
  <2>2. c \in ConfsTo(p, m)
    <3>1. ConfsTo(p, m) \subseteq 0 .. m /\ m \in Nat
      BY <1>1 DEF ConfsTo, After
    <3> QED BY <1>3, <2>1, <3>1, LastOfIs
  <2>3. Kept(c, n, m)
    BY <2>1, <2>2 DEF ConfsTo
  <2>4. Agrees(o, Atoi(ValueTo(c, m)), c, c)
    BY <1>3, <2>1 DEF ConfAgrees
  <2> QED BY <2>1, <2>3, <2>4 DEF Kept
<1> QED BY <1>2, <1>3 DEF ConfAgrees

(* What parse_ini does to the settings.                                    *)
Effects(name, value, cf, out, df, put) ==
    \/ /\ InSection("general", 0) /\ put = out
       /\ IF name = "num_config" THEN df = [g \in 0 .. Atoi(value) - 1 |-> Unset] ELSE df = cf
    \/ \E g : /\ InSection("group_", g) /\ cf # None /\ g \in DOMAIN cf /\ put = out
              /\ \E s \in Assigned(cf[g], name, value) : df = [cf EXCEPT ![g] = s]
    \/ /\ InSection("interface_conf", 0) /\ name \in Port /\ cf # None /\ Atoi(value) \in DOMAIN cf
       /\ df = cf /\ put = [out EXCEPT ![name] = cf[Atoi(value)]]
    \/ /\ df = cf /\ put = out
       /\ ~ InSection("general", 0) /\ (\A g : ~ InSection("group_", g))
       /\ InSection("interface_conf", 0) => name \notin Port
    \/ InSection("end", 0) /\ df = None /\ put = out

(* The reader is in one section.                                           *)
LEMMA OneSection ==
    \A nm, ix, nn, jx : InSection(nm, ix) /\ InSection(nn, jx) => nm = nn /\ ix = jx
BY DEF InSection

(* What parse_ini does to config and out_interface.                        *)
LEMMA EffectsOf ==
    ASSUME NEW name, NEW value, Parses(name, value), phase' # "dead"
    PROVE  \A cf, out, df, put : cf = config /\ out = out_interface /\ df = config' /\ put = out_interface' =>
               Effects(name, value, cf, out, df, put)
<1> SUFFICES ASSUME NEW cf, NEW out, NEW df, NEW put,
                    cf = config, out = out_interface, df = config', put = out_interface'
             PROVE  Effects(name, value, cf, out, df, put)
  OBVIOUS
<1>1. CASE InSection("general", 0) /\ General(name, value)
  BY <1>1 DEF General, Effects
<1>2. CASE InSection("interfaces_mappings", 0) /\ Mapping(name, value)
  <2>1. ~ InSection("general", 0) /\ ~ InSection("interface_conf", 0) /\ \A g : ~ InSection("group_", g)
    BY <1>2, OneSection
  <2> QED BY <1>2, <2>1 DEF Mapping, Effects
<1>3. CASE \E g : InSection("group_", g) /\ config # None /\ g \in DOMAIN config /\ Group(g, name, value)
  BY <1>3 DEF Group, Effects
<1>4. CASE /\ InSection("interface_conf", 0) /\ name \in Port
           /\ config # None /\ Atoi(value) \in DOMAIN config /\ InterfaceConf(name, value)
  BY <1>4 DEF InterfaceConf, Effects
<1>5. CASE InSection("interface_conf", 0) /\ name \notin Port /\ Keep
  <2>1. ~ InSection("general", 0) /\ \A g : ~ InSection("group_", g)
    BY <1>5, OneSection
  <2> QED BY <1>5, <2>1 DEF Keep, Effects
<1>6. CASE InSection("end", 0) /\ config' = None /\ UNCHANGED <<ports, out_interface, phase>>
  BY <1>6 DEF Effects
<1>7. CASE Ignored
  <2>1. ~ InSection("general", 0) /\ ~ InSection("interface_conf", 0) /\ \A g : ~ InSection("group_", g)
    BY <1>7 DEF Ignored, InSection
  <2> QED BY <1>7, <2>1 DEF Ignored, Keep, Effects
<1> QED BY <1>1, <1>2, <1>3, <1>4, <1>5, <1>6, <1>7 DEF Parses, Die

(* Line n is an entry of the reader's section.                             *)
EntryLine(n, m) ==
    /\ After(n, m)
    /\ \A nm, ix : nm # "" => (n \in Entries(nm, ix) <=> InSection(nm, ix))
    /\ \A nm, ix : \A x \in Entries(nm, ix) : x < n => Kept(x, n, m)

(* After an entry, config agrees with the lines read.                      *)
LEMMA EntryConfig ==
    ASSUME NEW m, NEW n, EntryLine(n, m), NEW cf, ConfigAgrees(cf, n, m), NEW out, NEW df, NEW put,
           Effects(ini[n].name, ini[n].value, cf, out, df, put)
    PROVE  ConfigAgrees(df, n + 1, n)
<1>1. PICK name, v : name = ini[n].name /\ v = ini[n].value
  OBVIOUS
<1>2. Effects(name, v, cf, out, df, put)
  BY <1>1
<1>3. n \in Nat /\ n # 0 /\ IniTyped /\ After(n, m)
  BY AfterIs DEF EntryLine
<1>4. AllocLine(n) <=> InSection("general", 0) /\ name = "num_config"
  BY <1>1 DEF EntryLine, AllocLine
<1>5. \A g : n \in Entries("group_", g) <=> InSection("group_", g)
  BY DEF EntryLine
<1>6. ASSUME ~ AllocLine(n), NEW g, ~ InSection("group_", g), NEW s, Agrees(s, g, n, m)
      PROVE  Agrees(s, g, n + 1, n)
  BY <1>3, <1>5, <1>6, SkipConfig DEF EntryLine
<1>7. ASSUME ~ AllocLine(n), \A g : ~ InSection("group_", g), df = cf PROVE ConfigAgrees(df, n + 1, n)
  BY <1>6, <1>7 DEF ConfigAgrees
<1>8. CASE InSection("general", 0) /\ name = "num_config" /\ df = [g \in 0 .. Atoi(v) - 1 |-> Unset]
  <2>1. \A g : Agrees(Unset, g, n + 1, n)
    BY <1>3, <1>4, <1>8, AgreesFresh
  <2>2. \A g \in DOMAIN df : df[g] = Unset
    BY <1>8
  <2> QED BY <2>1, <2>2 DEF ConfigAgrees
<1>9. CASE InSection("general", 0) /\ name # "num_config" /\ df = cf
  BY <1>4, <1>7, <1>9, OneSection
<1>10. CASE \E g : /\ InSection("group_", g) /\ cf # None /\ g \in DOMAIN cf
                   /\ \E s \in Assigned(cf[g], name, v) : df = [cf EXCEPT ![g] = s]
  <2>1. PICK g : InSection("group_", g) /\ cf # None /\ g \in DOMAIN cf
                 /\ \E s \in Assigned(cf[g], name, v) : df = [cf EXCEPT ![g] = s]
    BY <1>10
  <2>2. PICK r \in Assigned(cf[g], name, v) : df = [cf EXCEPT ![g] = r]
    BY <2>1
  <2>3. DOMAIN df = DOMAIN cf /\ df[g] = r /\ \A h \in DOMAIN cf : h # g => df[h] = cf[h]
    BY <2>1, <2>2
  <2>4. ~ AllocLine(n) /\ n \in Entries("group_", g) /\ \A h : h # g => ~ InSection("group_", h)
    BY <1>4, <1>5, <2>1, OneSection
  <2>5. PICK s : s = cf[g]
    OBVIOUS
  <2>6. Agrees(s, g, n, m)
    BY <2>1, <2>5 DEF ConfigAgrees
  <2>7. Agrees(s, g, n, n)
    <3>1. \A x \in Entries("group_", g) : x < n => ValueTo(x, n) = ValueTo(x, m)
      BY DEF EntryLine, Kept
    <3> QED BY <1>3, <2>6, <3>1, AgreesMove
  <2>8. AssignedTo(s, r, name, v)
    BY <2>2, <2>5, <2>6, AssignedIs DEF Agrees
  <2>9. Agrees(r, g, n + 1, n)
    BY <1>1, <1>3, <2>4, <2>7, <2>8, AgreesSet
  <2>10. \A h \in DOMAIN cf : h # g => Agrees(cf[h], h, n + 1, n)
    BY <1>6, <2>1, <2>4 DEF ConfigAgrees
  <2> QED BY <2>3, <2>9, <2>10 DEF ConfigAgrees
<1>11. CASE InSection("interface_conf", 0) /\ df = cf
  BY <1>4, <1>7, <1>11, OneSection
<1>12. CASE df = cf /\ ~ InSection("general", 0) /\ \A g : ~ InSection("group_", g)
  BY <1>4, <1>7, <1>12
<1>13. CASE df = None
  BY <1>13 DEF ConfigAgrees
<1> QED BY <1>2, <1>8, <1>9, <1>10, <1>11, <1>12, <1>13 DEF Effects

(* After an entry, out_interface agrees with the lines read.               *)
LEMMA EntryOut ==
    ASSUME NEW m, NEW n, EntryLine(n, m), NEW cf, ConfigAgrees(cf, n, m), NEW out, OutAgrees(out, m),
           NEW df, NEW put, Effects(ini[n].name, ini[n].value, cf, out, df, put)
    PROVE  OutAgrees(put, n)
<1>1. PICK name, v : name = ini[n].name /\ v = ini[n].value
  OBVIOUS
<1>2. Effects(name, v, cf, out, df, put)
  BY <1>1
<1>3. n \in Nat /\ n # 0 /\ m \in Nat /\ IniTyped /\ After(n, m)
  BY AfterIs DEF EntryLine
<1>4. \A p : n \in ConfsOf(p) <=> InSection("interface_conf", 0) /\ name = p
  BY <1>1 DEF EntryLine, ConfsOf
<1>5. ASSUME NEW p, n \notin ConfsOf(p), NEW o, ConfAgrees(o, p, m) PROVE ConfAgrees(o, p, n)
  <2>1. \A x \in ConfsOf(p) : x \in Entries("interface_conf", 0) /\ x \in Nat
    BY <1>3, EntriesAre DEF ConfsOf
  <2>2. \A x \in Nat : x <= m => x < n
    BY <1>3 DEF After
  <2>3. \A x \in ConfsOf(p) : x <= m => Kept(x, n, m)
    BY <2>1, <2>2 DEF EntryLine
  <2> QED BY <1>3, <1>5, <2>3, SkipConf
<1>6. CASE /\ InSection("interface_conf", 0) /\ name \in Port /\ cf # None /\ Atoi(v) \in DOMAIN cf
           /\ put = [out EXCEPT ![name] = cf[Atoi(v)]]
  <2>1. PICK g : g = Atoi(v)
    OBVIOUS
  <2>2. DOMAIN put = Port /\ put[name] = cf[g] /\ \A p \in Port : p # name => put[p] = out[p]
    BY <1>6, <2>1 DEF OutAgrees
  <2>3. PICK s : s = cf[g]
    OBVIOUS
  <2>4. Agrees(s, g, n, m)
    BY <1>6, <2>1, <2>3 DEF ConfigAgrees
  <2>5. Agrees(s, g, n, n)
    <3>1. \A x \in Entries("group_", g) : x < n => ValueTo(x, n) = ValueTo(x, m)
      BY DEF EntryLine, Kept
    <3> QED BY <1>3, <2>4, <3>1, AgreesMove
  <2>6. LastOf(ConfsTo(name, n)) = n
    <3>1. n \in ConfsOf(name)
      BY <1>4, <1>6
    <3>2. ConfsOf(name) \subseteq Nat
      BY <1>3, EntriesAre DEF ConfsOf
    <3>3. ConfsTo(name, n) \subseteq 0 .. n /\ n \in ConfsTo(name, n) /\ \A y \in ConfsTo(name, n) : y <= n
      BY <1>3, <3>1, <3>2 DEF ConfsTo
    <3> QED BY <1>3, <3>3, LastIs
  <2>7. ValueTo(n, n) = v
    BY <1>1, <1>3 DEF ValueTo
  <2>8. ConfAgrees(s, name, n)
    BY <2>1, <2>5, <2>6, <2>7 DEF ConfAgrees
  <2>9. \A p \in Port : p # name => ConfAgrees(out[p], p, n)
    BY <1>4, <1>5 DEF OutAgrees
  <2> QED BY <2>2, <2>3, <2>8, <2>9 DEF OutAgrees
<1>7. CASE put = out /\ (InSection("interface_conf", 0) => name \notin Port)
  <2>1. \A p \in Port : n \notin ConfsOf(p)
    BY <1>4, <1>7
  <2> QED BY <1>5, <1>7, <2>1 DEF OutAgrees
<1>8. \A nm, ix : InSection(nm, ix) /\ nm # "interface_conf" => ~ InSection("interface_conf", 0)
  BY OneSection
<1> QED BY <1>2, <1>6, <1>7, <1>8 DEF Effects

(* Line n continues the entry e, the last one.                             *)
ContinuedBy(n, m, e) ==
    /\ After(n, m) /\ e \in Nat /\ e # 0 /\ e < n
    /\ \A nm, ix : n \notin Entries(nm, ix)
    /\ \A nm, ix : nm # "" => (e \in Entries(nm, ix) <=> InSection(nm, ix))
    /\ \A nm, ix : \A x \in Entries(nm, ix) : x < n => x <= e /\ (x # e => Kept(x, n, m) /\ Kept(x, m, e))
    /\ ValueTo(e, n) = Text

(* The entry that is continued is behind the last allocation.              *)
LEMMA AllocBefore ==
    ASSUME NEW n, NEW m, NEW e, ContinuedBy(n, m, e), ~ InSection("general", 0)
    PROVE  Alloc(n) < e /\ Alloc(e) = Alloc(n)
<1>1. n \in Nat /\ n # 0 /\ m \in Nat /\ IniTyped /\ e \in Nat /\ e # 0 /\ e < n
  BY AfterIs DEF ContinuedBy
<1>2. Alloc(n) \in Nat /\ Alloc(n) < n /\ (Alloc(n) # 0 => Alloc(n) \in Entries("general", 0))
  BY <1>1, AllocNext
<1>3. e \notin Entries("general", 0)
  BY DEF ContinuedBy
<1>4. Alloc(n) < e
  <2>1. CASE Alloc(n) = 0
    BY <1>1, <2>1
  <2>2. CASE Alloc(n) # 0
    <3>1. Alloc(n) <= e /\ Alloc(n) # e
      BY <1>2, <1>3, <2>2 DEF ContinuedBy
    <3> QED BY <1>1, <1>2, <3>1
  <2> QED BY <2>1, <2>2
<1>5. \A x \in Entries("general", 0) : x < e <=> x < n
  <2> SUFFICES ASSUME NEW x \in Entries("general", 0) PROVE x < e <=> x < n
    OBVIOUS
  <2>1. x \in Nat /\ x # e
    BY <1>1, <1>3, EntriesAre
  <2>2. x < n => x <= e
    BY DEF ContinuedBy
  <2> QED BY <1>1, <2>1, <2>2
<1>6. {x \in Entries("general", 0) : x < e /\ ini[x].name = "num_config"} =
      {x \in Entries("general", 0) : x < n /\ ini[x].name = "num_config"}
  BY <1>5
<1>7. Alloc(e) = Alloc(n)
  BY <1>6 DEF Alloc
<1> QED BY <1>4, <1>7

(* After a continuing line, config agrees with the lines read.             *)
LEMMA ContinuedConfig ==
    ASSUME NEW m, NEW n, NEW e, ContinuedBy(n, m, e), NEW cf, ConfigAgrees(cf, n, m),
           NEW out, NEW df, NEW put, Effects(ini[e].name, Text, cf, out, df, put)
    PROVE  ConfigAgrees(df, n + 1, n)
<1>1. PICK name : name = ini[e].name
  OBVIOUS
<1>2. Effects(name, Text, cf, out, df, put)
  BY <1>1
<1>3. n \in Nat /\ n # 0 /\ m \in Nat /\ IniTyped /\ After(n, m) /\ e \in Nat /\ e # 0 /\ e < n
  BY AfterIs DEF ContinuedBy
<1>4. ~ AllocLine(n) /\ \A g : n \notin Entries("group_", g)
  BY DEF ContinuedBy, AllocLine
<1>5. ASSUME NEW g, ~ InSection("group_", g), NEW s, Agrees(s, g, n, m) PROVE Agrees(s, g, n + 1, n)
  <2>1. e \notin Entries("group_", g)
    BY <1>5 DEF ContinuedBy
  <2>2. \A x \in Entries("group_", g) : x < n => Kept(x, n, m)
    BY <2>1 DEF ContinuedBy
  <2> QED BY <1>3, <1>4, <1>5, <2>2, SkipConfig
<1>6. ASSUME \A g : ~ InSection("group_", g), df = cf PROVE ConfigAgrees(df, n + 1, n)
  BY <1>5, <1>6 DEF ConfigAgrees
<1>7. CASE InSection("general", 0) /\ name = "num_config" /\ df = [g \in 0 .. Atoi(Text) - 1 |-> Unset]
  <2>1. 0 .. Atoi(Text) - 1 = {}
    BY AtoiTyped
  <2>2. DOMAIN df = {}
    BY <1>7, <2>1
  <2> QED BY <2>2 DEF ConfigAgrees
<1>8. CASE InSection("general", 0) /\ name # "num_config" /\ df = cf
  BY <1>6, <1>8, OneSection
<1>9. CASE \E g : /\ InSection("group_", g) /\ cf # None /\ g \in DOMAIN cf
                  /\ \E s \in Assigned(cf[g], name, Text) : df = [cf EXCEPT ![g] = s]
  <2>1. PICK g : InSection("group_", g) /\ cf # None /\ g \in DOMAIN cf
                 /\ \E s \in Assigned(cf[g], name, Text) : df = [cf EXCEPT ![g] = s]
    BY <1>9
  <2>2. PICK r \in Assigned(cf[g], name, Text) : df = [cf EXCEPT ![g] = r]
    BY <2>1
  <2>3. DOMAIN df = DOMAIN cf /\ df[g] = r /\ \A h \in DOMAIN cf : h # g => df[h] = cf[h]
    BY <2>1, <2>2
  <2>4. e \in Entries("group_", g) /\ ~ InSection("general", 0) /\ \A h : h # g => ~ InSection("group_", h)
    BY <2>1, OneSection DEF ContinuedBy
  <2>5. PICK s : s = cf[g]
    OBVIOUS
  <2>6. Agrees(s, g, n, m)
    BY <2>1, <2>5 DEF ConfigAgrees
  <2>7. AssignedTo(s, r, name, Text)
    BY <2>2, <2>5, <2>6, AssignedIs DEF Agrees
  <2>8. e \in SetBy(g, n, ini[e].name)
    <3>1. Alloc(n) < e
      BY <2>4, AllocBefore
    <3> QED BY <1>3, <2>4, <3>1 DEF SetBy
  <2>9. /\ \A x \in Entries("group_", g) : x < n => x <= e /\ (x # e => ValueTo(x, n) = ValueTo(x, m))
        /\ ValueTo(e, n) = Text
    BY DEF ContinuedBy, Kept
  <2>10. Agrees(r, g, n + 1, n)
    BY <1>1, <1>3, <1>4, <2>6, <2>7, <2>8, <2>9, AgreesCut
  <2>11. \A h \in DOMAIN cf : h # g => Agrees(cf[h], h, n + 1, n)
    BY <1>5, <2>1, <2>4 DEF ConfigAgrees
  <2> QED BY <2>3, <2>10, <2>11 DEF ConfigAgrees
<1>10. CASE InSection("interface_conf", 0) /\ df = cf
  BY <1>6, <1>10, OneSection
<1>11. CASE df = cf /\ \A g : ~ InSection("group_", g)
  BY <1>6, <1>11
<1>12. CASE df = None
  BY <1>12 DEF ConfigAgrees
<1> QED BY <1>2, <1>7, <1>8, <1>9, <1>10, <1>11, <1>12 DEF Effects

(* After a continuing line, out_interface agrees with them.                *)
LEMMA ContinuedOut ==
    ASSUME NEW m, NEW n, NEW e, ContinuedBy(n, m, e), NEW cf, ConfigAgrees(cf, n, m),
           NEW out, OutAgrees(out, m), NEW df, NEW put, Effects(ini[e].name, Text, cf, out, df, put)
    PROVE  OutAgrees(put, n)
<1>1. PICK name : name = ini[e].name
  OBVIOUS
<1>2. Effects(name, Text, cf, out, df, put)
  BY <1>1
<1>3. n \in Nat /\ n # 0 /\ m \in Nat /\ n = m + 1 /\ IniTyped /\ After(n, m) /\ e \in Nat /\ e # 0 /\ e < n
  BY AfterIs DEF ContinuedBy
<1>4. \A p : n \notin ConfsOf(p) /\ (e \in ConfsOf(p) <=> InSection("interface_conf", 0) /\ name = p)
  BY <1>1 DEF ContinuedBy, ConfsOf
<1>5. \A p : \A x \in ConfsOf(p) : x \in Entries("interface_conf", 0) /\ x \in Nat
  BY <1>3, EntriesAre DEF ConfsOf
<1>6. ASSUME NEW p, e \notin ConfsOf(p), NEW o, ConfAgrees(o, p, m) PROVE ConfAgrees(o, p, n)
  <2>1. \A x \in Nat : x <= m => x < n
    BY <1>3
  <2>2. \A x \in ConfsOf(p) : x <= m => Kept(x, n, m)
    BY <1>5, <1>6, <2>1 DEF ContinuedBy
  <2> QED BY <1>3, <1>4, <1>6, <2>2, SkipConf
<1>7. CASE /\ InSection("interface_conf", 0) /\ name \in Port /\ cf # None /\ Atoi(Text) \in DOMAIN cf
           /\ put = [out EXCEPT ![name] = cf[Atoi(Text)]]
  <2>1. Atoi(Text) = 0
    BY AtoiTyped
  <2>2. DOMAIN put = Port /\ put[name] = cf[0] /\ \A p \in Port : p # name => put[p] = out[p]
    BY <1>7, <2>1 DEF OutAgrees
  <2>3. PICK s : s = cf[0]
    OBVIOUS
  <2>4. Agrees(s, 0, n, m)
    BY <1>7, <2>1, <2>3 DEF ConfigAgrees
  <2>5. ~ InSection("general", 0) /\ ~ InSection("group_", 0)
    BY <1>7, OneSection
  <2>6. Alloc(n) = Alloc(e)
    BY <2>5, AllocBefore
  <2>7. \A x \in Entries("group_", 0) : (x < n <=> x < e) /\ (x < n => Kept(x, m, e))
    <3> SUFFICES ASSUME NEW x \in Entries("group_", 0) PROVE (x < n <=> x < e) /\ (x < n => Kept(x, m, e))
      OBVIOUS
    <3>1. x \in Nat /\ x # e
      BY <1>3, <2>5, EntriesAre DEF ContinuedBy
    <3>2. x < n => x <= e /\ Kept(x, m, e)
      BY <3>1 DEF ContinuedBy
    <3> QED BY <1>3, <3>1, <3>2
  <2>8. \A f : SetBy(0, e, f) = SetBy(0, n, f)
    BY <2>6, <2>7 DEF SetBy
  <2>9. Agrees(s, 0, e, e)
    <3>1. \A x \in Entries("group_", 0) : x < n => ValueTo(x, e) = ValueTo(x, m)
      BY <2>7 DEF Kept
    <3> QED BY <1>3, <2>4, <2>8, <3>1, AgreesMove
  <2>10. LastOf(ConfsTo(name, n)) = e
    <3>1. e \in ConfsOf(name)
      BY <1>4, <1>7
    <3>2. \A x \in ConfsOf(name) : x <= n => x <= e
      <4> SUFFICES ASSUME NEW x \in ConfsOf(name), x <= n PROVE x <= e
        OBVIOUS
      <4>1. x \in Nat /\ x # n
        BY <1>4, <1>5
      <4>2. x < n
        BY <1>3, <4>1
      <4> QED BY <1>5, <4>2 DEF ContinuedBy
    <3>3. ConfsTo(name, n) \subseteq 0 .. n /\ e \in ConfsTo(name, n) /\ \A y \in ConfsTo(name, n) : y <= e
      <4>1. \A x : x \in ConfsTo(name, n) <=> x \in ConfsOf(name) /\ x <= n
        BY DEF ConfsTo
      <4>2. \A x \in ConfsTo(name, n) : x \in Nat /\ x <= n /\ x <= e
        BY <1>5, <3>2, <4>1, Zenon
      <4>3. e <= n
        BY <1>3
      <4>4. e \in ConfsTo(name, n)
        BY <3>1, <4>1, <4>3, Zenon
      <4>5. ConfsTo(name, n) \subseteq 0 .. n
        BY <1>3, <4>2
      <4> QED BY <4>2, <4>4, <4>5, Zenon
    <3> QED BY <1>3, <3>3, LastIs
  <2>11. ValueTo(e, n) = Text
    BY DEF ContinuedBy
  <2>12. ConfAgrees(s, name, n)
    BY <2>1, <2>9, <2>10, <2>11 DEF ConfAgrees
  <2>13. \A p \in Port : p # name => ConfAgrees(out[p], p, n)
    BY <1>4, <1>6 DEF OutAgrees
  <2> QED BY <2>2, <2>3, <2>12, <2>13 DEF OutAgrees
<1>8. CASE put = out /\ (InSection("interface_conf", 0) => name \notin Port)
  <2>1. \A p \in Port : e \notin ConfsOf(p)
    BY <1>4, <1>8
  <2> QED BY <1>6, <1>8, <2>1 DEF OutAgrees
<1>9. \A nm, ix : InSection(nm, ix) /\ nm # "interface_conf" => ~ InSection("interface_conf", 0)
  BY OneSection
<1> QED BY <1>2, <1>7, <1>8, <1>9 DEF Effects

-----------------------------------------------------------------------------
(* All that is left is that the lines are read one after the other.        *)
SettingsInv ==
    phase # "dead" =>
        \E cf, out, n, m : /\ cf = config /\ out = out_interface /\ m = pos /\ n = pos + 1
                           /\ ConfigAgrees(cf, n, m) /\ OutAgrees(out, m)

(* The agreement is about the text, which stays.                           *)
LEMMA SettingsText ==
    ASSUME ini' = ini
    PROVE  \A cf, out, n, m : /\ ConfigAgrees(cf, n, m)' <=> ConfigAgrees(cf, n, m)
                              /\ OutAgrees(out, m)' <=> OutAgrees(out, m)
<1>1. \A nm, ix : Entries(nm, ix)' = Entries(nm, ix)
  BY TextStays
<1>2. \A p, n : ConfsTo(p, n)' = ConfsTo(p, n)
  BY <1>1 DEF ConfsTo, ConfsOf
<1>3. \A c : Alloc(c)' = Alloc(c)
  BY <1>1 DEF Alloc, LastOf
<1>4. \A g, c, f : SetBy(g, c, f)' = SetBy(g, c, f)
  BY <1>1, <1>3 DEF SetBy
<1>5. \A x, n : ValueTo(x, n)' = ValueTo(x, n)
  BY DEF ValueTo
<1>6. \A s, g, c, n : Shown(s, g, c, n)' <=> Shown(s, g, c, n)
  <2> SUFFICES ASSUME NEW s, NEW g, NEW c, NEW n PROVE Shown(s, g, c, n)' <=> Shown(s, g, c, n)
    OBVIOUS
  <2>1. \A f : Known(SetBy(g, c, f), n, f)' = Known(SetBy(g, c, f), n, f)
    BY <1>4 DEF Known, ValueTo
  <2> QED BY <2>1 DEF Shown
<1>7. \A s, g, c : Paired(s, g, c)' <=> Paired(s, g, c)
  BY <1>4 DEF Paired, PairIs
<1>8. \A s, g, c, n : Agrees(s, g, c, n)' <=> Agrees(s, g, c, n)
  BY <1>6, <1>7 DEF Agrees
<1>9. \A cf, n, m : ConfigAgrees(cf, n, m)' <=> ConfigAgrees(cf, n, m)
  BY <1>8 DEF ConfigAgrees
<1>10. \A o, p, n : ConfAgrees(o, p, n)' <=> ConfAgrees(o, p, n)
  BY <1>2, <1>5, <1>8 DEF ConfAgrees
<1>11. \A out, n : OutAgrees(out, n)' <=> OutAgrees(out, n)
  BY <1>10 DEF OutAgrees
<1> QED BY <1>9, <1>11

(* The next line, if it continues nothing, says nothing of earlier entries.*)
LEMMA ValuesKept ==
    ASSUME HeaderInv, pos < Len(ini), ~ Continues(NextLine)
    PROVE  /\ After(pos + 1, pos)
           /\ \A nm, ix : \A x \in Entries(nm, ix) : x < pos + 1 => Kept(x, pos + 1, pos)
<1>1. pos \in Nat /\ Len(ini) \in Nat /\ DOMAIN ini = 1 .. Len(ini) /\ IniTyped
  BY Zenon DEF HeaderInv, IniTyped
<1>2. ASSUME NEW nm, NEW ix, NEW x \in Entries(nm, ix), x < pos + 1 PROVE Kept(x, pos + 1, pos)
  <2>1. x \in Nat /\ x # 0 /\ IsEntry(x)
    BY <1>1, EntriesAre DEF Entries
  <2>2. CASE x < pos
    BY <1>1, <2>1, <2>2 DEF Kept, ValueTo
  <2>3. CASE x = pos
    <3>1. ~ Continuing(pos + 1)
      BY NextContinues
    <3>2. ~ ini[pos + 1].indented
      BY <1>1, <2>1, <2>3, <3>1 DEF IsEntry, Continuing
    <3> QED BY <1>1, <2>3, <3>2 DEF Kept, ValueTo
  <2> QED BY <1>1, <1>2, <2>1, <2>2, <2>3
<1> QED BY <1>1, <1>2 DEF After

(* What a continuing line says of the lines before it.                     *)
LEMMA ContinuedByHere ==
    ASSUME HeaderInv, pos < Len(ini), NEW e \in Nat, Continued(e)
    PROVE  ContinuedBy(pos + 1, pos, e)
<1>1. pos \in Nat /\ Len(ini) \in Nat /\ DOMAIN ini = 1 .. Len(ini) /\ IniTyped
  BY Zenon DEF HeaderInv, IniTyped
<1>2. e \in 1 .. pos /\ \A z \in e + 1 .. pos + 1 : Continuing(z)
  BY DEF Continued
<1>3. \A nm, ix : pos + 1 \notin Entries(nm, ix)
  BY <1>1, <1>2 DEF Entries, IsEntry
<1>4. ASSUME NEW nm, NEW ix, NEW x \in Entries(nm, ix), x < pos + 1
      PROVE  x <= e /\ (x # e => Kept(x, pos + 1, pos) /\ Kept(x, pos, e))
  <2>1. x \in Nat /\ x # 0 /\ ~ Continuing(x)
    BY <1>1, EntriesAre DEF Entries, IsEntry
  <2>2. x <= e
    BY <1>1, <1>2, <1>4, <2>1
  <2>3. x # e => x < e /\ x < pos
    BY <1>1, <1>2, <2>1, <2>2
  <2> QED BY <1>4, <2>2, <2>3 DEF Kept, ValueTo
<1>5. ValueTo(e, pos + 1) = Text
  <2>1. Continuing(e + 1)
    BY <1>1, <1>2
  <2>2. ini[e + 1].indented
    BY <2>1 DEF Continuing
  <2> QED BY <1>1, <1>2, <2>2 DEF ValueTo
<1>6. \A nm, ix : nm # "" => (e \in Entries(nm, ix) <=> InSection(nm, ix))
  BY DEF Continued
<1>7. e # 0 /\ e < pos + 1 /\ After(pos + 1, pos)
  BY <1>1, <1>2 DEF After
<1> QED BY <1>3, <1>4, <1>5, <1>6, <1>7 DEF ContinuedBy

(* Every step keeps SettingsInv.                                           *)
LEMMA SettingsKept ==
    ASSUME HeaderInv, SettingsInv, [Next]_vars
    PROVE  SettingsInv'
<1>1. ini' = ini /\ (phase' # "dead" => phase # "dead")
  <2>1. CASE UNCHANGED vars
    BY <2>1 DEF vars
  <2>2. CASE Next
    BY <2>2, Steps DEF Entry, Continuation, Opening, Started
  <2> QED BY <2>1, <2>2
<1> SUFFICES ASSUME phase' # "dead" PROVE SettingsInv'
  BY DEF SettingsInv
<1>2. PICK cf, out, n, m : /\ cf = config /\ out = out_interface /\ m = pos /\ n = pos + 1
                           /\ ConfigAgrees(cf, n, m) /\ OutAgrees(out, m)
  BY <1>1 DEF SettingsInv
<1>3. PICK df, put, l : df = config' /\ put = out_interface' /\ l = n + 1
  OBVIOUS
<1>4. ASSUME pos' = pos + 1, ConfigAgrees(df, l, n), OutAgrees(put, n) PROVE SettingsInv'
  <2>1. ConfigAgrees(df, l, n)' /\ OutAgrees(put, n)'
    BY <1>1, <1>4, SettingsText
  <2>2. n = pos' /\ l = pos' + 1
    BY <1>2, <1>3, <1>4
  <2> QED BY <1>3, <2>1, <2>2 DEF SettingsInv
<1>5. CASE UNCHANGED <<config, out_interface, pos>>
  <2>1. ConfigAgrees(cf, n, m)' /\ OutAgrees(out, m)'
    BY <1>1, <1>2, SettingsText
  <2>2. cf = config' /\ out = out_interface' /\ m = pos' /\ n = pos' + 1
    BY <1>2, <1>5
  <2> QED BY <2>1, <2>2 DEF SettingsInv
<1>6. CASE \E value : Entry(value)
  <2>1. PICK value : Entry(value)
    BY <1>6
  <2>2. /\ pos < Len(ini) /\ pos' = pos + 1 /\ ~ Continues(NextLine) /\ NextLine.kind = "entry"
        /\ value = NextLine.value /\ Parses(NextLine.name, value)
    BY <2>1 DEF Entry
  <2>3. EntryLine(n, m)
    BY <1>2, <2>2, EntryHere, ValuesKept DEF EntryLine
  <2>4. NextLine.name = ini[n].name /\ value = ini[n].value
    BY <1>2, <2>2 DEF NextLine
  <2>5. PICK name : name = ini[n].name
    OBVIOUS
  <2>6. Parses(name, value)
    BY <2>2, <2>4, <2>5
  <2>7. Effects(name, value, cf, out, df, put)
    BY <1>2, <1>3, <2>6, EffectsOf
  <2>8. Effects(ini[n].name, ini[n].value, cf, out, df, put)
    BY <2>4, <2>5, <2>7
  <2>9. ConfigAgrees(df, n + 1, n) /\ OutAgrees(put, n)
    BY <1>2, <2>3, <2>8, EntryConfig, EntryOut
  <2> QED BY <1>3, <1>4, <2>2, <2>9
<1>7. CASE Continuation
  <2>1. pos < Len(ini) /\ pos' = pos + 1 /\ Continues(NextLine) /\ Parses(prev_name, Text)
    BY <1>7 DEF Continuation
  <2>2. PICK e \in Nat : Continued(e)
    BY <2>1, ContinuedHere
  <2>3. ContinuedBy(n, m, e)
    BY <1>2, <2>1, <2>2, ContinuedByHere
  <2>4. PICK name : name = prev_name /\ name = ini[e].name
    BY <2>2 DEF Continued
  <2>5. Parses(name, Text)
    BY <2>1, <2>4
  <2>6. Effects(name, Text, cf, out, df, put)
    BY <1>2, <1>3, <2>5, EffectsOf
  <2>7. Effects(ini[e].name, Text, cf, out, df, put)
    BY <2>4, <2>6
  <2>8. ConfigAgrees(df, n + 1, n) /\ OutAgrees(put, n)
    BY <1>2, <2>3, <2>7, ContinuedConfig, ContinuedOut
  <2> QED BY <1>3, <1>4, <2>1, <2>8
<1>8. CASE Opening
  <2>1. /\ pos < Len(ini) /\ pos' = pos + 1 /\ ~ Continues(NextLine) /\ NextLine.kind = "section"
        /\ df = cf /\ put = out
    BY <1>2, <1>3, <1>8 DEF Opening
  <2>2. After(n, m) /\ \A nm, ix : \A x \in Entries(nm, ix) : x < n => Kept(x, n, m)
    BY <1>2, <2>1, ValuesKept
  <2>3. \A nm, ix : n \notin Entries(nm, ix)
    BY <1>2, <2>1 DEF NextLine, Entries, IsEntry
  <2>4. ~ AllocLine(n) /\ \A p : n \notin ConfsOf(p)
    BY <2>3 DEF AllocLine, ConfsOf
  <2>5. \A s, g : Agrees(s, g, n, m) => Agrees(s, g, n + 1, n)
    BY <2>2, <2>3, <2>4, SkipConfig
  <2>6. ConfigAgrees(df, n + 1, n)
    BY <1>2, <2>1, <2>5 DEF ConfigAgrees
  <2>7. \A o, p : ConfAgrees(o, p, m) => ConfAgrees(o, p, n)
    <3> SUFFICES ASSUME NEW o, NEW p, ConfAgrees(o, p, m) PROVE ConfAgrees(o, p, n)
      OBVIOUS
    <3>1. \A x \in ConfsOf(p) : x \in Entries("interface_conf", 0) /\ x \in Nat
      BY <2>2, AfterIs, EntriesAre DEF ConfsOf
    <3>2. \A x \in Nat : x <= m => x < n
      BY <2>2, AfterIs
    <3>3. \A x \in ConfsOf(p) : x <= m => Kept(x, n, m)
      BY <2>2, <3>1, <3>2
    <3> QED BY <2>2, <2>4, <3>3, SkipConf
  <2>8. OutAgrees(put, n)
    BY <1>2, <2>1, <2>7 DEF OutAgrees
  <2> QED BY <1>3, <1>4, <2>1, <2>6, <2>8
<1>9. CASE UNCHANGED vars \/ Started
  BY <1>5, <1>9 DEF vars, Started
<1> QED BY <1>6, <1>7, <1>8, <1>9, Steps

(* Before the first line, nothing is set.                                  *)
LEMMA InitSettings == Init => SettingsInv
<1> SUFFICES ASSUME Init PROVE SettingsInv
  OBVIOUS
<1>1. pos = 0 /\ config = None /\ out_interface = [p \in Port |-> Zero] /\ IniTyped
  BY InitHeader DEF Init, HeaderInv
<1>2. PICK cf, out, n, m : cf = config /\ out = out_interface /\ m = pos /\ n = pos + 1
  OBVIOUS
<1>3. ConfigAgrees(cf, n, m)
  BY <1>1, <1>2 DEF ConfigAgrees
<1>4. ASSUME NEW p PROVE ConfsTo(p, m) = {}
  <2>1. ConfsOf(p) \subseteq Nat \ {0}
    BY <1>1, EntriesAre DEF ConfsOf
  <2> QED BY <1>1, <1>2, <2>1 DEF ConfsTo
<1>5. OutAgrees(out, m)
  BY <1>1, <1>2, <1>4 DEF OutAgrees, ConfAgrees
<1> QED BY <1>2, <1>3, <1>5 DEF SettingsInv

(* At the end of the file, the settings are what its text says.            *)
LEMMA SettingsEnd ==
    ASSUME HeaderInv, SettingsInv, Read, NEW p \in Port, ConfsOf(p) # {}
    PROVE  \E c \in Nat, g \in Int :
             /\ \A f : Setting(p, f) = SetBy(g, c, f)
             /\ \A f : Setting(p, f) # {} =>
                    ValueTo(LastOf(Setting(p, f)), c) = Value(LastOf(Setting(p, f)))
             /\ Agrees(out_interface[p], g, c, c)
<1>1. pos = Len(ini) /\ pos \in Nat /\ DOMAIN ini = 1 .. pos /\ IniTyped /\ phase # "dead"
  BY Zenon DEF HeaderInv, IniTyped, Read
<1>2. OutAgrees(out_interface, pos)
  BY <1>1 DEF SettingsInv
<1>3. ConfsOf(p) \subseteq Nat /\ ConfsOf(p) \subseteq 1 .. pos
  <2>1. ConfsOf(p) \subseteq DOMAIN ini
    BY DEF ConfsOf, Entries
  <2> QED BY <1>1, <2>1
<1>4. ConfsTo(p, pos) = ConfsOf(p)
  BY <1>1, <1>3 DEF ConfsTo
<1>5. PICK c \in Nat : c = LastOf(ConfsOf(p)) /\ c \in 1 .. pos
  <2>1. ConfsOf(p) \subseteq 0 .. pos
    BY <1>1, <1>3
  <2>2. LastOf(ConfsOf(p)) \in ConfsOf(p)
    BY <1>1, <2>1, LastOfIs
  <2> QED BY <1>3, <2>2
<1>6. \A x \in 1 .. pos : ValueTo(x, pos) = Value(x) /\ \A d \in Nat : x < d /\ d <= pos => ValueTo(x, d) = Value(x)
  BY <1>1 DEF ValueTo, Value
<1>7. PICK g : g = Atoi(Value(c))
  OBVIOUS
<1>8. Agrees(out_interface[p], g, c, c)
  <2>1. ConfAgrees(out_interface[p], p, pos)
    BY <1>2 DEF OutAgrees
  <2>2. ValueTo(c, pos) = Value(c)
    BY <1>5, <1>6
  <2> QED BY <1>4, <1>5, <1>7, <2>1, <2>2 DEF ConfAgrees
<1>9. \A f : Setting(p, f) = SetBy(g, c, f)
  BY <1>5, <1>7 DEF Setting
<1>10. ASSUME NEW f, Setting(p, f) # {}
       PROVE  ValueTo(LastOf(Setting(p, f)), c) = Value(LastOf(Setting(p, f)))
  <2>1. PICK S : S = Setting(p, f) /\ S = SetBy(g, c, f)
    BY <1>9
  <2>2. c # 0 /\ c <= pos
    BY <1>1, <1>5
  <2>3. S \subseteq Nat /\ S \subseteq Entries("group_", g) /\ \A x \in S : x < c
    BY <1>1, <2>1, <2>2, SetByNext
  <2>4. S \subseteq 0 .. c
    BY <2>3
  <2>5. LastOf(S) \in S
    BY <1>10, <2>1, <2>4, LastOfIs
  <2>6. LastOf(S) \in 1 .. pos /\ LastOf(S) < c
    <3>1. LastOf(S) \in Nat \ {0} /\ LastOf(S) < c
      BY <1>1, <2>3, <2>5, EntriesAre
    <3> QED BY <1>1, <2>2, <3>1
  <2> QED BY <1>6, <2>1, <2>2, <2>6
<1>11. g \in Int
  BY <1>7, AtoiTyped
<1> QED BY <1>8, <1>9, <1>10, <1>11

(* At the end of the file, all settings are as the file says.              *)
LEMMA SettingsAreRead == HeaderInv /\ SettingsInv => SettingsAsRead
<1> SUFFICES ASSUME HeaderInv, SettingsInv, Read, NEW p \in Port, ConfsOf(p) # {}, NEW f \in Field,
                    NEW said, said = Setting(p, f), NEW v, v = Value(LastOf(said))
             PROVE  /\ said = {} => out_interface[p][f] = Junk
                    /\ said # {} /\ f \in StringField => out_interface[p][f] = v
                    /\ said # {} /\ f \notin StringField /\ (f = "delta" => Atoi(v) > 0) =>
                           out_interface[p][f] = Atoi(v)
  BY Zenon DEF SettingsAsRead
<1>1. PICK c \in Nat, g \in Int :
             /\ \A h : Setting(p, h) = SetBy(g, c, h)
             /\ \A h : Setting(p, h) # {} =>
                    ValueTo(LastOf(Setting(p, h)), c) = Value(LastOf(Setting(p, h)))
             /\ Agrees(out_interface[p], g, c, c)
  BY SettingsEnd
<1>2. Tells(f, Known(said, c, f), out_interface[p][f])
  BY <1>1 DEF Agrees, Shown
<1>3. said # {} => Known(said, c, f) = AsField(f, v)
  BY <1>1 DEF Known
<1>4. said = {} => out_interface[p][f] = Junk
  <2>1. f = "delta" /\ said = {} => out_interface[p].delta = Junk
    BY <1>1 DEF Agrees, Paired, PairIs
  <2>2. f # "delta" /\ said = {} => out_interface[p][f] = Junk
    BY <1>2 DEF Tells, Known
  <2> QED BY <2>1, <2>2
<1>5. said # {} /\ f \in StringField => out_interface[p][f] = v
  BY <1>2, <1>3, FieldsAre DEF Tells, AsField
<1>6. said # {} /\ f \notin StringField /\ (f = "delta" => Atoi(v) > 0) => out_interface[p][f] = Atoi(v)
  BY <1>2, <1>3, AtoiTyped DEF Tells, AsField
<1> QED BY <1>4, <1>5, <1>6

(* At the end of the file, the deltas are checked.                         *)
LEMMA PairsAreChecked == HeaderInv /\ SettingsInv => PairChecked
<1> SUFFICES ASSUME HeaderInv, SettingsInv, Read, NEW p \in Port, ConfsOf(p) # {},
                    Setting(p, "alpha") # {}, \A x \in Setting(p, "alpha"), y \in Setting(p, "delta") : x < y
             PROVE  out_interface[p].alpha = 0 \/ out_interface[p].delta = Junk \/ out_interface[p].delta > 0
  BY DEF PairChecked
<1>1. PICK c \in Nat, g \in Int :
             (\A h : Setting(p, h) = SetBy(g, c, h)) /\ Agrees(out_interface[p], g, c, c)
  BY SettingsEnd
<1>2. PairIs(Setting(p, "alpha"), Setting(p, "delta"), out_interface[p])
  BY <1>1 DEF Agrees, Paired
<1> QED BY <1>2 DEF PairIs

(* For any INI file without indented lines, its sections in any order:     *)
(* what a port does is what the text of its group said before the port's   *)
(* last line.                                                              *)
THEOREM SettingsRead == Spec => []SettingsAsRead
<1> DEFINE Inv == HeaderInv /\ SettingsInv
<1>1. Init => Inv
  BY InitHeader, InitSettings
<1>2. Inv /\ [Next]_vars => Inv'
  BY HeaderKept, SettingsKept
<1>3. Inv => SettingsAsRead
  BY SettingsAreRead
<1> QED BY <1>1, <1>2, <1>3, PTL DEF Spec

(* For any INI file: if the alpha is written first, no port judges names   *)
(* with a delta that the file gives as zero or less.                       *)
THEOREM PairsChecked == Spec => []PairChecked
<1> DEFINE Inv == HeaderInv /\ SettingsInv
<1>1. Init => Inv
  BY InitHeader, InitSettings
<1>2. Inv /\ [Next]_vars => Inv'
  BY HeaderKept, SettingsKept
<1>3. Inv => PairChecked
  BY PairsAreChecked
<1> QED BY <1>1, <1>2, <1>3, PTL DEF Spec

-----------------------------------------------------------------------------
(* The subnet lists: two words agree on the bits of a mask.                *)
LEMMA MaskedAgree ==
    ASSUME NEW a \in Word, NEW w \in Word, NEW m \in Word
    PROVE  And(a, m) = And(w, m) <=> \A p \in 1 .. W : m[p] = 1 => a[p] = w[p]
<1>1. ASSUME And(a, m) = And(w, m), NEW p \in 1 .. W, m[p] = 1 PROVE a[p] = w[p]
  <2>1. And(a, m)[p] = And(w, m)[p]
    BY <1>1
  <2>2. a[p] \in {0, 1} /\ w[p] \in {0, 1}
    BY DEF Word
  <2> QED BY <1>1, <2>1, <2>2 DEF And
<1>2. ASSUME \A p \in 1 .. W : m[p] = 1 => a[p] = w[p] PROVE And(a, m) = And(w, m)
  BY <1>2 DEF And
<1> QED BY <1>1, <1>2

(* The parts of a line.                                                    *)
LEMMA NetLineIs ==
    ASSUME NEW l \in NetLine
    PROVE  /\ l.kind \in {"v4", "dotted", "old", "v6", "bad"}
           /\ l.kind = "v4" => l.addr \in Word /\ l.bits \in 0 .. W
           /\ l.kind \in {"dotted", "old"} => l.addr \in Word /\ l.mask \in Word
           /\ l.kind = "v6" => l.addr \in Address6 /\ l.bits \in 0 .. B * Bytes6
BY DEF NetLine

(* The word 0.                                                             *)
LEMMA ZeroFacts ==
    /\ ZeroWord \in Word /\ \A p \in 1 .. W : ZeroWord[p] = 0
    /\ \A a : And(a, ZeroWord) = ZeroWord
<1>1. \A p \in 1 .. W : ZeroWord[p] = 0
  BY SubnetAssumption DEF ZeroWord, PrefixMask
<1>2. ZeroWord \in Word
  BY <1>1 DEF ZeroWord, PrefixMask, Word
<1>3. ASSUME NEW a PROVE And(a, ZeroWord) = ZeroWord
  <2>1. \A p \in 1 .. W : ~ (a[p] = 1 /\ ZeroWord[p] = 1)
    BY <1>1
  <2>2. And(a, ZeroWord) = [p \in 1 .. W |-> 0]
    BY <2>1 DEF And
  <2>3. ZeroWord = [p \in 1 .. W |-> 0]
    BY <1>1 DEF ZeroWord, PrefixMask
  <2> QED BY <2>2, <2>3
<1> QED BY <1>1, <1>2, <1>3

(* The entry of a line matches what the line covers.                       *)
LEMMA Net4Covers ==
    ASSUME NEW l \in NetLine, IsV4(l), NEW a \in Word
    PROVE  And(a, Net4(l).mask) = Net4(l).net <=> Covers(l, a) \/ IsZeroNet(l)
<1>1. CASE l.kind = "v4" /\ (l.bits = 0 \/ l.addr = ZeroWord)
  <2>1. Net4(l) = [net |-> And(ZeroWord, ZeroWord), mask |-> ZeroWord]
    BY <1>1 DEF Net4
  <2>2. And(a, Net4(l).mask) = Net4(l).net
    BY <2>1, ZeroFacts
  <2>3. l.bits = 0 => Covers(l, a)
    BY <1>1 DEF Covers
  <2>4. l.bits # 0 => IsZeroNet(l)
    BY <1>1 DEF IsZeroNet
  <2> QED BY <2>2, <2>3, <2>4
<1>2. CASE l.kind = "v4" /\ l.bits # 0 /\ l.addr # ZeroWord
  <2>1. PICK m : m = PrefixMask(l.bits)
    OBVIOUS
  <2>2. m \in Word /\ \A p \in 1 .. W : m[p] = 1 <=> p <= l.bits
    BY <2>1 DEF PrefixMask, Word
  <2>3. Net4(l) = [net |-> And(l.addr, m), mask |-> m]
    BY <1>2, <2>1 DEF Net4
  <2>4. l.addr \in Word /\ l.bits \in 0 .. W
    BY <1>2, NetLineIs
  <2>5. And(a, m) = And(l.addr, m) <=> \A p \in 1 .. W : p <= l.bits => a[p] = l.addr[p]
    BY <2>2, <2>4, MaskedAgree
  <2>6. \A p : p \in 1 .. l.bits <=> p \in 1 .. W /\ p <= l.bits
    BY <2>4, SubnetAssumption
  <2>7. Covers(l, a) <=> \A p \in 1 .. l.bits : a[p] = l.addr[p]
    BY <1>2 DEF Covers
  <2>8. ~ IsZeroNet(l)
    BY <1>2 DEF IsZeroNet
  <2> QED BY <2>3, <2>5, <2>6, <2>7, <2>8
<1>3. CASE l.kind \in {"dotted", "old"}
  <2>1. Net4(l) = [net |-> And(l.addr, l.mask), mask |-> l.mask]
    BY <1>3 DEF Net4
  <2>2. l.addr \in Word /\ l.mask \in Word
    BY <1>3, NetLineIs
  <2>3. And(a, l.mask) = And(l.addr, l.mask) <=> \A p \in 1 .. W : l.mask[p] = 1 => a[p] = l.addr[p]
    BY <2>2, MaskedAgree
  <2>4. Covers(l, a) <=> \A p \in 1 .. W : l.mask[p] = 1 => a[p] = l.addr[p]
    BY <1>3 DEF Covers
  <2>5. ~ IsZeroNet(l)
    BY <1>3 DEF IsZeroNet
  <2> QED BY <2>1, <2>3, <2>4, <2>5
<1> QED BY <1>1, <1>2, <1>3 DEF IsV4

(* Division with remainder.                                                *)
LEMMA DivMod ==
    ASSUME NEW a \in Nat, NEW b \in Nat \ {0}
    PROVE  a \div b \in Nat /\ a % b \in 0 .. b - 1 /\ a = b * (a \div b) + (a % b)
OBVIOUS

(* The quotient and the remainder of a known sum.                          *)
LEMMA DivIs ==
    ASSUME NEW b \in Nat \ {0}, NEW q \in Nat, NEW r \in 0 .. b - 1
    PROVE  b * q + r \in Nat /\ (b * q + r) \div b = q /\ (b * q + r) % b = r
OBVIOUS

(* Multiples of b differ by b at least.                                    *)
LEMMA Multiples ==
    ASSUME NEW b \in Nat \ {0}, NEW q \in Nat, NEW p \in Nat, q < p
    PROVE  b * q + b <= b * p
OBVIOUS

(* The first n bits: f whole bytes and r bits of the next one.             *)
LEMMA BitsAre ==
    ASSUME NEW b \in Nat \ {0}, NEW n \in Nat, NEW f \in Nat, NEW r \in Nat, r < b, n = b * f + r,
           NEW q \in Nat, NEW k \in Nat, k < b
    PROVE  b * q + k < n <=> q < f \/ (q = f /\ k < r)
<1>1. CASE q < f
  <2>1. b * q + b <= b * f
    BY <1>1, Multiples
  <2>2. PICK x \in Nat, y \in Nat : x = b * q /\ y = b * f
    OBVIOUS
  <2> QED BY <1>1, <2>1, <2>2
<1>2. CASE q = f
  <2>1. PICK x \in Nat : x = b * q
    OBVIOUS
  <2> QED BY <1>2, <2>1
<1>3. CASE f < q
  <2>1. b * f + b <= b * q
    BY <1>3, Multiples
  <2>2. PICK x \in Nat, y \in Nat : x = b * q /\ y = b * f
    OBVIOUS
  <2> QED BY <1>3, <2>1, <2>2
<1> QED BY <1>1, <1>2, <1>3

(* Bit k of byte q, both from 0.                                           *)
SameBit(a, w, q, k) == a[q + 1][k + 1] = w[q + 1][k + 1]

(* The same bits, counted through or by bytes.                             *)
LEMMA CoversBits ==
    ASSUME NEW a, NEW w, NEW n \in Nat
    PROVE  (\A p \in 1 .. n : Bit6(a, p) = Bit6(w, p)) <=>
               \A q \in Nat : \A k \in 0 .. B - 1 : B * q + k < n => SameBit(a, w, q, k)
<1>1. B \in Nat \ {0}
  BY SubnetAssumption
<1>2. ASSUME \A p \in 1 .. n : Bit6(a, p) = Bit6(w, p), NEW q \in Nat, NEW k \in 0 .. B - 1, B * q + k < n
      PROVE  SameBit(a, w, q, k)
  <2>1. PICK x \in Nat : x = B * q + k /\ x \div B = q /\ x % B = k
    BY <1>1, DivIs
  <2>2. PICK p \in 1 .. n : p - 1 = x
    BY <1>2, <2>1
  <2>3. Bit6(a, p) = Bit6(w, p)
    BY <1>2
  <2> QED BY <2>1, <2>2, <2>3 DEF Bit6, SameBit
<1>3. ASSUME \A q \in Nat : \A k \in 0 .. B - 1 : B * q + k < n => SameBit(a, w, q, k), NEW p \in 1 .. n
      PROVE  Bit6(a, p) = Bit6(w, p)
  <2>1. PICK x \in Nat : x = p - 1 /\ x < n
    OBVIOUS
  <2>2. PICK q \in Nat, k \in 0 .. B - 1 : q = x \div B /\ k = x % B /\ x = B * q + k
    BY <1>1, DivMod
  <2>3. SameBit(a, w, q, k)
    BY <1>3, <2>1, <2>2
  <2> QED BY <2>1, <2>2, <2>3 DEF Bit6, SameBit
<1> QED BY <1>2, <1>3

(* Functions with the same values are equal.                               *)
LEMMA SameFunction ==
    ASSUME NEW S, NEW T, NEW x \in [S -> T], NEW y \in [S -> T]
    PROVE  (\A p \in S : x[p] = y[p]) => x = y
OBVIOUS

(* The entry of an IPv6 line matches what the line covers.                 *)
LEMMA Net6Covers ==
    ASSUME NEW l \in NetLine, IsV6(l), NEW a \in Address6
    PROVE  Matches6(a, Net6(l)) <=> Covers6(l, a)
<1>1. B \in Nat \ {0} /\ Bytes6 \in Nat
  BY SubnetAssumption
<1>2. PICK w \in Address6, n \in Nat : w = l.addr /\ n = l.bits /\ n <= B * Bytes6
  <2>1. l.addr \in Address6 /\ l.bits \in 0 .. B * Bytes6
    BY NetLineIs DEF IsV6
  <2> QED BY <1>1, <2>1
<1>3. PICK f \in Nat, r \in Nat : f = n \div B /\ r = n % B /\ r < B /\ n = B * f + r
  <2>1. PICK f \in Nat, r \in 0 .. B - 1 : f = n \div B /\ r = n % B /\ n = B * f + r
    BY <1>1, DivMod, ZenonT(60)
  <2>2. r \in Nat /\ r < B
    BY <1>1
  <2> QED BY <2>1, <2>2
<1>4. f <= Bytes6 /\ (r # 0 => f < Bytes6)
  <2>1. PICK b \in Nat, x \in Nat, y \in Nat : b = B /\ x = B * f /\ y = B * Bytes6
    BY <1>1
  <2>2. x + r <= y
    BY <1>2, <1>3, <2>1
  <2>3. Bytes6 < f => y + b <= x
    BY <1>1, <2>1, Multiples
  <2>4. Bytes6 = f => y = x
    BY <2>1
  <2> QED BY <1>1, <1>3, <2>1, <2>2, <2>3, <2>4
<1>5. Covers6(l, a) <=> \A q \in Nat : \A k \in 0 .. B - 1 : B * q + k < n => SameBit(a, w, q, k)
  <2>1. Covers6(l, a) <=> \A p \in 1 .. n : Bit6(a, p) = Bit6(w, p)
    BY <1>2 DEF Covers6
  <2> QED BY <2>1, CoversBits
<1>6. \A q \in Nat : \A k \in 0 .. B - 1 : B * q + k < n <=> q < f \/ (q = f /\ k < r)
  BY <1>1, <1>3, BitsAre
<1>7. \A q \in Nat : q < f => (a[q + 1] = w[q + 1] <=> \A k \in 0 .. B - 1 : SameBit(a, w, q, k))
  <2> SUFFICES ASSUME NEW q \in Nat, q < f
               PROVE  a[q + 1] = w[q + 1] <=> \A k \in 0 .. B - 1 : SameBit(a, w, q, k)
    OBVIOUS
  <2>1. PICK x, y : x = a[q + 1] /\ y = w[q + 1]
    OBVIOUS
  <2>2. x \in [1 .. B -> {0, 1}] /\ y \in [1 .. B -> {0, 1}]
    BY <1>1, <1>2, <1>4, <2>1 DEF Address6
  <2>3. (\A k \in 0 .. B - 1 : x[k + 1] = y[k + 1]) => \A p \in 1 .. B : x[p] = y[p]
    <3> SUFFICES ASSUME \A k \in 0 .. B - 1 : x[k + 1] = y[k + 1], NEW p \in 1 .. B PROVE x[p] = y[p]
      OBVIOUS
    <3>1. PICK k \in 0 .. B - 1 : k + 1 = p
      BY <1>1
    <3> QED BY <3>1
  <2>4. (\A p \in 1 .. B : x[p] = y[p]) => x = y
    <3>1. PICK S, T : S = 1 .. B /\ T = {0, 1}
      OBVIOUS
    <3>2. x \in [S -> T] /\ y \in [S -> T]
      BY <2>2, <3>1
    <3>3. (\A p \in S : x[p] = y[p]) => x = y
      BY <3>2, SameFunction
    <3> QED BY <3>1, <3>3
  <2>5. x = y <=> \A k \in 0 .. B - 1 : x[k + 1] = y[k + 1]
    BY <2>3, <2>4
  <2> QED BY <2>1, <2>5 DEF SameBit
<1>8. ASSUME r # 0
      PROVE  Leading(a[f + 1], r) = Leading(w[f + 1], r) <=> \A k \in 0 .. B - 1 : k < r => SameBit(a, w, f, k)
  <2>1. PICK x, y : x = a[f + 1] /\ y = w[f + 1]
    OBVIOUS
  <2>2. Leading(x, r) = Leading(y, r) <=> \A p \in 1 .. B : p <= r => x[p] = y[p]
    <3>1. ASSUME Leading(x, r) = Leading(y, r), NEW p \in 1 .. B, p <= r PROVE x[p] = y[p]
      <4>1. Leading(x, r)[p] = Leading(y, r)[p]
        BY <3>1
      <4> QED BY <3>1, <4>1 DEF Leading
    <3>2. ASSUME \A p \in 1 .. B : p <= r => x[p] = y[p] PROVE Leading(x, r) = Leading(y, r)
      BY <3>2 DEF Leading
    <3> QED BY <3>1, <3>2
  <2>3. (\A k \in 0 .. B - 1 : k < r => x[k + 1] = y[k + 1]) <=> \A p \in 1 .. B : p <= r => x[p] = y[p]
    <3>1. ASSUME \A k \in 0 .. B - 1 : k < r => x[k + 1] = y[k + 1], NEW p \in 1 .. B, p <= r PROVE x[p] = y[p]
      <4>1. PICK k \in 0 .. B - 1 : k + 1 = p /\ k < r
        BY <1>1, <3>1
      <4> QED BY <3>1, <4>1
    <3>2. ASSUME \A p \in 1 .. B : p <= r => x[p] = y[p], NEW k \in 0 .. B - 1, k < r PROVE x[k + 1] = y[k + 1]
      <4>1. PICK p \in 1 .. B : p = k + 1 /\ p <= r
        BY <1>1, <3>2
      <4> QED BY <3>2, <4>1
    <3> QED BY <3>1, <3>2
  <2> QED BY <2>1, <2>2, <2>3 DEF SameBit
<1>9. (\A y \in 1 .. f : a[y] = w[y]) <=> \A q \in Nat : q < f => a[q + 1] = w[q + 1]
  <2>1. ASSUME \A y \in 1 .. f : a[y] = w[y], NEW q \in Nat, q < f PROVE a[q + 1] = w[q + 1]
    BY <2>1
  <2>2. ASSUME \A q \in Nat : q < f => a[q + 1] = w[q + 1], NEW y \in 1 .. f PROVE a[y] = w[y]
    <3>1. PICK q \in Nat : q + 1 = y /\ q < f
      OBVIOUS
    <3> QED BY <2>2, <3>1
  <2> QED BY <2>1, <2>2
<1>10. Matches6(a, Net6(l)) <=> (\A y \in 1 .. f : a[y] = w[y]) /\ (r # 0 => Leading(a[f + 1], r) = Leading(w[f + 1], r))
  BY <1>2, <1>3 DEF Matches6, Net6
<1>11. Covers6(l, a) <=> /\ \A q \in Nat : q < f => \A k \in 0 .. B - 1 : SameBit(a, w, q, k)
                         /\ \A k \in 0 .. B - 1 : k < r => SameBit(a, w, f, k)
  BY <1>5, <1>6
<1>12. r = 0 => \A k \in 0 .. B - 1 : ~ (k < r)
  OBVIOUS
<1> QED BY <1>7, <1>8, <1>9, <1>10, <1>11, <1>12

(* The lists of a file match what the accepted lines cover, if none of     *)
(* them is a net of the address 0.                                         *)
LEMMA ChecksOf ==
    ASSUME NEW file \in Seq(NetLine), NEW old, \A l \in Accepted(file) : ~ IsZeroNet(l)
    PROVE  ChecksAgree(file, ParseNetFile(file, old))
<1>1. PICK L : L = Accepted(file)
  OBVIOUS
<1>2. L \subseteq NetLine
  <2>1. \A q \in DOMAIN file : file[q] \in NetLine
    OBVIOUS
  <2> QED BY <1>1, <2>1 DEF Accepted
<1>3. PICK S : S = ParseNetFile(file, old)
  OBVIOUS
<1>4. /\ S.net4 = {Net4(l) : l \in {m \in L : IsV4(m)}}
      /\ S.net6 = {Net6(l) : l \in {m \in L : IsV6(m)}}
  BY <1>1, <1>3 DEF ParseNetFile
<1>5. ASSUME NEW a \in Word PROVE IpCheck(a, S) <=> \E l \in L : Covers(l, a)
  <2>1. IpCheck(a, S) <=> \E l \in L : IsV4(l) /\ And(a, Net4(l).mask) = Net4(l).net
    BY <1>4 DEF IpCheck
  <2>2. \A l \in L : Covers(l, a) => IsV4(l)
    BY DEF Covers, IsV4
  <2>3. \A l \in L : IsV4(l) => (And(a, Net4(l).mask) = Net4(l).net <=> Covers(l, a))
    <3>1. \A l \in L : IsV4(l) => (And(a, Net4(l).mask) = Net4(l).net <=> Covers(l, a) \/ IsZeroNet(l))
      BY <1>2, Net4Covers
    <3> QED BY <1>1, <3>1
  <2> QED BY <2>1, <2>2, <2>3
<1>6. ASSUME NEW a \in Address6 PROVE MatchIpv6Net(a, S) <=> \E l \in L : Covers6(l, a)
  <2>1. MatchIpv6Net(a, S) <=> \E l \in L : IsV6(l) /\ Matches6(a, Net6(l))
    BY <1>4 DEF MatchIpv6Net
  <2>2. \A l \in L : Covers6(l, a) => IsV6(l)
    BY DEF Covers6
  <2>3. \A l \in L : IsV6(l) => (Matches6(a, Net6(l)) <=> Covers6(l, a))
    BY <1>2, Net6Covers
  <2> QED BY <2>1, <2>2, <2>3
<1> QED BY <1>1, <1>3, <1>5, <1>6 DEF ChecksAgree

-----------------------------------------------------------------------------
(* The lists. The last interface before port n that encrypts is e.         *)
LastOne(e, n) ==
    /\ e < n /\ out_interface[e].anon_ip = 1
    /\ \A p \in Port : e < p /\ p < n => out_interface[p].anon_ip # 1

(* The lists are those of interface e's files.                             *)
ListsFrom(e) ==
    /\ {out_interface[e].anon_subnet_file, out_interface[e].no_anon_subnet_file} \subseteq DOMAIN files
    /\ anon = ParseNetFile(files[out_interface[e].anon_subnet_file], EmptyLists)
    /\ no_anon = ParseNetFile(files[out_interface[e].no_anon_subnet_file], EmptyLists)

FilesTyped == \A f \in DOMAIN files : files[f] \in Seq(NetLine)

PortTyped ==
    /\ phase = "ini" => port = 0
    /\ phase \in {"init", "loop"} => port \in Nat /\ port <= MAX_INTERFACES
    /\ phase = "loop" => port = MAX_INTERFACES

(* Each interface replaces both lists, if it encrypts.                     *)
NetsInv ==
    /\ FilesTyped /\ PortTyped
    /\ phase \in {"init", "loop"} /\ (\A p \in Port : out_interface[p].anon_ip # Junk) =>
         \A e \in Port : LastOne(e, port) => ListsFrom(e)

(* What is read does not depend on what was in the lists.                  *)
LEMMA ReadAnew == \A file, old : ParseNetFile(file, old) = ParseNetFile(file, EmptyLists)
BY DEF ParseNetFile

(* The turn of one interface.                                              *)
LEMMA InitPortNets ==
    ASSUME NetsInv, InitPort
    PROVE  NetsInv'
<1>1. MAX_INTERFACES \in Nat /\ Junk \notin Int
  BY MaxTyped, ConfigurationAssumption
<1>2. PICK n \in Nat : n = port /\ n < MAX_INTERFACES
  <2>1. port \in Nat /\ port < MAX_INTERFACES
    BY DEF NetsInv, PortTyped, InitPort
  <2> QED BY <2>1
<1>3. PICK o : o = out_interface
  OBVIOUS
<1>4. /\ phase = "init" /\ port' = n + 1 /\ phase' \in {"init", "dead"}
      /\ UNCHANGED <<files, out_interface>>
  BY <1>2 DEF InitPort
<1>5. FilesTyped' /\ PortTyped'
  <2>1. FilesTyped'
    BY <1>4 DEF NetsInv, FilesTyped
  <2>2. n + 1 \in Nat /\ n + 1 <= MAX_INTERFACES
    BY <1>1, <1>2
  <2> QED BY <1>4, <2>1, <2>2 DEF PortTyped
<1> SUFFICES ASSUME phase' = "init", (\A p \in Port : out_interface[p].anon_ip # Junk)',
                    NEW e \in Port, LastOne(e, port)'
             PROVE  ListsFrom(e)'
  BY <1>4, <1>5 DEF NetsInv
<1>6. \A p \in Port : o[p].anon_ip # Junk
  BY <1>3, <1>4
<1>7. e < n + 1 /\ o[e].anon_ip = 1 /\ \A p \in Port : e < p /\ p < n + 1 => o[p].anon_ip # 1
  BY <1>3, <1>4 DEF LastOne
<1>8. n \in Port /\ e \in Nat
  BY <1>1, <1>2 DEF Port
<1>9. CASE o[n].anon_ip = 1
  <2>1. e = n
    <3>1. ~ (e < n)
      BY <1>7, <1>8, <1>9
    <3> QED BY <1>7, <1>8, <3>1
  <2>2. /\ {o[n].anon_subnet_file, o[n].no_anon_subnet_file} \subseteq DOMAIN files
        /\ anon' = ParseNetFile(files[o[n].anon_subnet_file], anon)
        /\ no_anon' = ParseNetFile(files[o[n].no_anon_subnet_file], no_anon)
    <3>1. phase' # "dead"
      OBVIOUS
    <3> QED BY <1>2, <1>3, <1>9, <3>1 DEF InitPort
  <2>3. /\ anon' = ParseNetFile(files[o[n].anon_subnet_file], EmptyLists)
        /\ no_anon' = ParseNetFile(files[o[n].no_anon_subnet_file], EmptyLists)
    BY <2>2, ReadAnew, Zenon
  <2> QED BY <1>3, <1>4, <2>1, <2>2, <2>3 DEF ListsFrom
<1>10. CASE o[n].anon_ip # 1
  <2>1. e < n
    <3>1. e # n
      BY <1>7, <1>10
    <3> QED BY <1>7, <1>8, <3>1
  <2>2. LastOne(e, port)
    <3>1. \A p \in Port : e < p /\ p < n => o[p].anon_ip # 1
      <4> SUFFICES ASSUME NEW p \in Port, e < p, p < n PROVE o[p].anon_ip # 1
        OBVIOUS
      <4>1. p < n + 1
        BY <1>1 DEF Port
      <4> QED BY <1>7, <4>1
    <3> QED BY <1>2, <1>3, <1>7, <2>1, <3>1 DEF LastOne
  <2>3. ListsFrom(e)
    BY <1>3, <1>4, <1>6, <2>2 DEF NetsInv
  <2>4. UNCHANGED lists
    <3>1. o[n].anon_ip \notin {1, Junk}
      BY <1>6, <1>8, <1>10
    <3> QED BY <1>2, <1>3, <3>1 DEF InitPort
  <2> QED BY <1>4, <2>3, <2>4 DEF ListsFrom, lists
<1> QED BY <1>9, <1>10

(* The steps that leave the files and the lists alone.                     *)
LEMMA NetsSame ==
    ASSUME NetsInv, UNCHANGED <<files, lists, port>>, phase' \in {phase, "dead"},
           phase \in {"init", "loop"} => UNCHANGED out_interface
    PROVE  NetsInv'
<1>1. FilesTyped' /\ PortTyped'
  BY DEF NetsInv, FilesTyped, PortTyped
<1> SUFFICES ASSUME phase' \in {"init", "loop"}, (\A p \in Port : out_interface[p].anon_ip # Junk)',
                    NEW e \in Port, LastOne(e, port)'
             PROVE  ListsFrom(e)'
  BY <1>1 DEF NetsInv
<1>2. phase \in {"init", "loop"} /\ UNCHANGED out_interface
  OBVIOUS
<1>3. LastOne(e, port)
  BY <1>2 DEF LastOne
<1>4. ListsFrom(e)
  BY <1>2, <1>3 DEF NetsInv
<1> QED BY <1>2, <1>4 DEF ListsFrom, lists

(* Every step keeps NetsInv.                                               *)
LEMMA NetsKept == HeaderInv /\ NetsInv /\ [Next]_vars => NetsInv'
<1> SUFFICES ASSUME HeaderInv, NetsInv, [Next]_vars PROVE NetsInv'
  OBVIOUS
<1>1. CASE UNCHANGED vars
  BY <1>1, NetsSame DEF vars
<1>2. CASE ReadContinuation \/ ReadSection \/ ReadEntry
  <2>1. UNCHANGED <<files, lists, port>> /\ phase = "ini"
    BY <1>2 DEF ReadContinuation, ReadSection, ReadEntry, Reading
  <2>2. phase' \in {phase, "dead"}
    <3>1. CASE ReadSection
      BY <3>1 DEF ReadSection, Keep
    <3>2. CASE ReadContinuation \/ ReadEntry
      <4>1. PICK name, value : ParseIni(name, value)
        BY <3>2 DEF ReadContinuation, ReadEntry
      <4> QED BY <4>1, ParseCases, ParsesPhase
    <3> QED BY <1>2, <3>1, <3>2
  <2> QED BY <2>1, <2>2, NetsSame
<1>3. CASE EndOfIni
  <2>1. /\ phase = "ini" /\ phase' = "init" /\ UNCHANGED <<files, port>>
    BY <1>3 DEF EndOfIni
  <2>2. port' = 0 /\ FilesTyped'
    BY <2>1 DEF NetsInv, PortTyped, FilesTyped
  <2>3. PortTyped'
    BY <2>1, <2>2, MaxTyped DEF PortTyped
  <2>4. ASSUME NEW e \in Port PROVE ~ LastOne(e, port)'
    <3>1. ~ (e < 0)
      BY MaxTyped DEF Port
    <3> QED BY <2>2, <3>1 DEF LastOne
  <2> QED BY <2>2, <2>3, <2>4 DEF NetsInv
<1>4. CASE InitPort
  BY <1>4, InitPortNets
<1>5. CASE StartLoop
  <2>1. /\ phase = "init" /\ phase' = "loop" /\ port = MAX_INTERFACES
        /\ UNCHANGED <<files, port, out_interface, lists>>
    BY <1>5 DEF StartLoop
  <2>2. FilesTyped' /\ PortTyped'
    BY <2>1, MaxTyped DEF NetsInv, FilesTyped, PortTyped
  <2> SUFFICES ASSUME (\A p \in Port : out_interface[p].anon_ip # Junk)', NEW e \in Port, LastOne(e, port)'
               PROVE  ListsFrom(e)'
    BY <2>2 DEF NetsInv
  <2>3. LastOne(e, port)
    BY <2>1 DEF LastOne
  <2>4. ListsFrom(e)
    BY <2>1, <2>3 DEF NetsInv
  <2> QED BY <2>1, <2>4 DEF ListsFrom, lists
<1> QED BY <1>1, <1>2, <1>3, <1>4, <1>5 DEF Next

(* The initial state.                                                      *)
LEMMA InitNets == Init => NetsInv
<1> SUFFICES ASSUME Init PROVE NetsInv
  OBVIOUS
<1>1. PICK x \in Input : files = x[2]
  BY DEF Init
<1>2. FilesTyped
  BY <1>1, ConfigurationAssumption, Zenon DEF FilesTyped
<1>3. phase = "ini" /\ port = 0
  BY DEF Init
<1> QED BY <1>2, <1>3 DEF NetsInv, PortTyped

(* The last interface that encrypts has set the lists, from the files of   *)
(* all of them.                                                            *)
LEMMA NetsAreThose == NetsInv => NetsOfOneGroup
<1> SUFFICES ASSUME NetsInv, phase = "loop", NEW r \in Encrypting, OnlyFilesOf(r), ~ HasZeroNet(r)
             PROVE  NetsOf(r)
  BY DEF NetsOfOneGroup
<1>1. MAX_INTERFACES \in Nat
  BY MaxTyped
<1>2. PICK e : e = LastOf(Encrypting)
  OBVIOUS
<1>3. e \in Encrypting /\ \A y \in Encrypting : y <= e
  <2>1. Encrypting \subseteq 0 .. MAX_INTERFACES
    BY <1>1 DEF Encrypting, Port
  <2> QED BY <1>1, <1>2, <2>1, LastOfIs
<1>4. e \in Port /\ out_interface[e].anon_ip = 1
  BY <1>3 DEF Encrypting
<1>5. e \in Nat /\ e < MAX_INTERFACES
  BY <1>1, <1>4 DEF Port
<1>6. ASSUME NEW p \in Port, e < p PROVE out_interface[p].anon_ip # 1
  <2>1. ~ (p <= e)
    BY <1>1, <1>5, <1>6 DEF Port
  <2> QED BY <1>3, <2>1 DEF Encrypting
<1>7. port = MAX_INTERFACES
  BY DEF NetsInv, PortTyped
<1>8. LastOne(e, port)
  BY <1>4, <1>5, <1>6, <1>7 DEF LastOne
<1>9. ListsFrom(e)
  BY <1>4, <1>8 DEF NetsInv, OnlyFilesOf
<1>10. PICK f, h : /\ f = out_interface[e].anon_subnet_file /\ h = out_interface[e].no_anon_subnet_file
                   /\ f = out_interface[r].anon_subnet_file /\ h = out_interface[r].no_anon_subnet_file
  <2>1. SubnetFiles(e) = SubnetFiles(r)
    BY <1>3 DEF OnlyFilesOf
  <2> QED BY <2>1 DEF SubnetFiles
<1>11. /\ files[f] \in Seq(NetLine) /\ files[h] \in Seq(NetLine)
       /\ anon = ParseNetFile(files[f], EmptyLists) /\ no_anon = ParseNetFile(files[h], EmptyLists)
  BY <1>9, <1>10 DEF ListsFrom, NetsInv, FilesTyped
<1>12. (\A l \in Accepted(files[f]) : ~ IsZeroNet(l)) /\ \A l \in Accepted(files[h]) : ~ IsZeroNet(l)
  <2>1. SubnetFiles(r)[1] = f /\ SubnetFiles(r)[2] = h /\ 1 \in 1 .. 2 /\ 2 \in 1 .. 2
    BY <1>10 DEF SubnetFiles
  <2>2. \A n \in 1 .. 2 : \A l \in Accepted(files[SubnetFiles(r)[n]]) : ~ IsZeroNet(l)
    BY Zenon DEF HasZeroNet
  <2> QED BY <2>1, <2>2
<1>13. ChecksAgree(files[f], anon) /\ ChecksAgree(files[h], no_anon)
  BY <1>11, <1>12, ChecksOf
<1> QED BY <1>10, <1>13 DEF NetsOf

(* If the interfaces that encrypt share one pair of files, none was left   *)
(* without a word on anon_ip, and no line is a net of the address 0: the   *)
(* internal and the exempt addresses are those that the lines of the two   *)
(* files cover, up to the first that is refused (ParseNetFile, called by   *)
(* process_packet_init for each interface).                                *)
THEOREM NetsRead == Spec => []NetsOfOneGroup
<1> DEFINE Inv == HeaderInv /\ NetsInv
<1>1. Init => Inv
  BY InitHeader, InitNets
<1>2. Inv /\ [Next]_vars => Inv'
  BY HeaderKept, NetsKept
<1>3. Inv => NetsOfOneGroup
  BY NetsAreThose
<1> QED BY <1>1, <1>2, <1>3, PTL DEF Spec

=============================================================================
