--------------------------- MODULE Configuration ----------------------------
(***************************************************************************)
(* Start-up (src/src/traffic_anon.c and process_packet.c, with the INI     *)
(* reader src/src/ini.c): parse_ini is called for every entry of the INI   *)
(* file, then process_packet_init for every port reads the subnet files;   *)
(* then main_loop may start. One thread does it all.                       *)
(*                                                                         *)
(* A line of the file is a section or an entry, indented or not (comments  *)
(* and empty lines are not there). Only the sections of groups have a      *)
(* number. A value is a number, the name of a port or of a file, or Text,  *)
(* something else.                                                         *)
(***************************************************************************)
EXTENDS SubnetList

CONSTANTS
    MAX_INTERFACES,
    Input,        \* the pairs <<INI file, subnet files>> the program may meet
    Text, Junk,   \* Junk: what malloc'd memory holds
    None

IsLine(l) ==
    /\ l.kind \in {"section", "entry"} /\ l.indented \in BOOLEAN
    /\ l.kind = "entry" => l.name # None
    /\ l.kind = "section" => /\ l.section = [name |-> l.section.name, index |-> l.section.index]
                             /\ l.section.name # "group_" => l.section.index = 0

ASSUME ConfigurationAssumption ==
    /\ MAX_INTERFACES \in Nat
    /\ Text \notin Int /\ Junk \notin Int
    /\ \A x \in Input :
         /\ Len(x[1]) \in Nat /\ DOMAIN x[1] = 1 .. Len(x[1])
         /\ \A n \in DOMAIN x[1] : IsLine(x[1][n])
         /\ \A f \in DOMAIN x[2] : x[2][f] \in Seq(NetLine)

Port == 0 .. MAX_INTERFACES - 1

IntField    == {"anon_mac", "anon_ip", "rotation_delay", "payload_drop", "engine",
                "external_ip", "dns", "tls", "http", "alpha"}
StringField == {"key_mode", "key", "anon_subnet_file", "no_anon_subnet_file"}
Field       == IntField \cup StringField \cup {"delta"}

VARIABLES
    ini, files,         \* the INI file, [file names -> Seq(NetLine)]
    pos,                \* the lines of it that were read
    section, prev_name, \* ini_parse_stream's
    config,             \* config: None, or the settings of each group
    in_interface, in_interface_cnt, used_ports, out_interface,
    port,               \* process_packet_init's loop
    anon, no_anon,      \* the two subnet lists
    phase               \* "ini", "init", "loop"; "dead": the process was killed

ports == <<in_interface, in_interface_cnt, used_ports>>
lists == <<anon, no_anon>>
vars  == <<ini, files, pos, section, prev_name, config, ports, out_interface, port, lists, phase>>

Unset == [f \in Field |-> Junk]

(* Globals are zero from the start.                                        *)
Zero == [f \in Field |-> IF f \in StringField THEN "" ELSE 0]

(* Before the first section.                                               *)
NoSection == [name |-> "", index |-> 0]

Init ==
    /\ \E x \in Input : ini = x[1] /\ files = x[2]
    /\ pos = 0 /\ section = NoSection /\ prev_name = None /\ config = None
    /\ in_interface = [x \in Port |-> [id |-> 0, out_port |-> << >>]]
    /\ in_interface_cnt = 0 /\ used_ports = {} /\ out_interface = [p \in Port |-> Zero]
    /\ port = 0 /\ anon = EmptyLists /\ no_anon = EmptyLists /\ phase = "ini"

-----------------------------------------------------------------------------
(* parse_ini.                                                              *)
Atoi(value) == IF value \in Int THEN value ELSE 0

Keep == UNCHANGED <<config, ports, out_interface, phase>>
Die  == phase' = "dead" /\ UNCHANGED <<config, ports, out_interface>>

General(name, value) ==
    /\ IF name = "num_config" THEN config' = [g \in 0 .. Atoi(value) - 1 |-> Unset]
       ELSE UNCHANGED config
    /\ UNCHANGED <<ports, out_interface, phase>>

(* Slip: the first line finds the empty entry 0.                           *)
FoundAtOnce(p) == {x \in Port : x <= in_interface_cnt /\ in_interface[x].id = p}

(* Slip: only the newest entry is compared.                                *)
FoundNewest(p) == {x \in Port : x + 1 = in_interface_cnt /\ in_interface[x].id = p}

(* The entry of input port p: the search looks at one entry too many, an   *)
(* empty one with the id 0.                                                *)
Found(p) == {x \in Port : x <= in_interface_cnt /\ in_interface[x].id = p /\ in_interface_cnt # 0}

(* Where the input port p is, or will be.                                  *)
Place(p) == IF Found(p) = {} THEN in_interface_cnt ELSE CHOOSE x \in Found(p) : \A y \in Found(p) : x <= y

(* name = value under [interfaces_mappings].                               *)
Mapping(p, q) ==
    /\ used_ports' = used_ports \cup {p, q}
    /\ in_interface' = [in_interface EXCEPT ![Place(p)] = [id |-> p, out_port |-> Append(@.out_port, q)]]
    /\ in_interface_cnt' = IF Found(p) = {} THEN in_interface_cnt + 1 ELSE in_interface_cnt
    /\ UNCHANGED <<config, out_interface, phase>>

(* Slip: no check of the pair.                                             *)
DeltaUnchecked(s, value) == {Atoi(value)}

(* A delta is refused, and the old one kept, if there is an alpha and the  *)
(* delta is not positive.                                                  *)
Delta(s, value) ==
    (IF s.alpha # 0 THEN {IF Atoi(value) > 0 THEN Atoi(value) ELSE s.delta} ELSE {})
    \cup (IF s.alpha \in {0, Junk} THEN {Atoi(value)} ELSE {})

(* The settings s after a line of their group.                             *)
Assigned(s, name, value) ==
    CASE name \in IntField    -> {[s EXCEPT ![name] = Atoi(value)]}
      [] name \in StringField -> {[s EXCEPT ![name] = value]}
      [] name = "delta"       -> {[s EXCEPT !.delta = d] : d \in Delta(s, value)}
      [] OTHER                -> {s}

Group(g, name, value) ==
    /\ config # None /\ g \in DOMAIN config
    /\ \E s \in Assigned(config[g], name, value) : config' = [config EXCEPT ![g] = s]
    /\ UNCHANGED <<ports, out_interface, phase>>

(* Slip: a port's settings are copied once.                                *)
InterfaceConfOnce(p, value) ==
    /\ config # None /\ Atoi(value) \in DOMAIN config
    /\ out_interface' = [out_interface EXCEPT ![p] = IF @ = Zero THEN config[Atoi(value)] ELSE @]
    /\ UNCHANGED <<config, ports, phase>>

(* The settings are copied as they are at this line.                       *)
InterfaceConf(p, value) ==
    /\ config # None /\ Atoi(value) \in DOMAIN config
    /\ out_interface' = [out_interface EXCEPT ![p] = config[Atoi(value)]]
    /\ UNCHANGED <<config, ports, phase>>

(* parse_ini. An access to config before malloc, beyond its end or after   *)
(* free, a second free, an entry beyond the end of out_port, and a port    *)
(* DPDK does not know (65535, far outside used_ports) are taken to kill    *)
(* the process.                                                            *)
ParseIni(name, value) ==
    CASE section.name = "general" -> General(name, value)
      [] section.name = "interfaces_mappings" ->
            IF /\ {name, value} \subseteq Port
               /\ Len(in_interface[Place(name)].out_port) < MAX_INTERFACES
            THEN Mapping(name, value) ELSE Die
      [] section.name = "group_" ->
            IF config # None /\ section.index \in DOMAIN config
            THEN Group(section.index, name, value) ELSE Die
      [] section.name = "interface_conf" ->
            IF name \notin Port THEN Keep
            ELSE IF config # None /\ Atoi(value) \in DOMAIN config THEN InterfaceConf(name, value)
            ELSE Die
      [] section.name = "end" ->
            IF config # None
            THEN config' = None /\ UNCHANGED <<ports, out_interface, phase>> ELSE Die
      [] OTHER -> Keep

-----------------------------------------------------------------------------
(* ini_parse_stream: an indented line continues the entry before it.       *)
Continues(l) == l.indented /\ prev_name # None

NextLine == ini[pos + 1]
Reading  == phase = "ini" /\ pos < Len(ini) /\ pos' = pos + 1

ReadContinuation ==
    /\ Reading /\ Continues(NextLine)
    /\ ParseIni(prev_name, Text)
    /\ UNCHANGED <<ini, files, section, prev_name, port, lists>>

ReadSection ==
    /\ Reading /\ ~ Continues(NextLine) /\ NextLine.kind = "section"
    /\ section' = NextLine.section /\ prev_name' = None
    /\ Keep
    /\ UNCHANGED <<ini, files, port, lists>>

ReadEntry ==
    /\ Reading /\ ~ Continues(NextLine) /\ NextLine.kind = "entry"
    /\ prev_name' = NextLine.name
    /\ ParseIni(NextLine.name, NextLine.value)
    /\ UNCHANGED <<ini, files, section, port, lists>>

EndOfIni ==
    /\ phase = "ini" /\ pos = Len(ini)
    /\ phase' = "init"
    /\ UNCHANGED <<ini, files, pos, section, prev_name, config, ports, out_interface, port, lists>>

(* process_packet_init.                                                    *)
InitPort ==
    /\ phase = "init" /\ port < MAX_INTERFACES
    /\ LET s == out_interface[port]
       IN  \/ /\ s.anon_ip # 1
              /\ UNCHANGED <<lists, phase>>
           \/ /\ s.anon_ip \in {1, Junk}
              /\ {s.anon_subnet_file, s.no_anon_subnet_file} \subseteq DOMAIN files
              /\ anon' = ParseNetFile(files[s.anon_subnet_file], anon)
              /\ no_anon' = ParseNetFile(files[s.no_anon_subnet_file], no_anon)
              /\ UNCHANGED phase
           \/ /\ s.anon_ip \in {1, Junk}   \* fgetc of fopen's NULL
              /\ ~ {s.anon_subnet_file, s.no_anon_subnet_file} \subseteq DOMAIN files
              /\ phase' = "dead" /\ UNCHANGED lists
    /\ port' = port + 1
    /\ UNCHANGED <<ini, files, pos, section, prev_name, config, ports, out_interface>>

StartLoop ==
    /\ phase = "init" /\ port = MAX_INTERFACES
    /\ phase' = "loop"
    /\ UNCHANGED <<ini, files, pos, section, prev_name, config, ports, out_interface, port, lists>>

Next ==
    ReadContinuation \/ ReadSection \/ ReadEntry \/ EndOfIni \/ InitPort \/ StartLoop

Spec == Init /\ [][Next]_vars

-----------------------------------------------------------------------------
(* Properties. What the INI file says, read at once from its text: the     *)
(* entries of a section are those after its line and before the next one.  *)
(* An indented line continues the entry before it, if the section has one; *)
(* the value of an entry that is continued is the text of that line.       *)

Continuing(x) ==
    ini[x].indented /\ \E y \in 1 .. x - 1 : ini[y].kind = "entry" /\ \A z \in y + 1 .. x - 1 : ini[z].indented

IsEntry(x)   == ini[x].kind = "entry" /\ ~ Continuing(x)
IsSection(x) == ini[x].kind = "section" /\ ~ Continuing(x)

Within(x, name, index) ==
    \E y \in 1 .. x : /\ IsSection(y) /\ ini[y].section = [name |-> name, index |-> index]
                      /\ \A z \in y + 1 .. x : ~ IsSection(z)

Entries(name, index) == {x \in DOMAIN ini : IsEntry(x) /\ Within(x, name, index)}

Value(x) == IF x + 1 \in DOMAIN ini /\ ini[x + 1].indented THEN Text ELSE ini[x].value

LastOf(S) == CHOOSE x \in S : \A y \in S : y <= x
Read      == phase \in {"init", "loop"}

ConfsOf(p) == {x \in Entries("interface_conf", 0) : ini[x].name = p}

(* The entries before line c that set field f of group g: those after the  *)
(* memory for the groups was allocated.                                    *)
Alloc(c)       == LastOf({0} \cup {x \in Entries("general", 0) : x < c /\ ini[x].name = "num_config"})
SetBy(g, c, f) == {x \in Entries("group_", g) : Alloc(c) < x /\ x < c /\ ini[x].name = f}

(* Those in the settings port p gets at its last line in [interface_conf]. *)
Setting(p, f) == LET c == LastOf(ConfsOf(p)) IN SetBy(Atoi(Value(c)), c, f)

Polled     == 0 .. in_interface_cnt - 1
Mappings   == Entries("interfaces_mappings", 0)
LinesOf(p) == {x \in Mappings : ini[x].name = p}

(* outs are the values of the lines S, one each and in the lines' order.   *)
ValuesOf(S, outs) ==
    /\ DOMAIN outs = 1 .. Cardinality(S)
    /\ \A x \in S : outs[Cardinality({y \in S : y <= x})] = Value(x)

(* Port 0 is the first input or none.                                      *)
PortZeroFirst ==
    \A x \in Mappings : ini[x].name = 0 => \E y \in Mappings : ini[y].name = 0 /\ \A z \in Mappings : y <= z

(* main_loop polls the input ports of the mappings, each once, and sends   *)
(* what it receives to the output ports of its mappings, in their order.   *)
MappingsServed ==
    Read /\ PortZeroFirst =>
        /\ {in_interface[x].id : x \in Polled} = {ini[x].name : x \in Mappings}
        /\ \A x \in Polled : ValuesOf(LinesOf(in_interface[x].id), in_interface[x].out_port)

(* "The configuration is extremely flexible, in fact any type of           *)
(* configuration is allowed" (README.md): so for any port, port 0 too.     *)
AnyMappingServed == Read => {in_interface[x].id : x \in Polled} = {ini[x].name : x \in Mappings}

(* What main_loop (Forwarder's assumption) relies on, port 0 or not: no    *)
(* port is polled twice, each input has an output, since its last output   *)
(* takes the received buffers, and all these ports are initialised.        *)
LoopIsReady ==
    Read =>
        /\ \A x, y \in Polled : in_interface[x].id = in_interface[y].id => x = y
        /\ \A x \in Polled :
             LET outs == in_interface[x].out_port
             IN  /\ outs # << >> /\ in_interface[x].id \in used_ports
                 /\ \A n \in DOMAIN outs : outs[n] \in used_ports

(* No line of the file is indented.                                        *)
Flush == \A x \in DOMAIN ini : ~ ini[x].indented

(* In a file whose lines are all flush left, a port's settings are what    *)
(* its group said before the port's line under [interface_conf], the last  *)
(* word on each; a delta that is not positive may have been refused. What  *)
(* the group did not say is not defined.                                   *)
SettingsAsRead ==
    Read /\ Flush =>
        \A p \in Port : ConfsOf(p) # {} =>
            \A f \in Field :
                LET said == Setting(p, f)
                    v    == Value(LastOf(said))
                IN  /\ said = {} => out_interface[p][f] = Junk
                    /\ said # {} /\ f \in StringField => out_interface[p][f] = v
                    /\ said # {} /\ f \notin StringField /\ (f = "delta" => Atoi(v) > 0) =>
                           out_interface[p][f] = Atoi(v)

(* As README.md writes them (its sample indents external_ip, dns, tls and  *)
(* http under engine): every entry in a group's section, indented or not,  *)
(* is a setting of its own. It holds for a port whose last line under      *)
(* [interface_conf] is behind it, unless a later entry sets the same.      *)
SettingsAsWritten ==
    Read =>
        \A p \in Port : ConfsOf(p) # {} =>
            LET c == LastOf(ConfsOf(p))
                Said == {e \in DOMAIN ini : e < c /\ ini[e].kind = "entry"
                                                 /\ Within(e, "group_", Atoi(Value(c)))}
            IN  \A f \in IntField : \A x \in {e \in Said : ini[e].name = f} :
                    \/ out_interface[p][f] = Atoi(ini[x].value)
                    \/ \E y \in Said : y > x /\ ini[y].name = f

(* "Wrong ALPHA/DELTA pair configuration": provided that the alpha is      *)
(* written first, no port judges names with a delta that the file gives as *)
(* zero.                                                                   *)
PairChecked ==
    Read =>
        \A p \in Port : ConfsOf(p) # {} =>
            LET alphas == Setting(p, "alpha")
                deltas == Setting(p, "delta")
            IN  alphas # {} /\ (\A x \in alphas, y \in deltas : x < y) =>
                    out_interface[p].alpha = 0 \/ out_interface[p].delta = Junk \/ out_interface[p].delta > 0

Encrypting == {p \in Port : out_interface[p].anon_ip = 1}
SubnetFiles(p) == <<out_interface[p].anon_subnet_file, out_interface[p].no_anon_subnet_file>>

(* Interface p's files are the only ones: no interface was left without a  *)
(* word on anon_ip, and those that encrypt name the same two files.        *)
OnlyFilesOf(p) ==
    /\ \A q \in Port : out_interface[q].anon_ip # Junk
    /\ \A q \in Encrypting : SubnetFiles(q) = SubnetFiles(p)

HasZeroNet(p) == \E n \in 1 .. 2 : \E l \in Accepted(files[SubnetFiles(p)[n]]) : IsZeroNet(l)

(* The addresses taken for internal, and for exempt, are those of p's      *)
(* files.                                                                  *)
NetsOf(p) ==
    /\ ChecksAgree(files[out_interface[p].anon_subnet_file], anon)
    /\ ChecksAgree(files[out_interface[p].no_anon_subnet_file], no_anon)

(* As long as there is one pair of files, whatever is in them but a net of *)
(* the address 0, and however often it is read: the addresses that the     *)
(* program takes for internal, and for exempt, are those that the lines    *)
(* cover, up to the first that is refused.                                 *)
NetsOfOneGroup ==
    phase = "loop" =>
        \A p \in Encrypting : OnlyFilesOf(p) /\ ~ HasZeroNet(p) => NetsOf(p)

(* As README.md describes them, the subnet files are a group's: an         *)
(* interface encrypts the addresses of its own group's files. And a line   *)
(* covers what its prefix says, where ParseNetFile does not warn ("Any     *)
(* IPv4 address will be considered internal", for a length of 0).          *)
NetsOfOwnGroup ==
    phase = "loop" /\ (\A p \in Port : out_interface[p].anon_ip # Junk) =>
        \A p \in Encrypting : NetsOf(p)

(* What README.md says of the INI file and the subnet files, taken         *)
(* together: of the mappings, of the settings and of the networks.         *)
AsDocumented ==
    phase = "loop" => AnyMappingServed /\ SettingsAsWritten /\ NetsOfOwnGroup

=============================================================================
