----------------------------- MODULE FlowTables -----------------------------
(***************************************************************************)
(* From a topology file to packets that arrive: a program reads the file,  *)
(* installs the links, has BuildFlowtableHelper                            *)
(* (helper/build-flowtable-helper.cc) fill the flow tables of the switches *)
(* or takes stored ones, installs the switches, and its hosts talk.        *)
(*                                                                         *)
(* A table gives, for a destination, the set of ports a lookup may yield:  *)
(* none (the default action is taken), one, or several: those a hash       *)
(* chooses from, or those the fat-tree builder draws one of, which the     *)
(* first packet shows.  A flow begins with an ARP request, unless the      *)
(* devices need none, which is forwarded by the address it asks for; then  *)
(* come the reply and the data.                                            *)
(***************************************************************************)
EXTENDS Topology, Functions, FiniteSets

CONSTANTS
  Programs,  \* see ExamplePrograms for the fields of a program
  MaxFlows   \* bound: flows begun

SwitchesOf(f) == 0 .. f.switches - 1
HostsOf(f) == 0 .. f.hosts - 1

(* A program has a topology file, tables for all of its switches and       *)
(* hosts, or those that a builder will write, and hosts that talk; what it *)
(* stores names ports that its switches have.                              *)
IsProgram(p) ==
  LET f == p.file
      installed == Install(f, ReadLinks(f)).ports
  IN /\ IsFile(f)
     /\ p.buildType \in {"default", "fattree", "silkroad", "stored"}
     /\ p.podNum \in Nat
     /\ p.tables \in [DOMAIN p.tables -> [SwitchesOf(f) -> [HostsOf(f) -> SUBSET Nat]]]
     /\ p.buildType # "stored" => DOMAIN p.tables = {"forward"} /\ p.route = <<>>
     /\ p.arp \in DOMAIN p.tables \cup {"none"}
     /\ \A flow \in p.flows :
          flow.client \in HostsOf(f) /\ flow.to \in HostsOf(f) /\ flow.table \in DOMAIN p.tables
     /\ p.route \in Seq(ToSet(p.route))
     /\ ~BadIndex(f) => \A s \in SwitchesOf(f) :
          /\ \A c \in DOMAIN p.tables, h \in HostsOf(f) : p.tables[c][s][h] \subseteq DOMAIN installed[s]
          /\ ToSet(p.route) \subseteq DOMAIN installed[s]

(* The fat-tree builder gets the topology that the helper has generated,   *)
(* with the starts that its core switches drew.  An odd number of pods     *)
(* above 1 is not one: FattreeTopoHelper::Build then writes past the end   *)
(* of its vector of switches.                                              *)
IsFattree(p) ==
  /\ p.podNum = 1 \/ p.podNum % 2 = 0
  /\ p.starts \in [0 .. CoreNum(p.podNum) - 1 -> 0 .. Half(p.podNum) - 1]
  /\ p.file = FattreeFile(p.podNum, p.starts)

ASSUME FlowTablesAssumption ==
  /\ \A p \in Programs : IsProgram(p) /\ (p.buildType = "fattree" => IsFattree(p))
  /\ MaxFlows \in Nat

VARIABLES
  program,  \* the program that runs
  phase,    \* "file", "links", "ports", "built", "running"; or "refused", "crashed"
  links,    \* the links P4TopologyReader has read
  net,      \* the ports of switches and hosts: what Install returns
  table,    \* the flow tables on disk
  packet,   \* the packet on its way: [flow, kind, dst, at, path]
  arrived,  \* history: the packets that have left the network, and where
  begun     \* the flows that have begun

vars == <<program, phase, links, net, table, packet, arrived, begun>>

Dropped == -1
NoPacket == [flow |-> <<>>, kind |-> "none", dst |-> Dropped, at |-> Dropped, path |-> <<>>]

file == program.file

Init ==
  /\ program \in Programs
  /\ phase = "file"
  /\ links = <<>>
  /\ net = Install(program.file, <<>>)
  /\ table = program.tables
  /\ packet = NoPacket
  /\ arrived = {}
  /\ begun = {}

-----------------------------------------------------------------------------
(* P4TopologyReaderHelper::GetTopologyReader returns null when Read fails, *)
(* and the program uses the pointer.                                       *)
ReadTopology ==
  /\ phase = "file"
  /\ phase' = IF BadIndex(file) \/ ~FunctionsRead(file) THEN "crashed" ELSE "links"
  /\ links' = IF BadIndex(file) THEN <<>> ELSE ReadLinks(file)
  /\ UNCHANGED <<program, net, table, packet, arrived, begun>>

(* A program refuses a topology without links and stops at a link between  *)
(* hosts; a host that no link names crashes the installation of the        *)
(* internet stack.                                                         *)
InstallLinks ==
  /\ phase = "links"
  /\ net' = Install(file, links)
  /\ phase' = IF links = <<>> THEN "refused"
              ELSE IF net'.error \/ MissingHosts(file, links) # {} THEN "crashed" ELSE "ports"
  /\ UNCHANGED <<program, links, table, packet, arrived, begun>>

-----------------------------------------------------------------------------
(* The "default" tables: a depth-first search from every host.  d holds    *)
(* the switches passed, those recorded, the pairs of hosts that have their *)
(* entries, and the entries themselves.                                    *)

(* Faulty variants: the ports of the two directions are exchanged; the     *)
(* entry for the way back is missing.                                      *)
AddEntriesCrossed(entries, src, dst, pass) ==
  [entries EXCEPT ![pass.switch] =
    @ \o <<[dst |-> src, port |-> pass.out], [dst |-> dst, port |-> pass.in]>>]

AddEntriesOneWay(entries, src, dst, pass) ==
  [entries EXCEPT ![pass.switch] = Append(@, [dst |-> dst, port |-> pass.out])]

(* AddFlowtableEntry2: one entry for each direction. *)
AddFlowtableEntry2(entries, src, dst, pass) ==
  [entries EXCEPT ![pass.switch] =
    @ \o <<[dst |-> src, port |-> pass.in], [dst |-> dst, port |-> pass.out]>>]

(* The switches passed, from the last one back. *)
AddEntriesAlong(d, path, src, dst) ==
  LET after[k \in 0 .. Len(path)] ==
        IF k = 0 THEN d.entries
        ELSE AddFlowtableEntry2(after[k - 1], src, dst, path[Len(path) + 1 - k])
  IN [d EXCEPT !.linked = @ \cup {<<src, dst>>, <<dst, src>>}, !.entries = after[Len(path)]]

Searches ==
  [passed : Seq([switch : SwitchesOf(file), in : Nat, out : Nat]),
   recorded : SUBSET SwitchesOf(file),
   linked : SUBSET (HostsOf(file) \X HostsOf(file)),
   entries : [SwitchesOf(file) -> Seq([dst : HostsOf(file), port : Nat])]]
Calls == [d : Searches, host : HostsOf(file), switch : SwitchesOf(file), in : Nat]

(* A call of Dfs looks at one port, where acc is what the ports before it  *)
(* have left, and deeper what a call one level down returns.               *)
VisitPort(deeper, call, acc, port) ==
  LET next == net.ports[call.switch][port]
      here == Append(call.d.passed, [switch |-> call.switch, in |-> call.in, out |-> port])
  IN IF \/ port = call.in
        \/ next.flag = 0 /\ <<call.host, next.node>> \in acc.linked
        \/ next.flag = 1 /\ next.node \in acc.recorded
     THEN acc
     ELSE IF next.flag = 0 THEN AddEntriesAlong(acc, here, call.host, next.node)
     ELSE deeper[[d |-> [acc EXCEPT !.passed = here, !.recorded = @ \cup {call.switch}],
                  host |-> call.host, switch |-> next.node, in |-> next.port]]

VisitPorts(deeper, call) ==
  LET after[k \in 0 .. Len(net.ports[call.switch])] ==
        IF k = 0 THEN call.d ELSE VisitPort(deeper, call, after[k - 1], k)
  IN [after[Len(net.ports[call.switch])] EXCEPT !.passed = call.d.passed]

(* The recursion ends by itself, as every call records the switch it goes  *)
(* on from; MaxDepth calls deep is never reached.                          *)
MaxDepth == 2 * file.switches + 1
Dfs ==
  LET dfs[depth \in 0 .. MaxDepth] ==
        [call \in Calls |-> IF depth = 0 THEN call.d ELSE VisitPorts(dfs[depth - 1], call)]
  IN dfs[MaxDepth]

DfsFromHostIndex(d, h) ==
  [Dfs[[d |-> [d EXCEPT !.passed = <<>>, !.recorded = {}], host |-> h,
        switch |-> net.home[h].switch, in |-> net.home[h].port]] EXCEPT !.passed = <<>>]

(* The loop over the hosts ends when every pair of them is linked, by a    *)
(* counter that each pair adds two to.                                     *)
LinkCounter(d) == Cardinality(d.linked) + Cardinality({pair \in d.linked : pair[1] = pair[2]})
DfsWhileUnlinked(d, h) ==
  IF LinkCounter(d) < file.hosts * (file.hosts - 1) THEN DfsFromHostIndex(d, h) ELSE d

DefaultEntries ==
  LET after[h \in 0 .. file.hosts] ==
        IF h = 0
        THEN [passed |-> <<>>, recorded |-> {}, linked |-> {},
              entries |-> [s \in SwitchesOf(file) |-> <<>>]]
        ELSE DfsWhileUnlinked(after[h - 1], h - 1)
  IN after[file.hosts].entries

(* Faulty variant: a port is written as the next one. *)
WrittenNextPort(entries, dst) == {entries[i].port + 1 : i \in {j \in DOMAIN entries : entries[j].dst = dst}}

(* Write: the first entry of a destination is the one that counts. *)
Written(entries, dst) ==
  LET found == {i \in DOMAIN entries : entries[i].dst = dst}
  IN IF found = {} THEN {} ELSE {entries[CHOOSE i \in found : \A j \in found : i <= j].port}

-----------------------------------------------------------------------------
(* The "fattree" tables.                                                   *)

Ports(s) == DOMAIN net.ports[s]
HostPorts(s) == {p \in Ports(s) : net.ports[s][p].flag = 0}
Edges == {EdgeIndex(program.podNum, i, j) :
            i \in 0 .. program.podNum - 1, j \in 0 .. Half(program.podNum) - 1}
Aggrs == {AggrIndex(program.podNum, i, j) :
            i \in 0 .. program.podNum - 1, j \in 0 .. Half(program.podNum) - 1}

(* The ports of an aggregation switch that lead to edge switches have the  *)
(* higher indexes behind them.                                             *)
DownPorts(s) == IF s \in Aggrs THEN {p \in Ports(s) : net.ports[s][p].node > s} ELSE HostPorts(s)
OtherPorts(s) == Ports(s) \ DownPorts(s)

ReachHosts(s) ==
  IF s \in Edges THEN {net.ports[s][p].node : p \in HostPorts(s)}
  ELSE UNION {{net.ports[e][p].node : p \in HostPorts(e)} : e \in {net.ports[s][q].node : q \in DownPorts(s)}}

(* The ports a switch reaches a host by, and, where there is none, those   *)
(* one of which is drawn.                                                  *)
FattreePorts(s, h) ==
  LET down == IF s \in Edges THEN {p \in HostPorts(s) : net.ports[s][p].node = h}
              ELSE IF s \in Aggrs
                   THEN {p \in DownPorts(s) : \E q \in HostPorts(net.ports[s][p].node) :
                           net.ports[net.ports[s][p].node][q].node = h}
              ELSE {p \in Ports(s) : net.ports[s][p].flag = 1 /\ h \in ReachHosts(net.ports[s][p].node)}
  IN IF down # {} THEN {CHOOSE p \in down : \A q \in down : p <= q}
     ELSE IF s \in Edges \cup Aggrs THEN OtherPorts(s) ELSE {}

(* rand() % 0: some switch has to draw from no ports. *)
NothingToDraw ==
  \E s \in Edges \cup Aggrs : OtherPorts(s) = {} /\ \E h \in HostsOf(file) : h \notin ReachHosts(s)

(* SetSwitchesFlowtableEntries; "silkroad" builds nothing, and a program    *)
(* with stored tables builds none.                                         *)
BuildTables ==
  /\ phase = "ports"
  /\ phase' = IF program.buildType = "fattree" /\ NothingToDraw THEN "crashed" ELSE "built"
  /\ table' =
       CASE program.buildType = "default" ->
              LET entries == DefaultEntries
              IN [table EXCEPT !["forward"] =
                    [s \in SwitchesOf(file) |-> [h \in HostsOf(file) |-> Written(entries[s], h)]]]
         [] program.buildType = "fattree" /\ ~NothingToDraw ->
              [table EXCEPT !["forward"] =
                [s \in SwitchesOf(file) |-> [h \in HostsOf(file) |-> FattreePorts(s, h)]]]
         [] OTHER -> table
  /\ UNCHANGED <<program, links, net, packet, arrived, begun>>

(* P4Helper::Install asserts that the node exists, in a build without      *)
(* assertions returns since a switch without links has no devices.         *)
InstallSwitches ==
  /\ phase = "built"
  /\ phase' \in IF MissingSwitches(file, links) = {} THEN {"running"} ELSE {"running", "crashed"}
  /\ UNCHANGED <<program, links, net, table, packet, arrived, begun>>

-----------------------------------------------------------------------------
(* Traffic.                                                                *)

Packet(flow, kind, from, to) ==
  [flow |-> flow, kind |-> kind, dst |-> to, at |-> net.home[from].switch, path |-> <<>>]

(* A host's packets to its own address do not reach the network. *)
BeginFlow(flow) ==
  /\ phase = "running" /\ packet = NoPacket
  /\ Cardinality(begun) < MaxFlows /\ flow \notin begun
  /\ begun' = begun \cup {flow}
  /\ packet' = IF flow.to = flow.client THEN NoPacket
               ELSE Packet(flow, IF program.arp = "none" THEN "data" ELSE "request", flow.client, flow.to)
  /\ UNCHANGED <<program, phase, links, net, table, arrived>>

(* What the packet is forwarded by: the next port of its route, or the     *)
(* table for its kind.                                                     *)
TableOf(p) == IF p.kind = "data" THEN p.flow.table ELSE program.arp
Found(p) ==
  IF program.route = <<>> THEN table[TableOf(p)][p.at][p.dst]
  ELSE {program.route[i] : i \in DOMAIN program.route \cap {Len(p.path) + 1}}

(* Stored tables set a default action that drops.  The default action that *)
(* Write puts into the built ones, "_drop", is none of the P4 program's:   *)
(* the command fails, a miss leaves the egress port as it is, and the      *)
(* packet takes the first port of the switch.                              *)
OutPorts(p) ==
  IF Found(p) = {} /\ program.buildType # "stored" THEN {1} ELSE Found(p)

Leave(where) ==
  /\ arrived' = arrived \cup {[flow |-> packet.flow, kind |-> packet.kind, dst |-> packet.dst, where |-> where]}
  /\ packet' = NoPacket

(* The internet stack of a host: it answers a request for its address, and *)
(* sends the data once the answer has come; other packets end here.        *)
HostReceives(h) ==
  \/ /\ packet.kind = "request" /\ h = packet.dst
     /\ packet' = Packet(packet.flow, "reply", h, packet.flow.client)
     /\ UNCHANGED arrived
  \/ /\ packet.kind = "reply" /\ h = packet.dst
     /\ packet' = Packet(packet.flow, "data", h, packet.flow.to)
     /\ UNCHANGED arrived
  \/ /\ packet.kind = "data" \/ h # packet.dst
     /\ Leave(h)

(* The default action of stored tables, or the end of a route. *)
Drop ==
  /\ packet # NoPacket /\ OutPorts(packet) = {}
  /\ Leave(Dropped)
  /\ UNCHANGED <<program, phase, links, net, table, begun>>

(* A packet that comes back to a switch is not followed any further. *)
Hop ==
  /\ packet # NoPacket /\ packet.at \notin Range(packet.path)
  /\ \E port \in OutPorts(packet) :
       LET next == net.ports[packet.at][port]
       IN /\ table' = IF program.buildType # "fattree" THEN table
                      ELSE [table EXCEPT ![TableOf(packet)][packet.at][packet.dst] = {port}]
          /\ \/ next.flag = 0 /\ HostReceives(next.node)
             \/ /\ next.flag = 1
                /\ packet' = [packet EXCEPT !.at = next.node, !.path = Append(@, packet.at)]
                /\ UNCHANGED arrived
  /\ UNCHANGED <<program, phase, links, net, begun>>

Next ==
  \/ ReadTopology
  \/ InstallLinks
  \/ BuildTables
  \/ InstallSwitches
  \/ \E flow \in program.flows : BeginFlow(flow)
  \/ Drop
  \/ Hop

Spec == Init /\ [][Next]_vars

(* A packet in a switch is forwarded. *)
FairSpec == Spec /\ WF_vars(Drop \/ Hop)

-----------------------------------------------------------------------------
(* Properties.                                                             *)

(* Every variable is of its type, and no table names a port its switch     *)
(* does not have once the links are installed.                             *)
TypeOK ==
  /\ program \in Programs
  /\ phase \in {"file", "links", "ports", "built", "running", "refused", "crashed"}
  /\ phase \in {"built", "running"} =>
       \A c \in DOMAIN table, s \in SwitchesOf(file), h \in HostsOf(file) : table[c][s][h] \subseteq Ports(s)
  /\ \A h \in HostsOf(file) : net.home[h] = NoHome \/ net.home[h].port \in Ports(net.home[h].switch)
  /\ packet = NoPacket \/ packet.at \in SwitchesOf(file)
  /\ begun \subseteq program.flows

(* The switches that links lead to from s, by as many of them as there are *)
(* switches.                                                               *)
Neighbours(s) == {net.ports[s][p].node : p \in {q \in Ports(s) : net.ports[s][q].flag = 1}}
Joined(s) ==
  LET found[k \in 0 .. file.switches] ==
        IF k = 0 THEN {s}
        ELSE LET before == found[k - 1] IN before \cup UNION {Neighbours(t) : t \in before}
  IN found[file.switches]

(* The switches' tables know the way between the hosts of a flow. *)
Connected(flow) ==
  /\ program.buildType # "silkroad" /\ ~program.foreign
  /\ net.home[flow.to].switch \in Joined(net.home[flow.client].switch)

(* The tables, built or shipped, lead every packet to its destination and  *)
(* nowhere else when links join the two, and never through a switch twice, *)
(* whichever uplinks were drawn; where no link leads, no packet reaches    *)
(* the host it is for and no data are sent, although a table miss may send *)
(* the ARP request in circles.                                             *)
RoutesReach ==
  /\ \A r \in arrived :
       IF Connected(r.flow) THEN r.where = r.dst
       ELSE r.where # r.dst /\ r.kind # "data"
  /\ packet # NoPacket /\ Connected(packet.flow) => packet.at \notin Range(packet.path)

(* The data of a flow that has begun reach the receiving application: the  *)
(* request and its answer find their ways through the tables, and then the *)
(* data do.  Excepted are the flows whose sender addresses another host    *)
(* than the one its sink is on: p4-firewall.cc:334 and :352 comment two    *)
(* such flows as "h3 -----> h0", their sinks are on host 0 and their       *)
(* senders address host 3.                                                 *)
TrafficArrives ==
  LET AtServer(flow) == \E r \in arrived : r.flow = flow /\ r.kind = "data" /\ r.where = flow.server
  IN \A flow \in UNION {p.flows : p \in Programs} :
       (flow \in begun /\ flow.to = flow.server /\ flow.to # flow.client /\ Connected(flow)) ~> AtServer(flow)

(* Two countings of ports, the reader's and that of the program which      *)
(* installs the devices, agree on what is at the two ends of every link.   *)
PortsAgree ==
  (phase \in {"ports", "built", "running"}) =>
    \A i \in DOMAIN links :
      LET l == links[i].link
          From == <<l.from, links[i].fromPort>>
          To == <<l.to, links[i].toPort>>
          Meets(a, b, bType) ==
            net.ports[a[1]][a[2]] =
              IF bType = "s" THEN ToSwitch(b[1], b[2]) ELSE ToHost(b[1] - file.switches)
      IN /\ l.fromType = "s" => Meets(From, To, l.toType)
         /\ l.toType = "s" => Meets(To, From, l.fromType)

(* Building the tables of a fat tree divides by zero exactly when the      *)
(* starts that the core switches drew leave out a residue: then some       *)
(* aggregation switch has no core switch above it.                         *)
CrashExplained ==
  LET Covered == {program.starts[c] : c \in DOMAIN program.starts} = 0 .. Half(program.podNum) - 1
  IN program.buildType = "fattree" =>
       /\ phase = "crashed" => ~Covered
       /\ phase \in {"built", "running"} => Covered
=============================================================================
