-------------------------- MODULE ExamplePrograms --------------------------
(***************************************************************************)
(* The programs of examples/ that read a topology file: which file, which  *)
(* flow tables their switches load, and which hosts talk.                  *)
(*                                                                         *)
(* A flow is the host whose application sends, the host the receiving      *)
(* application is installed on, the host whose address the sender is       *)
(* given, and the table that forwards its packets.  A table gives the      *)
(* ports of a switch for a destination; ports are numbered from 1 here.    *)
(***************************************************************************)
EXTENDS Topology, TLC

File(switches, hosts, declared, lines, newline) ==
  [switches |-> switches, hosts |-> hosts, declared |-> declared, lines |-> lines, newline |-> newline]
NetworkFunctions(n) == [i \in 1 .. n |-> NetworkFunction(i - 1)]

Flow(client, server, table) == [client |-> client, server |-> server, to |-> server, table |-> table]

(* A program that loads stored tables: arp is the table for ARP packets,   *)
(* "none" when the devices need no ARP; route is the list of ports of      *)
(* source routing; foreign tells that the tables name none of the tables   *)
(* of the P4 program.                                                      *)
Stored(file, tables, arp, flows) ==
  [file |-> file, podNum |-> 0, starts |-> <<>>, buildType |-> "stored", tables |-> tables,
   arp |-> arp, flows |-> flows, route |-> <<>>, foreign |-> FALSE]

(* A stored table, as its rows: switch by switch, the ports, numbered from *)
(* 0, for host by host.                                                    *)
Rows(rows) ==
  [s \in 0 .. Len(rows) - 1 |-> [h \in 0 .. Len(rows[s + 1]) - 1 |-> {p + 1 : p \in rows[s + 1][h + 1]}]]

(* The rows of a table with one port for every destination. *)
OnePort(rows) == Rows([s \in DOMAIN rows |-> [h \in DOMAIN rows[s] |-> {rows[s][h]}]])

-----------------------------------------------------------------------------
(* p4src/p4_basic: two leaf switches with two hosts each, two spines.      *)

BasicFile ==
  File(4, 4, 8,
       <<Link(4, "h", 0, "s"), Link(5, "h", 0, "s"), Link(6, "h", 1, "s"), Link(7, "h", 1, "s"),
         Link(0, "s", 2, "s"), Link(0, "s", 3, "s"), Link(1, "s", 2, "s"), Link(1, "s", 3, "s")>>
         \o NetworkFunctions(4), FALSE)

BasicTable == OnePort(<<<<0, 1, 2, 3>>, <<2, 3, 0, 1>>, <<0, 0, 1, 1>>, <<0, 0, 1, 1>>>>)
BasicTables == ("arp" :> BasicTable) @@ ("ipv4" :> BasicTable)

Basic == Stored(BasicFile, BasicTables, "arp", {Flow(0, 3, "ipv4")})

BasicController == Basic

(* The switches run action-profile.json with the tables of p4_basic: no    *)
(* command is accepted, the egress port stays 0.                           *)
ActionProfile ==
  LET Untouched == [s \in 0 .. 3 |-> [h \in 0 .. 3 |-> {1}]]
  IN [Stored(BasicFile, ("arp" :> Untouched) @@ ("ipv4" :> Untouched), "arp", {Flow(0, 3, "ipv4")})
        EXCEPT !.foreign = TRUE]

(* The second and the third flow are sent to the address of the first one's *)
(* server, while their sinks are installed on host 0.                      *)
Firewall ==
  [Basic EXCEPT !.flows = {Flow(0, 3, "ipv4"), [Flow(3, 0, "ipv4") EXCEPT !.to = 3],
                           [Flow(1, 0, "ipv4") EXCEPT !.to = 3]}]

-----------------------------------------------------------------------------
(* Three switches in a triangle with a host each.                          *)

Triangle(closing) ==
  File(3, 3, 6,
       <<Link(3, "h", 0, "s"), Link(4, "h", 1, "s"), Link(5, "h", 2, "s"),
         Link(0, "s", 1, "s"), Link(0, "s", 2, "s"), closing>> \o NetworkFunctions(3), FALSE)

(* Every packet of a host carries the tunnel header, whose table is keyed  *)
(* on the tunnel and not on the destination.                               *)
BasicTunnel ==
  Stored(Triangle(Link(1, "s", 2, "s")),
         "tunnel" :> Rows(<<<<{1}, {1}, {1}>>, <<{0}, {0}, {0}>>, <<{}, {}, {}>>>>),
         "none", {Flow(0, 1, "tunnel")})

(* Client and server are the same host. *)
LinkMonitoring == [BasicTunnel EXCEPT !.flows = {Flow(1, 1, "tunnel")}]

(* The list of ports the sender writes into the header: every switch takes *)
(* the first.                                                              *)
Route(pathPorts) == [i \in DOMAIN pathPorts |-> pathPorts[i] + 1]

(* The frames of source routing are broadcast and need no ARP. *)
SourceRouting ==
  [Stored([Triangle(Link(2, "s", 1, "s")) EXCEPT
             !.lines[1] = Link(0, "s", 3, "h"), !.lines[2] = Link(1, "s", 4, "h"), !.lines[3] = Link(2, "s", 5, "h"),
             !.newline = TRUE],
          "route" :> Rows(<<<<{}, {}, {}>>, <<{}, {}, {}>>, <<{}, {}, {}>>>>), "none", {Flow(0, 2, "route")})
     EXCEPT !.route = Route(<<1, 2, 0>>)]

-----------------------------------------------------------------------------
(* One switch with two hosts: p4-queue-test without ARP, the forwarding    *)
(* examples of v1model and of PSA with.                                    *)

PairFile == File(1, 2, 2, <<Link(1, "h", 0, "s"), Link(2, "h", 0, "s"), NetworkFunction(0)>>, FALSE)
PairTable == OnePort(<<<<0, 1>>>>)

QueueTest == Stored(PairFile, "ipv4" :> PairTable, "none", {Flow(0, 1, "ipv4")})

V1modelForwarding ==
  Stored(PairFile, ("arp" :> PairTable) @@ ("ipv4" :> PairTable), "arp", {Flow(0, 1, "ipv4")})

PsaForwarding == V1modelForwarding

(* p4src/load_balance: two leaves with three hosts each, two spines, two   *)
(* more switches; the leaves choose a spine by a hash of the flow.         *)
SpineLeaf ==
  LET ToLeaf0 == <<{0}, {0}, {0}, {3}, {3}, {3}>>
      None == <<{}, {}, {}, {}, {}, {}>>
      LoadBalance ==
        Rows(<<<<{0}, {1}, {2}, {3, 4}, {3, 4}, {3, 4}>>, <<{3, 4}, {3, 4}, {3, 4}, {0}, {1}, {2}>>,
               ToLeaf0, ToLeaf0, None, None>>)
  IN Stored(File(6, 6, 14,
                 <<Link(6, "h", 0, "s"), Link(7, "h", 0, "s"), Link(8, "h", 0, "s"),
                   Link(9, "h", 1, "s"), Link(10, "h", 1, "s"), Link(11, "h", 1, "s"),
                   Link(0, "s", 2, "s"), Link(2, "s", 4, "s"), Link(2, "s", 5, "s"), Link(2, "s", 1, "s"),
                   Link(0, "s", 3, "s"), Link(4, "s", 3, "s"), Link(5, "s", 3, "s"), Link(1, "s", 3, "s")>>
                   \o NetworkFunctions(6), FALSE),
            "ipv4" :> LoadBalance, "none", {Flow(0, 3, "ipv4")})

Examples ==
  {Basic, BasicController, ActionProfile, Firewall, BasicTunnel, LinkMonitoring, SourceRouting,
   QueueTest, V1modelForwarding, PsaForwarding, SpineLeaf}
=============================================================================
