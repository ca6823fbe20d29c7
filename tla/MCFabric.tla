------------------------------ MODULE MCFabric ------------------------------
(* A tree of two dummy switches and a dummy switch on point-to-point links, *)
(* one P4 switch of every kind between two hosts on CSMA links with every   *)
(* sort of egress port, and hosts with every placement of a custom header   *)
(* on point-to-point links to a P4 switch.                                  *)
EXTENDS Fabric, TLC

CONSTANTS h1, h2, h3, s1, s2

Ip(protocol) == [kind |-> "ip", value |-> protocol]
Transport(k, port) == [kind |-> k, value |-> port]
InRange == <<Ip(UDP), Transport("udp", 10000), Data>>
OutOfRange == <<Ip(TCP), Transport("tcp", 9999), Data>>
Ping == <<Ip(1), Transport("icmp", 0), Data>>
Arp == <<Transport("arp", 0), Data>>

Plain == [custom |-> FALSE, layer |-> 0, op |-> "ADD_BEFORE", fields |-> <<>>, min |-> 1, max |-> 0]
Tunnel(l, o, next) ==
  [custom |-> TRUE, layer |-> l, op |-> o, min |-> 10000, max |-> 12000,
   fields |-> <<[width |-> 13, value |-> next], [width |-> 5, value |-> 9]>>]
Tunnels == {Tunnel(l, o, IPv4) : l \in 2 .. 5, o \in {"ADD_BEFORE", "REPLACE", "ADD_AFTER"}}
             \cup {Tunnel(3, "ADD_AFTER", UDP), Tunnel(4, "ADD_AFTER", UDP)}

(* h1 and h2 at ports 0 and 1 of s1. *)
Pair(kind, medium, type, egress, dev, packets, dsts) ==
  [hosts |-> {h1, h2}, kind |-> s1 :> kind, added |-> s1 :> <<<<s1, 0>>, <<s1, 1>>>>,
   links |-> << <<<<h1, 0>>, <<s1, 0>>>>, <<<<s1, 1>>, <<h2, 0>>>> >>,
   medium |-> medium, channelType |-> type, program |-> s1 :> (0 :> egress @@ 1 :> {1}),
   device |-> (h1 :> dev @@ h2 :> dev), packets |-> packets, dsts |-> dsts,
   managed |-> {<<s1, 1>>}, queued |-> {}]

Tree ==
  [hosts |-> {h1, h2, h3}, kind |-> (s1 :> "dummy" @@ s2 :> "dummy"),
   added |-> (s1 :> <<<<s1, 2>>, <<s1, 0>>, <<s1, 1>>>> @@ s2 :> <<<<s2, 0>>, <<s2, 1>>>>),
   links |-> << <<<<h1, 0>>, <<s1, 0>>>>, <<<<h2, 0>>, <<s1, 1>>>>,
                <<<<s1, 2>>, <<s2, 0>>>>, <<<<s2, 1>>, <<h3, 0>>>> >>,
   medium |-> "csma", channelType |-> 0, program |-> [n \in {s1, s2} |-> [i \in {} |-> {}]],
   device |-> [n \in {h1, h2, h3} |-> Plain],
   packets |-> {Arp}, dsts |-> {Broadcast, <<h3, 0>>, <<s2, 0>>},
   managed |-> {<<s1, 2>>, <<s1, 0>>}, queued |-> {<<s2, 0>>, <<s2, 2>>}]

MCNetworks ==
  {Tree}
    \cup {Pair("dummy", "p2p", 1, {}, Plain, {InRange}, {Broadcast})}
    \cup {Pair("pipeline", "csma", t, {port}, Plain, {InRange, Arp}, {Broadcast, <<s1, 0>>}) :
            t \in 0 .. 2, port \in {1, 2, DROP_PORT}}
    \cup {Pair("queued", "csma", 0, ports, Plain, {InRange}, {Broadcast}) :
            ports \in {{}, {0, 1}}}
    \cup {Pair("pna", m, 1, {1}, Plain, {InRange}, {Broadcast}) : m \in {"csma", "p2p"}}
    \cup {Pair("queued", "p2p", 1, {0, 1}, dev, {InRange, OutOfRange}, {Broadcast}) :
            dev \in {d \in Tunnels \cup {Plain} : Restores(d)}}
    \cup {Pair("queued", "p2p", 1, {1}, dev, {InRange}, {Broadcast}) : dev \in Tunnels}
    \cup {Pair("pipeline", "p2p", 1, {1}, Tunnel(3, "ADD_BEFORE", IPv4), {Ping, Arp}, {Broadcast})}

(* The program sends every packet back where it came from. *)
ReflectingNetworks ==
  {Pair("pipeline", "csma", 0, {0}, Plain, {InRange}, {Broadcast})}

(* The nodes a flood from an end reaches: none of the networks has a cycle. *)
RECURSIVE Beyond(_, _)
Beyond(n, e) ==
  LET b == CHOOSE b \in EndsOf(n) \ {e} :
             \E i \in DOMAIN n.links : {b, e} = ToSet(n.links[i])
  IN {b[1]} \cup UNION {Beyond(n, f) : f \in {f \in EndsOf(n) \ {b} : f[1] = b[1]}}

ASSUME \A n \in MCNetworks : Divides(n, [e \in EndsOf(n) |-> Beyond(n, e)])

(* Where the property says so, what the devices do to headers is undone.   *)
ASSUME \A n \in MCNetworks : n.medium = "p2p" /\ Faithful(n) => Matching(n)
=============================================================================
