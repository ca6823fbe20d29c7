------------------------------- MODULE Fabric -------------------------------
(***************************************************************************)
(* Hosts and switches joined by links: how a P4SwitchNetDevice             *)
(* (model/p4-switch-net-device.cc) takes packets from its ports, hands     *)
(* them to its core and sends what the core returns, and how a             *)
(* DummySwitchNetDevice (model/dummy-switch-net-device.cc) floods.         *)
(*                                                                         *)
(* A network is a record:                                                  *)
(*   hosts, kind     the hosts, and every switch with its kind:            *)
(*                   "dummy", or the architecture of a P4 switch:          *)
(*                   "pipeline", "queued" (v1model and PSA), "pna"         *)
(*   links           the links, in the order they are installed, each the  *)
(*                   sequence of its ends; an end is <<node, device>>, the *)
(*                   number of a net device on a node, and names its       *)
(*                   address; a host's only device is 0                    *)
(*   added           the devices a switch is given as its ports, in order  *)
(*   medium          "csma" (ns-3's device) or "p2p" (CustomP2PNetDevice)  *)
(*   channelType     ChannelType of the P4 switches: 0, 1, or unsupported  *)
(*   program         the egress ports a P4 program gives a packet, by its  *)
(*                   ingress port                                          *)
(*   device          the header settings of the hosts' p2p devices         *)
(*   packets, dsts   what the hosts send, and to which addresses           *)
(*   managed         the dummy ports <<switch, port>> a simulation takes   *)
(*                   down and up                                           *)
(*   queued          the dummy ports it gives a queue discipline           *)
(* First the links are installed, then the switches on their nodes, then   *)
(* the simulator runs.                                                     *)
(***************************************************************************)
EXTENDS CustomHeaders, FiniteSets, Functions

CONSTANTS
  Networks,     \* the networks, one of which a behaviour is about
  PnaCapacity,  \* the size of the PNA NIC's input buffer
  MaxFrames     \* bound: packets sent by hosts and by switches themselves

EndsOf(n) == UNION {ToSet(n.links[i]) : i \in DOMAIN n.links}
NodesOf(n) == n.hosts \cup DOMAIN n.kind

NoAddress == <<"none", 0>>   \* of a device before it is given one

(* A device is attached to one link, and of a host there is only one; the  *)
(* devices of a switch's node are added to it, each once; a program has    *)
(* ports for the packets that come in.                                     *)
WellFormed(n) ==
  /\ n.hosts \cap DOMAIN n.kind = {} /\ n.medium \in {"csma", "p2p"}
  /\ \A s \in DOMAIN n.kind : n.kind[s] \in {"dummy", "pipeline", "queued", "pna"}
  /\ \A i \in DOMAIN n.links :
       /\ n.links[i] = <<n.links[i][1], n.links[i][2]>>
       /\ n.links[i][1] # n.links[i][2]
       /\ \A j \in DOMAIN n.links : i # j => ToSet(n.links[i]) \cap ToSet(n.links[j]) = {}
  /\ \A e \in EndsOf(n) :
       /\ e = <<e[1], e[2]>> /\ e[1] \in NodesOf(n) /\ e # NoAddress
       /\ e[1] \in n.hosts => e[2] = 0
  /\ \A s \in DOMAIN n.kind :
       /\ n.added[s] \in Seq({e \in EndsOf(n) : e[1] = s})
       /\ \A e \in EndsOf(n) : e[1] = s => e \in ToSet(n.added[s])
       /\ \A i, j \in DOMAIN n.added[s] : i # j => n.added[s][i] # n.added[s][j]
  /\ \A port \in n.managed :
       port[1] \in DOMAIN n.kind /\ port[2] \in 0 .. Len(n.added[port[1]]) - 1
  /\ \A s \in DOMAIN n.kind : n.kind[s] # "dummy" =>
       0 \in DOMAIN n.program[s] /\ \A i \in DOMAIN n.program[s] : n.program[s][i] \subseteq Nat
  /\ \A p \in n.packets : p \in Seq(ToSet(p))

ASSUME FabricAssumption ==
  /\ \A n \in Networks : WellFormed(n)
  /\ PnaCapacity \in Nat \ {0}
  /\ MaxFrames \in Nat

(* A network without cycles: one can say of every end which nodes lie      *)
(* beyond its link, so that its own node is not among them, those beyond   *)
(* the other ends of the node behind the link are, and no node lies        *)
(* beyond two ends of a node.                                              *)
Divides(n, beyond) ==
  /\ \A i \in DOMAIN n.links : \A a, b \in ToSet(n.links[i]) : a # b =>
       /\ b[1] \in beyond[a] /\ a[1] \notin beyond[a]
       /\ \A f \in EndsOf(n) : f # b /\ f[1] = b[1] => beyond[f] \subseteq beyond[a]
  /\ \A f, g \in EndsOf(n) : f # g /\ f[1] = g[1] => beyond[f] \cap beyond[g] = {}
Forest(n) == \E beyond \in [EndsOf(n) -> SUBSET NodesOf(n)] : Divides(n, beyond)

VARIABLES
  net,      \* the network
  peer,     \* the end at the other side of every installed link's ends
  device,   \* the installed switches: their ports and address
  managers, \* the dummy ports with an m_egressTm
  down,     \* the dummy ports whose m_isUp is false
  wire,     \* per end, the frames on their way to it
  buffer,   \* per switch, the packets its core holds
  got,      \* per node, the packets its own protocols received
  sent,     \* history: the packets sent
  lossy,    \* history: some port was down
  status    \* of the simulation: "installing", "running", "crashed", "hung"

setup == <<net, peer, device, managers>>
vars == <<setup, down, wire, buffer, got, sent, lossy, status>>

Broadcast == <<"broadcast", 0>>
DROP_PORT == 511

Switches == DOMAIN net.kind
Nodes == NodesOf(net)
Ends == EndsOf(net)
PortsOf(n) == 0 .. Len(device[n].ports) - 1
Own(n) == IF n \in net.hosts THEN <<n, 0>> ELSE device[n].address

Init ==
  /\ net \in Networks
  /\ peer = <<>>
  /\ device = <<>>
  /\ managers = {}
  /\ down = {}
  /\ wire = [e \in Ends |-> <<>>]
  /\ buffer = [n \in Switches |-> <<>>]
  /\ got = [n \in Nodes |-> <<>>]
  /\ sent = <<>>
  /\ lossy = FALSE
  /\ status = "installing"

-----------------------------------------------------------------------------
(* Installation.                                                           *)

(* A channel is the sequence of the devices attached to it; with the       *)
(* second one it knows where each of them sends to.                        *)
Attach(channel, e) == Append(channel, e)
Destinations(channel) ==
  [e \in IF Len(channel) = 2 THEN ToSet(channel) ELSE {} |->
     IF e = channel[1] THEN channel[2] ELSE channel[1]]

(* A function of more arguments. *)
Extended(f, g) ==
  [x \in DOMAIN f \cup DOMAIN g |-> IF x \in DOMAIN f THEN f[x] ELSE g[x]]

InstallLink ==
  /\ status = "installing"
  /\ \E i \in DOMAIN net.links :
       /\ ToSet(net.links[i]) \cap DOMAIN peer = {}
       /\ \A j \in 1 .. i - 1 : ToSet(net.links[j]) \subseteq DOMAIN peer
       /\ peer' = Extended(peer, Destinations(Attach(Attach(<<>>, net.links[i][1]), net.links[i][2])))
  /\ UNCHANGED <<net, device, managers, down, wire, buffer, got, sent, lossy, status>>

NewDevice == [ports |-> <<>>, address |-> NoAddress]

(* Both kinds of switch adopt the address of the first device added. *)
AddPort(dev, e) ==
  [ports |-> Append(dev.ports, e),
   address |-> IF dev.address = NoAddress THEN e ELSE dev.address]
AddBridgePort(dev, e) == AddPort(dev, e)

(* The devices of a container are added one after the other. *)
AddAll(Add(_, _), devices) ==
  LET after[k \in 0 .. Len(devices)] ==
        IF k = 0 THEN NewDevice ELSE Add(after[k - 1], devices[k])
  IN after[Len(devices)]

Installable(n) ==
  /\ status = "installing" /\ DOMAIN peer = Ends
  /\ n \in Switches \ DOMAIN device

(* DummySwitchHelper. *)
InstallDummy(n) ==
  /\ Installable(n) /\ net.kind[n] = "dummy"
  /\ device' = Extended(device, [m \in {n} |-> AddAll(AddPort, net.added[n])])
  /\ UNCHANGED <<net, peer, managers, down, wire, buffer, got, sent, lossy, status>>

(* P4Helper, which makes no device for an empty container. *)
InstallP4(n) ==
  /\ Installable(n) /\ net.kind[n] # "dummy" /\ net.added[n] # <<>>
  /\ device' = Extended(device, [m \in {n} |-> AddAll(AddBridgePort, net.added[n])])
  /\ UNCHANGED <<net, peer, managers, down, wire, buffer, got, sent, lossy, status>>

(* A port that does not exist is refused. *)
SetPortTrafficManager(n, portId) ==
  /\ status = "installing" /\ n \in DOMAIN device /\ <<n, portId>> \in net.queued
  /\ portId \in PortsOf(n)
  /\ managers' = managers \cup {<<n, portId>>}
  /\ UNCHANGED <<net, peer, device, down, wire, buffer, got, sent, lossy, status>>

(* Simulator::Run: the devices are initialised, P4 switches make a core.   *)
Run ==
  /\ status = "installing" /\ DOMAIN peer = Ends /\ DOMAIN device = Switches
  /\ status' = "running"
  /\ UNCHANGED <<setup, down, wire, buffer, got, sent, lossy>>

-----------------------------------------------------------------------------
(* Links.                                                                  *)

Frame(id, dst, packet) == [id |-> id, dst |-> dst, packet |-> packet]

(* A copy of the frame leaves through each of the devices given. *)
Transmit(w, devices, frame) ==
  [e \in Ends |-> IF peer[e] \in devices THEN Append(w[e], frame) ELSE w[e]]

(* The net devices of a switch's ports. *)
Devices(n, ports) == {device[n].ports[i + 1] : i \in ports}

EtherType(packet) == IF Head(packet).kind = "arp" THEN ARP ELSE IPv4

(* What a device passes up: its outcomes, and the destination it reports,  *)
(* which for a point-to-point device is itself.                            *)
Passed(e, frame) ==
  IF net.medium = "p2p" /\ e[1] \in net.hosts THEN ProcessHeader(net.device[e[1]], frame.packet)
  ELSE ProcessHeader([custom |-> FALSE], frame.packet)
Destination(e, frame) == IF net.medium = "csma" THEN frame.dst ELSE e

Record(g, n, frame, o) ==
  [g EXCEPT ![n] = Append(@, [id |-> frame.id, packet |-> o.packet, type |-> o.type])]

-----------------------------------------------------------------------------
(* Hosts.                                                                  *)

HostSend(h, packet, dst) ==
  /\ status = "running" /\ Len(sent) < MaxFrames /\ dst # Own(h)
  /\ sent' = Append(sent, [origin |-> h, dst |-> dst, packet |-> packet])
  /\ wire' = Transmit(wire, {<<h, 0>>}, Frame(Len(sent'), dst,
       IF net.medium = "csma" THEN AddEthernetHeader(packet, EtherType(packet))
       ELSE OnWire(net.device[h], packet, EtherType(packet))))
  /\ UNCHANGED <<setup, down, buffer, got, lossy, status>>

(* No protocol of the host takes type 0. *)
HostReceive(e, frame, o, w) ==
  /\ wire' = w
  /\ got' = IF Destination(e, frame) \in {e, Broadcast} /\ o.type # 0
            THEN Record(got, e[1], frame, o) ELSE got
  /\ UNCHANGED <<buffer, status>>

-----------------------------------------------------------------------------
(* The dummy switch.                                                       *)

(* Faulty variant: a device's place on its node is taken for its port. *)
GetPortIdByDevice(n, e) == e[2]

GetPortIdForDevice(n, e) == CHOOSE i \in PortsOf(n) : device[n].ports[i + 1] = e

(* Whether a packet reaches the device of a port: m_egressTm, where there  *)
(* is one, is passed by.                                                   *)
EnqueueEgress(n, port) == <<n, port>> \notin down

SendToPort(n, egressPort) ==
  egressPort \in PortsOf(n) /\ <<n, egressPort>> \notin down /\ EnqueueEgress(n, egressPort)

(* Faulty variant: the loop over the ports ends at the ingress port. *)
FloodUntil(n, inPort) == {i \in PortsOf(n) : i < inPort /\ SendToPort(n, i)}

(* The ports a packet is flooded to. *)
FloodPorts(n, inPort) == {i \in PortsOf(n) : i # inPort /\ SendToPort(n, i)}

(* DummySwitchNetDevice::ReceiveFromPort: a packet for the switch itself   *)
(* stays here, any other is flooded.                                       *)
ReceiveFromPort(e, frame, o, w) ==
  LET n == e[1]
      dst == Destination(e, frame)
  IN /\ IF dst = Own(n)
        THEN wire' = w /\ got' = Record(got, n, frame, o)
        ELSE /\ wire' = Transmit(w, Devices(n, FloodPorts(n, GetPortIdForDevice(n, e))),
                          Frame(frame.id, dst, AddEthernetHeader(o.packet, o.type)))
             /\ UNCHANGED got
     /\ UNCHANGED <<buffer, status>>

SetPortUp(n, i, isUp) ==
  /\ status = "running" /\ net.kind[n] = "dummy" /\ <<n, i>> \in net.managed
  /\ isUp = (<<n, i>> \in down)
  /\ down' = IF isUp THEN down \ {<<n, i>>} ELSE down \cup {<<n, i>>}
  /\ lossy' = (lossy \/ ~isUp)
  /\ UNCHANGED <<setup, wire, buffer, got, sent, status>>

(* A protocol of a switch's own node sends through all its ports.          *)
Originate(n, packet, dst) ==
  /\ status = "running" /\ Len(sent) < MaxFrames /\ dst # Own(n)
  /\ sent' = Append(sent, [origin |-> n, dst |-> dst, packet |-> packet])
  /\ wire' = Transmit(wire, Devices(n, PortsOf(n)),
                      Frame(Len(sent'), dst, AddEthernetHeader(packet, EtherType(packet))))
  /\ UNCHANGED <<setup, down, buffer, got, lossy, status>>

(* The dummy switch does not ask its ports whether they are up.            *)
DummySend(n, packet, dst) == net.kind[n] = "dummy" /\ Originate(n, packet, dst)

-----------------------------------------------------------------------------
(* The P4 switch.                                                          *)

(* GetPortNumber returns from the first turn of its loop. *)
GetPortNumber(e) == 0

(* Faulty variant: the Ethernet header is parsed from the packet, whose    *)
(* first bytes are those of another header.                                *)
PeekedEthernet(packet, type) == <<Eth(type), Garbage>>

(* The header the core is given; an unsupported channel type gets none. *)
Reconstructed(packet, type) ==
  IF net.channelType \in {0, 1} THEN AddEthernetHeader(packet, type) ELSE packet

(* Faulty variant: the drop port is looked up like any other. *)
SendNs3PacketAnyPort(w, n, q, ports) ==
  IF ports \subseteq PortsOf(n)
  THEN wire' = Transmit(w, Devices(n, ports), Frame(q.id, q.dst, q.packet)) /\ UNCHANGED status
  ELSE wire' = w /\ status' = "crashed"

(* Fourteen bytes are taken for the Ethernet header, and the port's device *)
(* puts one back; a port the switch does not have is a null pointer.       *)
SendNs3Packet(w, n, q, ports) ==
  LET packet == IF Head(q.packet).kind = "eth" THEN q.packet ELSE <<Eth(0), Garbage>>
      out == ports \ {DROP_PORT}
  IN IF out \subseteq PortsOf(n)
     THEN wire' = Transmit(w, Devices(n, out), Frame(q.id, q.dst, packet)) /\ UNCHANGED status
     ELSE wire' = w /\ status' = "crashed"

(* Faulty variant: a push that does not wait for room. *)
PushFreely(n, q) == buffer' = [buffer EXCEPT ![n] = Append(@, q)] /\ UNCHANGED status

(* P4PnaNic::ReceivePacket: nothing ever takes a packet out of the input   *)
(* buffer, and in a full one the only thread waits for ever.               *)
PushPna(n, q) ==
  IF Len(buffer[n]) < PnaCapacity
  THEN buffer' = [buffer EXCEPT ![n] = Append(@, q)] /\ UNCHANGED status
  ELSE status' = "hung" /\ UNCHANGED buffer

(* P4CorePipeline::ReceivePacket: through the pipeline and out at once.    *)
Pipeline(w, n, q) == SendNs3Packet(w, n, q, net.program[n][q.in]) /\ UNCHANGED buffer

(* ReceiveFromDevice: a packet for the switch's address goes to its own    *)
(* protocols as well as to the core.                                       *)
ReceiveFromDevice(e, frame, o, w) ==
  LET n == e[1]
      dst == Destination(e, frame)
      q == [id |-> frame.id, dst |-> dst, in |-> GetPortNumber(e),
            packet |-> Reconstructed(o.packet, o.type)]
  IN /\ got' = IF dst = Own(n) THEN Record(got, n, frame, o) ELSE got
     /\ CASE net.kind[n] = "pipeline" -> Pipeline(w, n, q)
          [] net.kind[n] = "pna" -> PushPna(n, q) /\ wire' = w
          [] net.kind[n] = "queued" ->
               buffer' = [buffer EXCEPT ![n] = Append(@, q)] /\ wire' = w /\ UNCHANGED status

(* A queued core's timers move a packet to the egress side and out; which  *)
(* packet comes first is V1Switch's and PsaSwitch's matter.                *)
CoreSends(n) ==
  /\ status = "running" /\ n \in Switches /\ net.kind[n] = "queued"
  /\ \E i \in DOMAIN buffer[n] :
       /\ buffer' = [buffer EXCEPT ![n] = RemoveAt(@, i)]
       /\ SendNs3Packet(wire, n, buffer[n][i], net.program[n][buffer[n][i].in])
  /\ UNCHANGED <<setup, down, got, sent, lossy>>

SendFrom(n, packet, dst) == net.kind[n] # "dummy" /\ Originate(n, packet, dst)

-----------------------------------------------------------------------------

(* A frame reaches the device at e. *)
Deliver(e) ==
  /\ status = "running" /\ e \in Ends
  /\ wire[e] # <<>>
  /\ \E o \in Passed(e, Head(wire[e])) :
       LET frame == Head(wire[e])
           w == [wire EXCEPT ![e] = Tail(@)]
       IN CASE o.result = "hangs" -> status' = "hung" /\ wire' = w /\ UNCHANGED <<buffer, got>>
            [] o.result = "stops" -> status' = "crashed" /\ wire' = w /\ UNCHANGED <<buffer, got>>
            [] o.result = "lost" -> wire' = w /\ UNCHANGED <<buffer, got, status>>
            [] o.result = "received" /\ e[1] \in net.hosts -> HostReceive(e, frame, o, w)
            [] o.result = "received" /\ e[1] \in Switches ->
                 IF net.kind[e[1]] = "dummy" THEN ReceiveFromPort(e, frame, o, w)
                 ELSE ReceiveFromDevice(e, frame, o, w)
  /\ UNCHANGED <<setup, down, sent, lossy>>

Next ==
  \/ InstallLink \/ Run
  \/ \E n \in Switches : InstallDummy(n) \/ InstallP4(n)
  \/ \E port \in net.queued : SetPortTrafficManager(port[1], port[2])
  \/ \E e \in Ends : Deliver(e)
  \/ \E n \in Switches : CoreSends(n)
  \/ \E port \in net.managed, isUp \in BOOLEAN : SetPortUp(port[1], port[2], isUp)
  \/ \E packet \in net.packets, dst \in net.dsts :
       \/ \E h \in net.hosts : HostSend(h, packet, dst)
       \/ \E n \in Switches : DummySend(n, packet, dst) \/ SendFrom(n, packet, dst)

Spec == Init /\ [][Next]_vars

(* The simulator executes the events it has scheduled: as long as frames   *)
(* are on their way one of them arrives, and the timers of cores tick.     *)
(* Only the CSMA networks are asked to progress below.                     *)
Progress == net.medium = "csma" /\ \E e \in Ends : Deliver(e)

FairSpec ==
  /\ Spec
  /\ WF_vars(Progress)
  /\ WF_vars(\E n \in Switches : CoreSends(n))

-----------------------------------------------------------------------------
(* Properties.                                                             *)

(* Every variable is of its type, a frame knows the packet it carries, and *)
(* the NIC's buffer keeps to its size.                                     *)
TypeOK ==
  /\ \A e \in Ends : \A i \in DOMAIN wire[e] : wire[e][i].id \in 1 .. Len(sent)
  /\ \A n \in Switches :
       /\ \A i \in DOMAIN buffer[n] : buffer[n][i].id \in 1 .. Len(sent)
       /\ net.kind[n] = "pna" => Len(buffer[n]) <= PnaCapacity
  /\ \A n \in DOMAIN device :
       device[n].ports # <<>> => device[n].address \in ToSet(device[n].ports)
  /\ \A port \in down \cup managers : port[2] \in PortsOf(port[1])
  /\ \A n \in Nodes : \A i \in DOMAIN got[n] : got[n][i].id \in 1 .. Len(sent)
  /\ Len(sent) <= MaxFrames
  /\ lossy \in BOOLEAN
  /\ status \in {"installing", "running", "crashed", "hung"}

AllDummies == \A n \in Switches : net.kind[n] = "dummy"
Copies(n, id) == {i \in DOMAIN got[n] : got[n][i].id = id}

(* In a tree of dummy switches flooding never duplicates: every node gets  *)
(* a packet at most once, and never one of its own, whatever else is in    *)
(* flight and whichever ports go down and up.                              *)
FloodOnce ==
  AllDummies =>
    \A id \in DOMAIN sent : \A n \in Nodes :
      Cardinality(Copies(n, id)) <= (IF n = sent[id].origin THEN 0 ELSE 1)

(* Placements of the custom header that the receiving side undoes. *)
Restores(dev) ==
  dev.custom => \/ dev.layer = 2 /\ dev.op = "ADD_AFTER"
                \/ dev.layer = 3 /\ dev.op = "ADD_BEFORE"

Faithful(n) == n.channelType \in {0, 1} /\ \A h \in n.hosts : Restores(n.device[h])

(* Devices whose custom headers match: what any of them, or a switch,      *)
(* sends starts with an Ethernet header, and if another one passes it up,  *)
(* it is what was sent.  ARP may stop the receiver, ICMP hang it.          *)
HasHeader(p, kind) == \E i \in DOMAIN p : p[i].kind = kind
Matching(n) ==
  \A p \in n.packets : \A h, g \in n.hosts :
    LET f == OnWire(n.device[h], p, EtherType(p))
    IN /\ Head(f).kind = "eth" /\ f = AddEthernetHeader(Tail(f), Head(f).value)
       /\ \A o \in ProcessHeader(n.device[g], f)
                   \cup ProcessHeader(n.device[g], AddEthernetHeader(p, EtherType(p))) :
            /\ o.result = "received" => o.packet = p /\ o.type = EtherType(p)
            /\ o.result = "stops" => HasHeader(p, "arp")
            /\ o.result = "hangs" => HasHeader(p, "icmp")

(* What a host's protocols receive is what the other host's protocols      *)
(* sent, header for header, whichever switches, channels and custom        *)
(* headers it went through.                                                *)
HeadersRestored ==
  Faithful(net) =>
    \A h \in net.hosts : \A i \in DOMAIN got[h] :
      /\ got[h][i].packet = sent[got[h][i].id].packet
      /\ got[h][i].type = EtherType(got[h][i].packet)

UsesBadPort(n) ==
  \E i \in DOMAIN net.program[n] :
    \E port \in net.program[n][i] \ {DROP_PORT} : port >= Len(net.added[n])
Sends(kind) == \E id \in DOMAIN sent : HasHeader(sent[id].packet, kind)
UsesCustom == net.medium = "p2p" /\ \E h \in net.hosts : net.device[h].custom
Misreads == UsesCustom /\ ~Faithful(net)

(* A simulation crashes only when a program names a port its switch does   *)
(* not have, or a device with custom headers receives ARP or a header it   *)
(* does not expect; it hangs only on the NIC's full buffer or in such a    *)
(* device's parser, on an unexpected header or on ICMP.                    *)
StopsExplained ==
  /\ status = "crashed" =>
       (\E n \in Switches : UsesBadPort(n)) \/ (UsesCustom /\ Sends("arp")) \/ Misreads
  /\ status = "hung" =>
       \/ \E n \in Switches : net.kind[n] = "pna" /\ Len(buffer[n]) = PnaCapacity
       \/ UsesCustom /\ Sends("icmp")
       \/ Misreads

Addressed(n, id) ==
  /\ id \in DOMAIN sent /\ n # sent[id].origin
  /\ sent[id].dst = Own(n) \/ (n \in net.hosts /\ sent[id].dst = Broadcast)

(* In a tree of dummy switches on CSMA links, where no port is ever down,  *)
(* everything that is sent reaches all it is addressed to.                 *)
FloodArrives ==
  \A id \in 1 .. MaxFrames :
    (id \in DOMAIN sent /\ AllDummies /\ net.medium = "csma")
      ~> (lossy \/ \A n \in Nodes : Addressed(n, id) => Copies(n, id) # {})

(* A host's packet that the program sends back to the port it came from    *)
(* returns to that host.                                                   *)
ReflectedReturns ==
  \A h \in net.hosts : \A i \in DOMAIN got[h] :
    sent[got[h][i].id].origin \in {h} \cup Switches
=============================================================================
