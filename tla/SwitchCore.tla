----------------------------- MODULE SwitchCore -----------------------------
(***************************************************************************)
(* What the v1model and the PSA core have in common: the address table of  *)
(* P4SwitchCore (model/p4-switch-core.cc), and the use they make of the    *)
(* egress buffer, of the multicast groups and of the mirroring sessions    *)
(* (Enqueue and MulticastPacket of either core are the same code; the map  *)
(* names the v1model's).  Of the egress buffer the cores' modules keep     *)
(* what EgressBuffer is shown to implement (ClassFifos), with the capacity *)
(* of each class.                                                          *)
(***************************************************************************)
EXTENDS Naturals, Sequences

CONSTANTS
  Destinations,     \* ns-3 destination addresses
  Ports,            \* the egress ports the P4 program uses
  PolledPorts,      \* SSWITCH_VIRTUAL_QUEUE_NUM: ports 0 to this minus one
                    \* are asked for their queue size
  NbQueuesPerPort,  \* m_nbQueuesPerPort
  QueueBufferSize,  \* the attribute of P4SwitchNetDevice
  AddressIndexes,   \* 2^16: the width of ns_address in packet register 2
  Groups,           \* multicast groups: id (not 0) |-> set of ports
  Sessions          \* mirroring sessions: id |-> the group and the port of
                    \* the session, each a set of at most one

Priorities == 0 .. (NbQueuesPerPort - 1)
Classes == Ports \X Priorities

ASSUME CoreAssumption ==
  /\ Ports \subseteq Nat
  /\ PolledPorts \in Nat
  /\ NbQueuesPerPort \in Nat
  /\ QueueBufferSize \in Nat
  /\ AddressIndexes \in Nat \ {0}
  /\ \A m \in DOMAIN Groups : Groups[m] \subseteq Ports
  /\ \A s \in DOMAIN Sessions :
       Sessions[s].mgids \subseteq DOMAIN Groups /\ Sessions[s].ports \subseteq Ports

VARIABLES
  queues,       \* the egress buffer: a FIFO for each class
  destinations  \* m_destinationList (m_addressMap is its inverse)

-----------------------------------------------------------------------------
(* The address table.                                                      *)

(* Faulty variant: the index of an unknown address is read from the map    *)
(* before it is entered there.                                             *)
AddressIndexUnentered(d) ==
  IF \E i \in DOMAIN destinations : destinations[i] = d
  THEN (CHOOSE i \in DOMAIN destinations : destinations[i] = d) - 1
  ELSE 0

(* GetAddressIndex: the index of a known address, or the next one. *)
AddressIndex(d) ==
  IF \E i \in DOMAIN destinations : destinations[i] = d
  THEN (CHOOSE i \in DOMAIN destinations : destinations[i] = d) - 1
  ELSE Len(destinations)

EnterAddress(d) ==
  IF \E i \in DOMAIN destinations : destinations[i] = d
  THEN destinations
  ELSE Append(destinations, d)

-----------------------------------------------------------------------------
(* The egress buffer.                                                      *)

(* Faulty variants of Enqueue: a full class takes one packet more; a       *)
(* packet goes to the end of the queue it is taken from.                   *)
EnqueueOneMore(qs, ports, pkt) ==
  [c \in Classes |->
     IF /\ c[1] \in ports
        /\ pkt.priority < NbQueuesPerPort
        /\ c[2] = NbQueuesPerPort - 1 - pkt.priority
        /\ Len(qs[c]) <= QueueBufferSize
     THEN Append(qs[c], pkt)
     ELSE qs[c]]
EnqueueReversed(qs, ports, pkt) ==
  [c \in Classes |->
     IF /\ c[1] \in ports
        /\ pkt.priority < NbQueuesPerPort
        /\ c[2] = NbQueuesPerPort - 1 - pkt.priority
        /\ Len(qs[c]) < QueueBufferSize
     THEN <<pkt>> \o qs[c]
     ELSE qs[c]]

(* Enqueue, of one packet to each of a set of ports: a priority out of     *)
(* range and a full class both drop the packet without a trace.            *)
Enqueue(qs, ports, pkt) ==
  [c \in Classes |->
     IF /\ c[1] \in ports
        /\ pkt.priority < NbQueuesPerPort
        /\ c[2] = NbQueuesPerPort - 1 - pkt.priority
        /\ Len(qs[c]) < QueueBufferSize
     THEN Append(qs[c], pkt)
     ELSE qs[c]]

(* MulticastPacket: an unknown group has no ports. *)
GroupPorts(mgids) == UNION {Groups[m] : m \in mgids \cap DOMAIN Groups}

(* The copies a mirroring session makes of a clone: first to its group,    *)
(* then to its port; none when the session is not configured.              *)
Mirror(qs, session, clone) ==
  IF session \in DOMAIN Sessions
  THEN Enqueue(Enqueue(qs, GroupPorts(Sessions[session].mgids), clone),
               Sessions[session].ports, clone)
  ELSE qs

(* Faulty variant of Polled: only the first port is asked. *)
PolledFirstOnly(q) == q = 0

(* The ports whose queue size HandleEgressPipeline asks for. *)
Polled(q) == q < PolledPorts

PollPasses == \E c \in Classes : Polled(c[1]) /\ queues[c] # <<>>
=============================================================================
