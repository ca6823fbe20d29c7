----------------------------- MODULE PsaSwitch -----------------------------
(***************************************************************************)
(* The PSA switch core, P4CorePsa (model/p4-core-psa.cc).  It differs from *)
(* the v1model core (V1Switch) in that there is one input queue, that what *)
(* the core acts on are PSA metadata, that a packet is dropped unless the  *)
(* program says otherwise, that a resubmitted or recirculated packet keeps *)
(* its registers, and that recirculation, a matter of the egress port,     *)
(* calls the ingress pipeline from within the egress event.                *)
(*                                                                         *)
(* An event is one or more steps: Receive or Serve, and then one Ingress   *)
(* per call of HandleIngressPipeline, during which phase is "ingress" and  *)
(* no other event runs.  The P4 program is a choice among verdicts.        *)
(***************************************************************************)
EXTENDS Integers, SwitchCore

CONSTANTS
  RecirculatePort,  \* PSA_PORT_RECIRCULATE, 2^32 - 6: never polled
  InputBufferSize,  \* the capacity of input_buffer (a bm::Queue)
  IngressVerdicts,  \* outcomes of the ingress pipeline
  EgressVerdicts,   \* outcomes of the egress pipeline
  MaxPackets,       \* bound: packets received in a behaviour
  MaxHops           \* bound: copies of copies the P4 program asks for

(* clone is the set of mirroring sessions asked for: none or one. *)
IngressVerdict ==
  [clone : SUBSET Nat, drop : BOOLEAN, resubmit : BOOLEAN,
   multicast_group : Nat, egress_port : Ports, priority : Nat]

EgressVerdict == [clone : SUBSET Nat, drop : BOOLEAN]

ASSUME ConstantsAssumption ==
  /\ RecirculatePort \in Nat /\ RecirculatePort >= PolledPorts
  /\ InputBufferSize \in Nat
  /\ IngressVerdicts \subseteq IngressVerdict
  /\ EgressVerdicts \subseteq EgressVerdict
  /\ MaxPackets \in Nat
  /\ MaxHops \in Nat

VARIABLES
  phase,         \* "idle" between events, "ingress" inside one, "blocked"
                 \* inside a push that waits for room for ever
  input_buffer,  \* received, resubmitted and recirculated packets
  first_packet,  \* m_firstPacket
  extra,         \* an extra egress poll is scheduled
  wire,          \* the last call of SendNs3Packet (a set: {} before it)
  received,      \* history: packets received, and the next packet id
  newest         \* history: newest received packet sent from each class

timer == <<first_packet, extra>>
history == <<received, newest>>
vars == <<phase, input_buffer, queues, destinations, timer, wire, history>>

Packets ==
  [id : Nat,                    \* get_packet_id
   priority : Nat,              \* intrinsic_metadata.priority
   address : Nat,               \* ns_address, in packet register 2
   destination : Destinations,  \* the address it was received for
   intact : BOOLEAN,            \* history: it is no clone and no replica
   recirculated : BOOLEAN,      \* history: it was recirculated
   hops : Nat]                  \* history: copies, resubmissions and
                                \* recirculations on its way

-----------------------------------------------------------------------------
(* Operators.                                                              *)

(* A clone or a replica.  What the BMv2 library leaves in the registers of *)
(* a copy is not known here, and the core does not set them: SentTo.       *)
Copy(pkt, priority) ==
  [pkt EXCEPT !.priority = priority, !.intact = FALSE, !.hops = pkt.hops + 1]

SentTo(pkt) ==
  IF pkt.intact THEN {destinations[pkt.address + 1]} ELSE Destinations

(* The same packet before another pass: its metadata are reset. *)
Again(pkt) == [pkt EXCEPT !.priority = 0, !.hops = pkt.hops + 1]

(* Faulty variant: a recirculated packet's registers are cleared.          *)
RecirculatedCleared(pkt) ==
  [Again(pkt) EXCEPT !.recirculated = TRUE, !.address = 0]
Recirculated(pkt) == [Again(pkt) EXCEPT !.recirculated = TRUE]

Clones(qs, pkt, sessions) ==
  IF sessions = {} THEN qs
  ELSE Mirror(qs, CHOOSE s \in sessions : TRUE, Copy(pkt, 0))

(* A P4 program stops sending copies around. *)
IngressMay(v, pkt) ==
  \/ pkt.hops < MaxHops
  \/ /\ v.clone = {} /\ ~v.resubmit
     /\ v.multicast_group = 0 /\ v.egress_port # RecirculatePort
EgressMay(v, pkt) == pkt.hops < MaxHops \/ v.clone = {}

(* input_buffer.push_front, and the call of HandleIngressPipeline that     *)
(* follows it wherever it is: the push waits while there is no room.       *)
Submit(buffer, pkt) ==
  IF Len(buffer) >= InputBufferSize
  THEN phase' = "blocked" /\ input_buffer' = buffer
  ELSE phase' = "ingress" /\ input_buffer' = Append(buffer, pkt)

-----------------------------------------------------------------------------
(* Operations.                                                             *)

Init ==
  /\ phase = "idle"
  /\ input_buffer = <<>>
  /\ queues = [c \in Classes |-> <<>>]
  /\ destinations = <<>>
  /\ first_packet = FALSE
  /\ extra = FALSE
  /\ wire = {}
  /\ received = 0
  /\ newest = [c \in Classes |-> -1]

(* ReceivePacket of a packet for address d. *)
Receive(d) ==
  /\ phase = "idle"
  /\ received < MaxPackets
  /\ received' = received + 1
  /\ destinations' = EnterAddress(d)
  /\ Submit(input_buffer, [id |-> received, priority |-> 0,
                           address |-> AddressIndex(d) % AddressIndexes,
                           destination |-> d, intact |-> TRUE,
                           recirculated |-> FALSE, hops |-> 0])
  /\ UNCHANGED <<queues, timer, wire, newest>>

(* HandleIngressPipeline takes a packet (pop_back would wait for one).     *)
(* The clone is enqueued whatever becomes of the packet itself.            *)
IngressPass(v) ==
  /\ phase = "ingress"
  /\ input_buffer # <<>>
  /\ IngressMay(v, Head(input_buffer))

AfterIngressClone(v) == Clones(queues, Head(input_buffer), v.clone)

IngressDrop(v) ==
  /\ IngressPass(v)
  /\ v.drop
  /\ queues' = AfterIngressClone(v)
  /\ input_buffer' = Tail(input_buffer)
  /\ phase' = "idle"
  /\ UNCHANGED <<destinations, timer, wire, history>>

(* Faulty variant: the packet is resubmitted and enqueued. *)
IngressResubmitAndForward(v) ==
  /\ IngressPass(v)
  /\ ~v.drop
  /\ v.resubmit
  /\ queues' = Enqueue(AfterIngressClone(v), {v.egress_port}, Head(input_buffer))
  /\ Submit(Tail(input_buffer), Again(Head(input_buffer)))
  /\ UNCHANGED <<destinations, timer, wire, history>>

(* The packet itself goes back to the input buffer and through the         *)
(* pipeline again, in the same event.                                      *)
IngressResubmit(v) ==
  /\ IngressPass(v)
  /\ ~v.drop
  /\ v.resubmit
  /\ queues' = AfterIngressClone(v)
  /\ Submit(Tail(input_buffer), Again(Head(input_buffer)))
  /\ UNCHANGED <<destinations, timer, wire, history>>

IngressMulticast(v) ==
  /\ IngressPass(v)
  /\ ~v.drop
  /\ ~v.resubmit
  /\ v.multicast_group # 0
  /\ queues' = Enqueue(AfterIngressClone(v), GroupPorts({v.multicast_group}),
                       Copy(Head(input_buffer), v.priority))
  /\ input_buffer' = Tail(input_buffer)
  /\ phase' = "idle"
  /\ UNCHANGED <<destinations, timer, wire, history>>

IngressUnicast(v) ==
  /\ IngressPass(v)
  /\ ~v.drop
  /\ ~v.resubmit
  /\ v.multicast_group = 0
  /\ queues' = Enqueue(AfterIngressClone(v), {v.egress_port},
                       [Head(input_buffer) EXCEPT !.priority = v.priority])
  /\ input_buffer' = Tail(input_buffer)
  /\ phase' = "idle"
  /\ UNCHANGED <<destinations, timer, wire, history>>

(* Faulty variant of Recirculate: the ingress pipeline is left to the next *)
(* received packet.                                                        *)
RecirculateOnly(c, pkt) ==
  /\ c[1] = RecirculatePort
  /\ input_buffer' = Append(input_buffer, Recirculated(pkt))
  /\ UNCHANGED <<phase, wire, newest>>

(* What HandleEgressPipeline does with a packet that is not dropped. *)
Recirculate(c, pkt) ==
  /\ c[1] = RecirculatePort
  /\ Submit(input_buffer, Recirculated(pkt))
  /\ UNCHANGED <<wire, newest>>

Send(c, pkt) ==
  /\ c[1] # RecirculatePort
  /\ \E to \in SentTo(pkt) : wire' = {[packet |-> pkt, port |-> c[1], to |-> to]}
  /\ newest' = IF pkt.intact /\ ~pkt.recirculated
               THEN [newest EXCEPT ![c] = pkt.id]
               ELSE newest
  /\ UNCHANGED <<phase, input_buffer>>

(* HandleEgressPipeline serves the class c. *)
Serve(c, v) ==
  LET pkt == Head(queues[c])
      popped == [queues EXCEPT ![c] = Tail(queues[c])]
  IN  /\ phase = "idle"
      /\ PollPasses
      /\ queues[c] # <<>>
      /\ EgressMay(v, pkt)
      /\ queues' = Clones(popped, pkt, v.clone)
      /\ \/ v.drop /\ UNCHANGED <<phase, input_buffer, wire, newest>>
         \/ ~v.drop /\ Recirculate(c, pkt)
         \/ ~v.drop /\ Send(c, pkt)
      /\ UNCHANGED <<destinations, received>>

(* The periodic SetEgressTimerEvent, when it serves a packet. *)
EgressTimerServes ==
  /\ \E c \in Classes, v \in EgressVerdicts : Serve(c, v)
  /\ first_packet' = TRUE
  /\ UNCHANGED extra

(* ... and when it finds none, or none that is due. *)
EgressTimerIdles ==
  /\ phase = "idle"
  /\ extra' = (extra \/ first_packet)
  /\ UNCHANGED <<phase, input_buffer, queues, destinations, first_packet, wire,
                 history>>

(* The extra poll, whose result nobody looks at. *)
ExtraPollServes ==
  /\ extra
  /\ \E c \in Classes, v \in EgressVerdicts : Serve(c, v)
  /\ extra' = FALSE
  /\ UNCHANGED first_packet

ExtraPollIdles ==
  /\ phase = "idle"
  /\ extra
  /\ extra' = FALSE
  /\ UNCHANGED <<phase, input_buffer, queues, destinations, first_packet, wire,
                 history>>

Ingress ==
  \E v \in IngressVerdicts :
    \/ IngressDrop(v)
    \/ IngressResubmit(v)
    \/ IngressMulticast(v)
    \/ IngressUnicast(v)

EgressServes == EgressTimerServes \/ ExtraPollServes

Next ==
  \/ \E d \in Destinations : Receive(d)
  \/ Ingress
  \/ EgressServes
  \/ EgressTimerIdles
  \/ ExtraPollIdles

(* As in V1Switch: pipeline calls return, and polls never stop. *)
Fairness == WF_vars(Ingress) /\ WF_vars(EgressServes)

Spec == Init /\ [][Next]_vars
FairSpec == Spec /\ Fairness

-----------------------------------------------------------------------------
(* Properties.                                                             *)

Wires == [packet : Packets, port : Ports, to : Destinations]

(* Every variable keeps its type, and no class outgrows its capacity. *)
TypeOK ==
  /\ phase \in {"idle", "ingress", "blocked"}
  /\ input_buffer \in Seq(Packets)
  /\ queues \in [Classes -> Seq(Packets)]
  /\ \A c \in Classes : Len(queues[c]) <= QueueBufferSize
  /\ destinations \in Seq(Destinations)
  /\ first_packet \in BOOLEAN
  /\ extra \in BOOLEAN
  /\ wire \subseteq Wires
  /\ received \in Nat
  /\ newest \in [Classes -> Int]

(* Unlike the v1model core's, this input buffer is empty between events,   *)
(* whatever is cloned, resubmitted or recirculated; a call of              *)
(* HandleIngressPipeline finds the one packet pushed for it, and with room *)
(* for that one packet no push ever waits.                                 *)
InputDrained ==
  /\ phase = "idle" => input_buffer = <<>>
  /\ phase = "ingress" => Len(input_buffer) = 1
  /\ phase = "blocked" => InputBufferSize = 0

SameOriginal(x, y) == x.id = y.id /\ x.intact /\ y.intact

(* A packet that is no copy is in one place: in the input buffer, in one   *)
(* class, or gone.  Nothing is both resubmitted or recirculated and sent,  *)
(* enqueued twice, or enqueued and dropped.                                *)
OneOriginal ==
  /\ \A c, d \in Classes : \A m \in DOMAIN queues[c], n \in DOMAIN queues[d] :
       SameOriginal(queues[c][m], queues[d][n]) => c = d /\ m = n
  /\ \A i \in DOMAIN input_buffer, c \in Classes : \A n \in DOMAIN queues[c] :
       ~SameOriginal(input_buffer[i], queues[c][n])
  /\ \A w \in wire :
       /\ \A i \in DOMAIN input_buffer : ~SameOriginal(w.packet, input_buffer[i])
       /\ \A c \in Classes : \A n \in DOMAIN queues[c] :
            ~SameOriginal(w.packet, queues[c][n])

(* Packets of a class that were neither copied nor recirculated leave in   *)
(* the order they were received, whatever is resubmitted in between.       *)
SentInOrder ==
  [][\A c \in Classes : newest'[c] >= newest[c]]_vars

(* A packet that is no copy is handed to the net device with the address   *)
(* it was received for, even after resubmission and recirculation, as long *)
(* as the index fits its register.                                         *)
DestinationKept ==
  \A w \in wire : w.packet.intact /\ Len(destinations) <= AddressIndexes
                    => w.to = w.packet.destination

(* Every packet queued for a polled port leaves the egress buffer in the   *)
(* end.  (One to be recirculated may wait for ever: its port is not        *)
(* polled.)                                                                *)
PolledDrain ==
  \A c \in Classes :
    c[1] < PolledPorts => (queues[c] # <<>> ~> queues[c] = <<>>)
=============================================================================
