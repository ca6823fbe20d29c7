------------------------------ MODULE V1Switch ------------------------------
(***************************************************************************)
(* The v1model switch core, P4CoreV1model (model/p4-core-v1model.cc): a    *)
(* received packet goes through the two-queue InputBuffer to the ingress   *)
(* pipeline, from there to the egress buffer, and a periodic timer takes   *)
(* packets out of the egress buffer, through the egress pipeline, to       *)
(* P4SwitchNetDevice::SendNs3Packet.  Copies (clones, multicast replicas,  *)
(* resubmitted and recirculated packets) re-enter on the way.              *)
(*                                                                         *)
(* Everything runs in the single thread of the ns-3 simulator.  A call of  *)
(* ReceivePacket is two or more steps here, Receive and then one Ingress   *)
(* per call of HandleIngressPipeline, during which phase is "ingress" and  *)
(* no other event runs.  The address table and the egress buffer are those *)
(* of SwitchCore; whether a class is due is left open.                     *)
(*                                                                         *)
(* The P4 program is a choice among verdicts: what its ingress and egress  *)
(* pipelines leave in the packet for the core to act on.                   *)
(***************************************************************************)
EXTENDS Integers, FiniteSets, SwitchCore

CONSTANTS
  DropPort,            \* m_dropPort
  InputBufferSizeLow,  \* the attributes of P4SwitchNetDevice
  InputBufferSizeHigh,
  RegistersSet,        \* whether the primitives of the P4 program write the
                       \* clone, resubmit and recirculate packet registers
  IngressVerdicts,     \* outcomes of the ingress pipeline
  EgressVerdicts,      \* outcomes of the egress pipeline
  MaxPackets,          \* bound: packets received in a behaviour
  MaxHops              \* bound: copies of copies the P4 program asks for

IngressVerdict ==
  [egress_spec : Ports \cup {DropPort}, priority : Nat, mcast_grp : Nat,
   clone : Nat, clone_priority : Nat, resubmit : BOOLEAN]

EgressVerdict ==
  [drop : BOOLEAN, clone : Nat, clone_priority : Nat, recirculate : BOOLEAN]

ASSUME ConstantsAssumption ==
  /\ DropPort \in Nat \ Ports
  /\ InputBufferSizeLow \in Nat
  /\ InputBufferSizeHigh \in Nat
  /\ RegistersSet \in BOOLEAN
  /\ IngressVerdicts \subseteq IngressVerdict
  /\ EgressVerdicts \subseteq EgressVerdict
  /\ MaxPackets \in Nat
  /\ MaxHops \in Nat

(* The constructor hands the Low size to InputBuffer's capacity_hi and the *)
(* High size to its capacity_lo.                                           *)
CapacityHi == InputBufferSizeLow

(* Faulty variant: the sizes go to the queues their names suggest. *)
CapacityLoAsNamed == InputBufferSizeLow

CapacityLo == InputBufferSizeHigh

VARIABLES
  phase,         \* "idle" between events, "ingress" inside ReceivePacket,
                 \* "blocked" inside a push that waits for room for ever
  queue_hi,      \* InputBuffer: resubmitted and recirculated packets
  queue_lo,      \* InputBuffer: received packets
  first_packet,  \* m_firstPacket
  extra,         \* an extra egress poll is scheduled
  wire,          \* the last call of SendNs3Packet (a set: {} before it)
  received,      \* history: packets received, and the next packet id
  newest,        \* history: newest received packet sent from each class
  recirculated   \* history: packets the egress pushed into queue_hi

inputs == <<queue_hi, queue_lo>>
timer == <<first_packet, extra>>
history == <<received, newest, recirculated>>
vars == <<phase, inputs, queues, destinations, timer, wire, history>>

Packets ==
  [id : Nat,                    \* get_packet_id
   priority : Nat,              \* intrinsic_metadata.priority
   address : Nat,               \* ns_address, in packet register 2
   destination : Destinations,  \* the address it was received for
   intact : BOOLEAN,            \* history: its registers were never cleared
   hops : Nat]                  \* history: copies between it and the original

-----------------------------------------------------------------------------
(* Operators.                                                              *)

(* A copy: clear_all zeroes its registers, the ns-3 metadata with them. *)
Copy(pkt, priority) ==
  [id |-> pkt.id, priority |-> priority, address |-> 0,
   destination |-> pkt.destination, intact |-> FALSE, hops |-> pkt.hops + 1]

(* What the core reads of a verdict.  The in-tree primitives leave the     *)
(* clone and resubmit requests in the PHV, where the core does not look.   *)
CloneSession(v) == IF RegistersSet THEN v.clone ELSE 0
Resubmits(v) == RegistersSet /\ v.resubmit
Recirculates(v) == RegistersSet /\ v.recirculate

(* A P4 program stops copying copies. *)
IngressMay(v, pkt) ==
  (CloneSession(v) # 0 \/ Resubmits(v)) => pkt.hops < MaxHops
EgressMay(v, pkt) ==
  (CloneSession(v) # 0 \/ Recirculates(v)) => pkt.hops < MaxHops

(* InputBuffer::pop_back. *)
InputEmpty == queue_hi = <<>> /\ queue_lo = <<>>
InputHead == IF queue_hi # <<>> THEN Head(queue_hi) ELSE Head(queue_lo)
HiAfterPop == IF queue_hi # <<>> THEN Tail(queue_hi) ELSE queue_hi
LoAfterPop == IF queue_hi # <<>> THEN queue_lo ELSE Tail(queue_lo)

(* Faulty variant: the capacity of queue_hi is not looked at. *)
PushHiAlways(hi, pkt) == Append(hi, pkt)

(* InputBuffer::push_front of a resubmitted or recirculated packet: it is  *)
(* lost when the queue is full.                                            *)
PushHi(hi, pkt) == IF Len(hi) = CapacityHi THEN hi ELSE Append(hi, pkt)

-----------------------------------------------------------------------------
(* Operations.                                                             *)

Init ==
  /\ phase = "idle"
  /\ queue_hi = <<>>
  /\ queue_lo = <<>>
  /\ queues = [c \in Classes |-> <<>>]
  /\ destinations = <<>>
  /\ first_packet = FALSE
  /\ extra = FALSE
  /\ wire = {}
  /\ received = 0
  /\ newest = [c \in Classes |-> -1]
  /\ recirculated = 0

(* Faulty variant: the ingress pipeline is not called. *)
ReceiveNoIngress(d) ==
  /\ phase = "idle" /\ received < MaxPackets /\ Len(queue_lo) < CapacityLo
  /\ received' = received + 1
  /\ destinations' = EnterAddress(d)
  /\ queue_lo' = Append(queue_lo, [id |-> received, priority |-> 0,
                  address |-> AddressIndex(d) % AddressIndexes,
                  destination |-> d, intact |-> TRUE, hops |-> 0])
  /\ UNCHANGED <<phase, queue_hi, queues, timer, wire, newest, recirculated>>

(* ReceivePacket of a packet for address d.  Its push blocks while         *)
(* queue_lo is full; the simulator has no other thread to make room.       *)
Receive(d) ==
  /\ phase = "idle"
  /\ received < MaxPackets
  /\ received' = received + 1
  /\ destinations' = EnterAddress(d)
  /\ IF Len(queue_lo) = CapacityLo
     THEN phase' = "blocked" /\ UNCHANGED queue_lo
     ELSE /\ phase' = "ingress"
          /\ queue_lo' = Append(queue_lo, [id |-> received, priority |-> 0,
                           address |-> AddressIndex(d) % AddressIndexes,
                           destination |-> d, intact |-> TRUE, hops |-> 0])
  /\ UNCHANGED <<queue_hi, queues, timer, wire, newest, recirculated>>

(* The clone is enqueued before the fate of the packet itself is decided. *)
AfterIngressClone(v) ==
  Mirror(queues, CloneSession(v), Copy(InputHead, v.clone_priority))

(* Faulty variant: the pipeline is not called again for a resubmitted      *)
(* packet.                                                                 *)
IngressResubmitOnce(v) ==
  /\ phase = "ingress"
  /\ ~InputEmpty
  /\ IngressMay(v, InputHead)
  /\ Resubmits(v)
  /\ queues' = AfterIngressClone(v)
  /\ queue_hi' = PushHi(HiAfterPop, Copy(InputHead, 0))
  /\ queue_lo' = LoAfterPop
  /\ phase' = "idle"
  /\ UNCHANGED <<destinations, timer, wire, history>>

(* HandleIngressPipeline takes a packet and the P4 program resubmits it:   *)
(* the copy goes to queue_hi, which may have no room at all, and the       *)
(* pipeline is called again; that call returns at once when it finds both  *)
(* input queues empty.                                                     *)
IngressResubmit(v) ==
  /\ phase = "ingress"
  /\ ~InputEmpty
  /\ IngressMay(v, InputHead)
  /\ Resubmits(v)
  /\ queues' = AfterIngressClone(v)
  /\ queue_hi' = PushHi(HiAfterPop, Copy(InputHead, 0))
  /\ queue_lo' = LoAfterPop
  /\ phase' = IF queue_hi' = <<>> /\ queue_lo' = <<>> THEN "idle" ELSE phase
  /\ UNCHANGED <<destinations, timer, wire, history>>

(* HandleIngressPipeline takes a packet and does not resubmit it: it is    *)
(* replicated, and then discarded, or dropped, or enqueued.                *)
IngressForward(v) ==
  /\ phase = "ingress"
  /\ ~InputEmpty
  /\ IngressMay(v, InputHead)
  /\ ~Resubmits(v)
  /\ \/ /\ v.mcast_grp # 0
        /\ queues' = Enqueue(AfterIngressClone(v), GroupPorts({v.mcast_grp}),
                             Copy(InputHead, v.priority))
     \/ /\ v.mcast_grp = 0
        /\ v.egress_spec = DropPort
        /\ queues' = AfterIngressClone(v)
     \/ /\ v.mcast_grp = 0
        /\ v.egress_spec # DropPort
        /\ queues' = Enqueue(AfterIngressClone(v), {v.egress_spec},
                             [InputHead EXCEPT !.priority = v.priority])
  /\ queue_hi' = HiAfterPop
  /\ queue_lo' = LoAfterPop
  /\ phase' = "idle"
  /\ UNCHANGED <<destinations, timer, wire, history>>

(* HandleEgressPipeline serves the class c.  (Its second range check of    *)
(* the priority is not modelled: Enqueue lets no such packet in.)          *)
Serve(c, v) ==
  LET pkt == Head(queues[c])
      popped == [queues EXCEPT ![c] = Tail(queues[c])]
  IN  /\ phase = "idle"
      /\ PollPasses
      /\ queues[c] # <<>>
      /\ EgressMay(v, pkt)
      /\ queues' = Mirror(popped, CloneSession(v), Copy(pkt, v.clone_priority))
      /\ \/ /\ v.drop
            /\ UNCHANGED <<queue_hi, recirculated, wire, newest>>
         \/ /\ ~v.drop
            /\ Recirculates(v)
            /\ queue_hi' = PushHi(queue_hi, Copy(pkt, 0))
            /\ recirculated' = recirculated + Len(queue_hi') - Len(queue_hi)
            /\ UNCHANGED <<wire, newest>>
         \/ /\ ~v.drop
            /\ ~Recirculates(v)
            /\ wire' = {[packet |-> pkt, port |-> c[1],
                         to |-> destinations[pkt.address + 1]]}
            /\ newest' = IF pkt.intact THEN [newest EXCEPT ![c] = pkt.id]
                                       ELSE newest
            /\ UNCHANGED <<queue_hi, recirculated>>
      /\ UNCHANGED <<phase, queue_lo, destinations, received>>

(* The periodic SetEgressTimerEvent, when it serves a packet. *)
EgressTimerServes ==
  /\ \E c \in Classes, v \in EgressVerdicts : Serve(c, v)
  /\ first_packet' = TRUE
  /\ UNCHANGED extra

(* ... and when it finds none, or none that is due: once some packet has   *)
(* been served, it schedules one more poll 10 ns later.  (extra stands for *)
(* one or more: another pending poll does nothing the timer does not do.)  *)
EgressTimerIdles ==
  /\ phase = "idle"
  /\ extra' = (extra \/ first_packet)
  /\ UNCHANGED <<phase, inputs, queues, destinations, first_packet, wire,
                 history>>

(* The extra poll, whose result nobody looks at. *)
ExtraPollServes ==
  /\ extra
  /\ \E c \in Classes, v \in EgressVerdicts : Serve(c, v)
  /\ extra' = FALSE
  /\ UNCHANGED first_packet

ExtraPollIdles ==
  /\ phase = "idle"
  /\ extra
  /\ extra' = FALSE
  /\ UNCHANGED <<phase, inputs, queues, destinations, first_packet, wire,
                 history>>

(* reset_target_state_ only clears the multicast groups, which are         *)
(* constants here.                                                         *)
Ingress == \E v \in IngressVerdicts : IngressResubmit(v) \/ IngressForward(v)
EgressServes == EgressTimerServes \/ ExtraPollServes

Next ==
  \/ \E d \in Destinations : Receive(d)
  \/ Ingress
  \/ EgressServes
  \/ EgressTimerIdles
  \/ ExtraPollIdles

(* A call of HandleIngressPipeline returns.  The timer rearms itself for   *)
(* ever, and a waiting packet is due after a bounded time (DueSoon in      *)
(* EgressBuffer), so polls that could serve a packet do, in the end.       *)
Fairness == WF_vars(Ingress) /\ WF_vars(EgressServes)

Spec == Init /\ [][Next]_vars
FairSpec == Spec /\ Fairness

-----------------------------------------------------------------------------
(* Properties.                                                             *)

Wires == [packet : Packets, port : Ports, to : Destinations]

(* Every variable keeps its type, and no queue outgrows its capacity. *)
TypeOK ==
  /\ phase \in {"idle", "ingress", "blocked"}
  /\ queue_hi \in Seq(Packets) /\ Len(queue_hi) <= CapacityHi
  /\ queue_lo \in Seq(Packets) /\ Len(queue_lo) <= CapacityLo
  /\ queues \in [Classes -> Seq(Packets)]
  /\ \A c \in Classes : Len(queues[c]) <= QueueBufferSize
  /\ destinations \in Seq(Destinations)
  /\ first_packet \in BOOLEAN
  /\ extra \in BOOLEAN
  /\ wire \subseteq Wires
  /\ received \in Nat
  /\ newest \in [Classes -> Int]
  /\ recirculated \in Nat

(* Between events at most one packet is left in the input buffer for each  *)
(* packet the egress has recirculated: every received packet pops one, but *)
(* nothing pops for a recirculated one.  Without recirculation the input   *)
(* buffer is empty between events, whatever is cloned or resubmitted.      *)
StrandedByRecirculation ==
  phase # "ingress" => Len(queue_hi) + Len(queue_lo) <= recirculated

(* The simulation hangs in ReceivePacket only after as many packets were   *)
(* recirculated as the attribute InputBufferSizeHigh says, the size that   *)
(* the constructor gives to the queue of received packets.                 *)
BlockedByRecirculation ==
  phase = "blocked" => recirculated >= InputBufferSizeHigh

(* Packets of a class that were never copied leave in the order they were  *)
(* received, whatever copies are made of them and mixed with them, and     *)
(* however long one waits in the input buffer.                             *)
SentInOrder ==
  [][\A c \in Classes : newest'[c] >= newest[c]]_vars

(* A packet that was never copied is handed to the net device with the     *)
(* address it was received for, as long as the index fits its register.    *)
DestinationKept ==
  \A w \in wire : w.packet.intact /\ Len(destinations) <= AddressIndexes
                    => w.to = w.packet.destination

(* The register layout's promise (utils/register-access-v1model.h:43-45    *)
(* and :75-78): after the pipeline "the correct ns-3 protocol number and   *)
(* destination address" are retrieved.  Replicas and clones have lost it.  *)
DestinationRetrieved == \A w \in wire : w.to = w.packet.destination

(* Every packet queued for a polled port leaves the egress buffer in the   *)
(* end: no poll gate, extra poll or blocked push keeps it there.           *)
PolledDrain ==
  \A c \in Classes :
    c[1] < PolledPorts => (queues[c] # <<>> ~> queues[c] = <<>>)
=============================================================================
