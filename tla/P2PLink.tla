------------------------------ MODULE P2PLink ------------------------------
(***************************************************************************)
(* Two point-to-point devices, CustomP2PNetDevice                          *)
(* (model/custom-p2p-net-device.cc), attached to one P4P2PChannel          *)
(* (model/p4-p2p-channel.cc): for each direction a bounded device queue, a *)
(* transmit machine with an interframe gap, and a wire with a propagation  *)
(* delay.                                                                  *)
(*                                                                         *)
(* Both devices are attached from the start, and have the same rate and    *)
(* gap, as P4PointToPointHelper (helper/p4-p2p-helper.cc) leaves them, and *)
(* sizes are those on the wire, with the headers SendFrom adds.            *)
(*                                                                         *)
(* The simulator executes the events that TransmitStart schedules in the   *)
(* order of their times, and events of the same time in the order they     *)
(* were scheduled; `in' is the time an event is still away, in ticks.      *)
(***************************************************************************)
EXTENDS Naturals, Sequences, FiniteSets

CONSTANTS
  Devices,        \* the two ends of the link
  Sizes,          \* packet sizes, in bytes
  QueueCapacity,  \* the capacity of m_queue (a drop-tail queue)
  Delay,          \* the channel's m_delay
  ByteTimes,      \* data rates, as ticks per byte
  Gaps,           \* interframe gaps
  MaxPackets,     \* bound: packets accepted in a behaviour
  MaxCalls        \* bound: changes of rate or gap in a behaviour

ASSUME ConstantsAssumption ==
  /\ Sizes \subseteq Nat
  /\ QueueCapacity \in Nat \ {0}
  /\ Delay \in Nat
  /\ ByteTimes \subseteq Nat
  /\ Gaps \subseteq Nat
  /\ MaxPackets \in Nat
  /\ MaxCalls \in Nat

Packets == [id : Nat, size : Sizes]

VARIABLES
  tx_state,   \* m_txMachineState
  current,    \* m_currentPkt: the packet being transmitted, {} for none
  queue,      \* m_queue
  byte_time,  \* m_bps
  gap,        \* m_tInterframeGap
  events,     \* the scheduled TransmitComplete and Receive events
  uid,        \* the number of the next event
  next_id,    \* history: the number of the next packet
  calls       \* history: the number of changes made

settings == <<byte_time, gap>>
device == <<tx_state, current, queue>>
vars == <<device, settings, events, uid, next_id, calls>>

-----------------------------------------------------------------------------
(* Operators.                                                              *)

(* CalculateBytesTxTime. *)
TxTime(d, pkt) == pkt.size * byte_time[d]

(* A scheduled event; tx and gap are the transmission time and the gap its *)
(* packet was started with (history).                                      *)
Event(kind, d, pkt, in, n) ==
  [kind |-> kind, dev |-> d, packet |-> pkt, in |-> in, uid |-> n,
   tx |-> TxTime(d, pkt), gap |-> gap[d]]

(* Faulty variant: the gap is not kept. *)
StartEventsNoGap(d, pkt) ==
  {Event("complete", d, pkt, TxTime(d, pkt), uid),
   Event("receive", d, pkt, TxTime(d, pkt) + Delay, uid + 1)}

(* What TransmitStart of device and channel schedule. *)
StartEvents(d, pkt) ==
  {Event("complete", d, pkt, TxTime(d, pkt) + gap[d], uid),
   Event("receive", d, pkt, TxTime(d, pkt) + Delay, uid + 1)}

(* TransmitStart: the packet occupies the transmitter. *)
TransmitStart(d, pkt, others) ==
  /\ tx_state' = [tx_state EXCEPT ![d] = "BUSY"]
  /\ current' = [current EXCEPT ![d] = {pkt}]
  /\ events' = others \cup StartEvents(d, pkt)
  /\ uid' = uid + 2

(* The event the simulator executes next, when its time has come. *)
IsDue(e) ==
  /\ e.in = 0
  /\ \A f \in events : f.in > 0 \/ e.uid <= f.uid

-----------------------------------------------------------------------------
(* Operations.                                                             *)

Init ==
  /\ tx_state = [d \in Devices |-> "READY"]
  /\ current = [d \in Devices |-> {}]
  /\ queue = [d \in Devices |-> <<>>]
  /\ \E t \in ByteTimes : byte_time = [d \in Devices |-> t]
  /\ \E t \in Gaps : gap = [d \in Devices |-> t]
  /\ events = {}
  /\ uid = 0
  /\ next_id = 0
  /\ calls = 0

(* Faulty variant of Accepts: the capacity is off by one. *)
AcceptsOneMore(d) == Len(queue[d]) <= QueueCapacity

(* m_queue->Enqueue succeeds; otherwise SendFrom drops the packet and      *)
(* changes nothing.                                                        *)
Accepts(d) == Len(queue[d]) < QueueCapacity

(* Faulty variant: SendFrom leaves the start to TransmitComplete. *)
SendFromIdleNoStart(d, pkt) ==
  /\ tx_state[d] = "READY"
  /\ next_id < MaxPackets
  /\ Accepts(d)
  /\ next_id' = next_id + 1
  /\ queue' = [queue EXCEPT ![d] = Append(queue[d], pkt)]
  /\ UNCHANGED <<tx_state, current, events, uid, settings, calls>>

(* SendFrom with an idle transmitter: the head of the queue is transmitted. *)
SendFromIdle(d, pkt) ==
  /\ tx_state[d] = "READY"
  /\ next_id < MaxPackets
  /\ Accepts(d)
  /\ next_id' = next_id + 1
  /\ LET filled == Append(queue[d], pkt)
     IN  /\ queue' = [queue EXCEPT ![d] = Tail(filled)]
         /\ TransmitStart(d, Head(filled), events)
  /\ UNCHANGED <<settings, calls>>

(* Faulty variants: a busy transmitter is started again; the packet goes   *)
(* to the head of the queue.                                               *)
SendFromBusyStarts(d, pkt) ==
  /\ tx_state[d] = "BUSY"
  /\ next_id < MaxPackets
  /\ Accepts(d)
  /\ next_id' = next_id + 1
  /\ TransmitStart(d, pkt, events)
  /\ UNCHANGED <<queue, settings, calls>>
SendFromBusyFirst(d, pkt) ==
  /\ tx_state[d] = "BUSY"
  /\ next_id < MaxPackets
  /\ Accepts(d)
  /\ next_id' = next_id + 1
  /\ queue' = [queue EXCEPT ![d] = <<pkt>> \o @]
  /\ UNCHANGED <<tx_state, current, events, uid, settings, calls>>

(* SendFrom with a busy transmitter. *)
SendFromBusy(d, pkt) ==
  /\ tx_state[d] = "BUSY"
  /\ next_id < MaxPackets
  /\ Accepts(d)
  /\ next_id' = next_id + 1
  /\ queue' = [queue EXCEPT ![d] = Append(queue[d], pkt)]
  /\ UNCHANGED <<tx_state, current, events, uid, settings, calls>>

(* TransmitComplete with more packets in the queue. *)
TransmitNext(e) ==
  /\ e.kind = "complete"
  /\ IsDue(e)
  /\ queue[e.dev] # <<>>
  /\ queue' = [queue EXCEPT ![e.dev] = Tail(queue[e.dev])]
  /\ TransmitStart(e.dev, Head(queue[e.dev]), events \ {e})
  /\ UNCHANGED <<settings, next_id, calls>>

(* TransmitComplete with an empty queue. *)
TransmitIdle(e) ==
  /\ e.kind = "complete"
  /\ IsDue(e)
  /\ queue[e.dev] = <<>>
  /\ tx_state' = [tx_state EXCEPT ![e.dev] = "READY"]
  /\ current' = [current EXCEPT ![e.dev] = {}]
  /\ events' = events \ {e}
  /\ UNCHANGED <<queue, settings, uid, next_id, calls>>

(* Receive at the other end: the packet is handed to the protocol stack,   *)
(* or dropped when the error model says that it is corrupt.                *)
Receive(e) ==
  /\ e.kind = "receive"
  /\ IsDue(e)
  /\ events' = events \ {e}
  /\ UNCHANGED <<device, settings, uid, next_id, calls>>

SetDataRate(d, t) ==
  /\ calls < MaxCalls
  /\ calls' = calls + 1
  /\ byte_time' = [byte_time EXCEPT ![d] = t]
  /\ UNCHANGED <<device, gap, events, uid, next_id>>

SetInterframeGap(d, t) ==
  /\ calls < MaxCalls
  /\ calls' = calls + 1
  /\ gap' = [gap EXCEPT ![d] = t]
  /\ UNCHANGED <<device, byte_time, events, uid, next_id>>

(* An event one tick later. *)
Nearer(e) == [e EXCEPT !.in = e.in - 1]

(* Time passes while no event is due. *)
Tick ==
  /\ events # {}
  /\ \A e \in events : e.in > 0
  /\ events' = {Nearer(e) : e \in events}
  /\ UNCHANGED <<device, settings, uid, next_id, calls>>

SendFrom(d) ==
  \E s \in Sizes : LET pkt == [id |-> next_id, size |-> s]
                   IN  SendFromIdle(d, pkt) \/ SendFromBusy(d, pkt)

Run == \E e \in events : TransmitNext(e) \/ TransmitIdle(e) \/ Receive(e)

Next ==
  \/ \E d \in Devices : SendFrom(d)
  \/ Run
  \/ \E d \in Devices, t \in ByteTimes : SetDataRate(d, t)
  \/ \E d \in Devices, t \in Gaps : SetInterframeGap(d, t)
  \/ Tick

(* Simulator::Run executes events, and moves the clock, while there are    *)
(* events.                                                                 *)
Fairness == WF_vars(Run) /\ WF_vars(Tick)

Spec == Init /\ [][Next]_vars
FairSpec == Spec /\ Fairness

-----------------------------------------------------------------------------
(* Properties.                                                             *)

Events == [kind : {"complete", "receive"}, dev : Devices, packet : Packets,
           in : Nat, uid : Nat, tx : Nat, gap : Nat]

(* Every variable keeps its type, and no queue outgrows its capacity. *)
TypeOK ==
  /\ tx_state \in [Devices -> {"READY", "BUSY"}]
  /\ current \in [Devices -> SUBSET Packets]
  /\ queue \in [Devices -> Seq(Packets)]
  /\ \A d \in Devices : Len(queue[d]) <= QueueCapacity
  /\ byte_time \in [Devices -> ByteTimes]
  /\ gap \in [Devices -> Gaps]
  /\ events \subseteq Events
  /\ uid \in Nat
  /\ next_id \in Nat
  /\ calls \in Nat

Completions(d) == {e \in events : e.kind = "complete" /\ e.dev = d}
Arrivals(d) == {e \in events : e.kind = "receive" /\ e.dev = d}

(* The assertions of TransmitStart and TransmitComplete hold: a busy       *)
(* transmitter waits for exactly one TransmitComplete, of the packet it    *)
(* transmits; an idle one for none.                                        *)
OneTransmission ==
  \A d \in Devices :
    \/ /\ tx_state[d] = "BUSY"
       /\ \E e \in events : Completions(d) = {e} /\ current[d] = {e.packet}
    \/ tx_state[d] = "READY" /\ Completions(d) = {} /\ current[d] = {}

(* No packet waits in the queue of an idle transmitter. *)
NeverIdle == \A d \in Devices : queue[d] # <<>> => tx_state[d] = "BUSY"

(* Packets do not overlap on the wire, and the gap is kept: in each        *)
(* direction, the last bit of a packet arrives its transmission time and   *)
(* the gap after the last bit of the one before it, or later, with the     *)
(* rate and the gap that were set when each of them was started.           *)
NoOverlap ==
  \A d \in Devices : \A e, f \in Arrivals(d) :
    e.uid < f.uid => e.in + e.gap + f.tx <= f.in

(* The packets accepted and not yet arrived. *)
InTransit(d) ==
  {e.packet.id : e \in Arrivals(d)} \cup {queue[d][i].id : i \in DOMAIN queue[d]}

(* The link implements a FIFO for each direction: packets are delivered    *)
(* (or found corrupt) once, in the order SendFrom accepted them, whatever  *)
(* their sizes, and however rate and gap are changed in between.           *)
Fifos ==
  INSTANCE ClassFifos WITH
    Classes <- Devices,
    waiting <- [d \in Devices |-> InTransit(d)],
    ticket <- next_id
ImplementsFifos == Fifos!Spec

(* Every packet SendFrom accepts arrives. *)
AllArrive ==
  \A d \in Devices :
    (Arrivals(d) # {} \/ queue[d] # <<>>)
      ~> (Arrivals(d) = {} /\ queue[d] = <<>>)
=============================================================================
