--------------------------- MODULE P2PLink_proofs ---------------------------
(***************************************************************************)
(* Theorems about P2PLink, for any packet sizes, rates, gaps, delay and    *)
(* queue capacity.                                                         *)
(***************************************************************************)
EXTENDS P2PLink, TLAPS

(* Events are numbered in the order they are scheduled. *)
Uids ==
  /\ \A e \in events : e.uid < uid
  /\ \A e, f \in events : e.uid = f.uid => e = f

(* A packet the transmitter starts when it becomes ready arrives after all *)
(* those on the wire.                                                      *)
WireClear ==
  \A d \in Devices : \A e \in Arrivals(d) :
    /\ tx_state[d] = "READY" => e.in + e.gap <= Delay
    /\ \A c \in Completions(d) : e.in + e.gap <= c.in + Delay

(* In each direction, packets are started in the order of their numbers,   *)
(* and those in the queue are later than those on the wire.                *)
WireOrder ==
  \A d \in Devices : \A e, f \in Arrivals(d) :
    e.packet.id <= f.packet.id => e.uid <= f.uid

QueueOrder ==
  \A d \in Devices : \A i \in DOMAIN queue[d] :
    /\ queue[d][i].id < next_id
    /\ \A j \in DOMAIN queue[d] : i < j => queue[d][i].id < queue[d][j].id
    /\ \A e \in Arrivals(d) : e.packet.id < queue[d][i].id

WireBelow == \A e \in events : e.packet.id < next_id

IInv ==
  /\ TypeOK
  /\ Uids
  /\ OneTransmission
  /\ NeverIdle
  /\ NoOverlap
  /\ WireClear
  /\ WireOrder
  /\ WireBelow
  /\ QueueOrder

-----------------------------------------------------------------------------
(* What TransmitStart schedules. *)
LEMMA StartedEvents ==
  ASSUME TypeOK, NEW d \in Devices, NEW pkt \in Packets,
         NEW c, c = Event("complete", d, pkt, TxTime(d, pkt) + gap[d], uid),
         NEW r, r = Event("receive", d, pkt, TxTime(d, pkt) + Delay, uid + 1)
  PROVE  /\ c \in Events /\ c.kind = "complete" /\ c.dev = d /\ c.packet = pkt
         /\ c.uid = uid
         /\ r \in Events /\ r.kind = "receive" /\ r.dev = d /\ r.packet = pkt
         /\ r.uid = uid + 1
         /\ r.in + r.gap = c.in + Delay
         /\ r.in = r.tx + Delay
<1>1. pkt.size \in Nat /\ byte_time[d] \in Nat /\ gap[d] \in Nat
  BY ConstantsAssumption DEF TypeOK, Packets
<1>2. TxTime(d, pkt) \in Nat
  BY <1>1 DEF TxTime
<1> HIDE DEF TxTime
<1>3. QED
  BY <1>1, <1>2, ConstantsAssumption DEF Event, Events, TypeOK

(* A transmission starts on a device whose transmitter has no completion   *)
(* to wait for, with a packet later than those on the wire.                *)
LEMMA TransmitStartInvariant ==
  ASSUME IInv, NEW d \in Devices, NEW pkt \in Packets,
         NEW others \in SUBSET events,
         \A e \in events : e \in others \/ (e.kind = "complete" /\ e.dev = d),
         \A e \in others : e.kind = "complete" => e.dev # d,
         \A e \in Arrivals(d) : /\ e.in + e.gap <= Delay
                                /\ e.packet.id < pkt.id,
         TransmitStart(d, pkt, others)
  PROVE  /\ tx_state' \in [Devices -> {"READY", "BUSY"}]
         /\ current' \in [Devices -> SUBSET Packets]
         /\ events' \subseteq Events
         /\ uid' \in Nat
         /\ tx_state'[d] = "BUSY"
         /\ \A q \in Devices \ {d} : tx_state'[q] = tx_state[q]
         /\ Uids' /\ OneTransmission' /\ NoOverlap' /\ WireClear' /\ WireOrder'
         /\ \A q \in Devices \ {d} : Arrivals(q)' = Arrivals(q)
         /\ \E r : r.packet = pkt /\ Arrivals(d)' = Arrivals(d) \cup {r}
         /\ \A e \in events' : e \in events \/ e.packet = pkt
<1> DEFINE c == Event("complete", d, pkt, TxTime(d, pkt) + gap[d], uid)
           r == Event("receive", d, pkt, TxTime(d, pkt) + Delay, uid + 1)
<1>0. TypeOK
  BY DEF IInv
<1>1. /\ c \in Events /\ c.kind = "complete" /\ c.dev = d /\ c.packet = pkt
      /\ c.uid = uid
      /\ r \in Events /\ r.kind = "receive" /\ r.dev = d /\ r.packet = pkt
      /\ r.uid = uid + 1
      /\ r.in + r.gap = c.in + Delay
      /\ r.in = r.tx + Delay
  BY <1>0, StartedEvents
<1>2. /\ tx_state' = [tx_state EXCEPT ![d] = "BUSY"]
      /\ current' = [current EXCEPT ![d] = {pkt}]
      /\ events' = others \cup {c, r}
      /\ uid' = uid + 2
  BY DEF TransmitStart, StartEvents
<1> HIDE DEF c, r
<1>3. /\ Completions(d)' = {c}
      /\ Arrivals(d)' = Arrivals(d) \cup {r}
  BY <1>1, <1>2 DEF Completions, Arrivals
<1>4. ASSUME NEW q \in Devices \ {d}
      PROVE  /\ Completions(q)' = Completions(q)
             /\ Arrivals(q)' = Arrivals(q)
  BY <1>1, <1>2 DEF Completions, Arrivals
<1>5. /\ tx_state' \in [Devices -> {"READY", "BUSY"}]
      /\ current' \in [Devices -> SUBSET Packets]
      /\ events' \subseteq Events
      /\ uid' \in Nat
      /\ tx_state'[d] = "BUSY"
      /\ \A q \in Devices \ {d} : tx_state'[q] = tx_state[q]
  BY <1>0, <1>1, <1>2 DEF TypeOK
<1>6. /\ uid \in Nat
      /\ \A e \in events : e \in Events /\ e.uid \in Nat /\ e.uid < uid
  BY <1>0 DEF IInv, Uids, TypeOK, Events
<1>7. Uids'
  BY <1>1, <1>2, <1>6 DEF IInv, Uids
<1>8. OneTransmission'
  <2>1. ASSUME NEW q \in Devices \ {d}
        PROVE  \/ /\ tx_state'[q] = "BUSY"
                  /\ \E e \in events' : /\ Completions(q)' = {e}
                                        /\ current'[q] = {e.packet}
               \/ /\ tx_state'[q] = "READY"
                  /\ Completions(q)' = {}
                  /\ current'[q] = {}
    <3>1. /\ tx_state'[q] = tx_state[q]
          /\ current'[q] = current[q]
      BY <1>0, <1>2 DEF TypeOK
    <3>2. ASSUME NEW e \in events, Completions(q) = {e}
          PROVE  e \in events'
      BY <1>2, <1>4, <3>2 DEF Completions
    <3>3. QED
      BY <1>4, <3>1, <3>2 DEF IInv, OneTransmission
  <2>2. /\ tx_state'[d] = "BUSY"
        /\ c \in events'
        /\ current'[d] = {c.packet}
    BY <1>0, <1>1, <1>2 DEF TypeOK
  <2>3. QED
    BY <1>3, <2>1, <2>2 DEF OneTransmission
<1>9. \A e \in Arrivals(d) : /\ e.in \in Nat /\ e.gap \in Nat /\ e.tx \in Nat
                             /\ e.uid \in Nat /\ e.uid < uid
                             /\ e.packet.id \in Nat
  BY <1>6 DEF Arrivals, Events, Packets
<1>10. r.in \in Nat /\ r.gap \in Nat /\ r.tx \in Nat /\ c.in \in Nat /\ Delay \in Nat
       /\ pkt.id \in Nat
  BY <1>1, ConstantsAssumption DEF Events, Packets
<1>11. NoOverlap'
  <2>1. ASSUME NEW e \in Arrivals(d)', NEW f \in Arrivals(d)', e.uid < f.uid
        PROVE  e.in + e.gap + f.tx <= f.in
    <3>1. CASE e \in Arrivals(d) /\ f \in Arrivals(d)
      BY <2>1, <3>1 DEF IInv, NoOverlap
    <3>2. CASE e \in Arrivals(d) /\ f = r
      BY <1>1, <1>9, <1>10, <3>2
    <3>3. CASE e = r
      BY <1>1, <1>3, <1>6, <1>9, <2>1, <3>3
    <3>4. QED
      BY <1>3, <3>1, <3>2, <3>3
  <2>2. QED
    BY <1>4, <2>1 DEF IInv, NoOverlap
<1>12. WireClear'
  <2>1. ASSUME NEW e \in Arrivals(d)'
        PROVE  e.in + e.gap <= c.in + Delay
    BY <1>1, <1>3, <1>9, <1>10
  <2>2. QED
    BY <1>3, <1>4, <1>5, <2>1 DEF IInv, WireClear
<1>13. WireOrder'
  <2>1. ASSUME NEW e \in Arrivals(d)', NEW f \in Arrivals(d)',
               e.packet.id <= f.packet.id
        PROVE  e.uid <= f.uid
    <3>1. CASE e \in Arrivals(d) /\ f \in Arrivals(d)
      BY <2>1, <3>1 DEF IInv, WireOrder
    <3>2. CASE e \in Arrivals(d) /\ f = r
      BY <1>1, <1>6, <1>9, <3>2
    <3>3. CASE e = r /\ f \in Arrivals(d)
      BY <1>1, <1>9, <1>10, <2>1, <3>3
    <3>4. CASE e = r /\ f = r
      BY <1>1, <1>6, <3>4
    <3>5. QED
      BY <1>3, <3>1, <3>2, <3>3, <3>4
  <2>2. QED
    BY <1>4, <2>1 DEF IInv, WireOrder
<1>14. \A e \in events' : e \in events \/ e.packet = pkt
  BY <1>1, <1>2
<1>15. QED
  BY <1>1, <1>3, <1>4, <1>5, <1>7, <1>8, <1>11, <1>12, <1>13, <1>14

LEMMA TailFacts ==
  ASSUME NEW S, NEW s \in Seq(S), s # <<>>
  PROVE  /\ Head(s) = s[1] /\ 1 \in DOMAIN s /\ Head(s) \in S
         /\ Tail(s) \in Seq(S) /\ Len(Tail(s)) <= Len(s)
         /\ \A i \in DOMAIN Tail(s) : i + 1 \in DOMAIN s /\ Tail(s)[i] = s[i + 1]
  OBVIOUS

LEMMA AppendFacts ==
  ASSUME NEW S, NEW s \in Seq(S), NEW x \in S
  PROVE  /\ Append(s, x) \in Seq(S) /\ Len(Append(s, x)) = Len(s) + 1
         /\ \A i \in DOMAIN Append(s, x) :
              \/ i \in DOMAIN s /\ Append(s, x)[i] = s[i]
              \/ i = Len(s) + 1 /\ Append(s, x)[i] = x
         /\ s = <<>> => Head(Append(s, x)) = x /\ Tail(Append(s, x)) = <<>>
  OBVIOUS

LEMMA QueuedPackets ==
  ASSUME TypeOK, NEW d \in Devices, NEW i \in DOMAIN queue[d]
  PROVE  queue[d][i] \in Packets /\ queue[d][i].id \in Nat
<1>1. queue[d] \in Seq(Packets)
  BY DEF TypeOK
<1>2. queue[d][i] \in Packets
  BY <1>1
<1>3. QED
  BY <1>2 DEF Packets

LEMMA InitInvariant == Init => IInv
<1> SUFFICES ASSUME Init PROVE IInv
  OBVIOUS
<1>1. TypeOK
  BY ConstantsAssumption DEF Init, TypeOK
<1>2. OneTransmission /\ NeverIdle
  BY DEF Init, OneTransmission, NeverIdle, Completions
<1>3. Uids /\ NoOverlap /\ WireClear /\ WireOrder /\ WireBelow
  BY DEF Init, Uids, NoOverlap, WireClear, WireOrder, WireBelow, Arrivals
<1>4. QueueOrder
  BY DEF Init, QueueOrder
<1>5. QED
  BY <1>1, <1>2, <1>3, <1>4 DEF IInv

LEMMA SendFromIdleInvariant ==
  ASSUME IInv, NEW d \in Devices, NEW pkt \in Packets, pkt.id = next_id,
         SendFromIdle(d, pkt)
  PROVE  IInv'
<1>1. queue[d] = <<>> /\ queue[d] \in Seq(Packets)
  BY DEF IInv, NeverIdle, SendFromIdle, TypeOK
<1>2. Head(Append(queue[d], pkt)) = pkt /\ Tail(Append(queue[d], pkt)) = <<>>
  BY <1>1, AppendFacts
<1>3. /\ TransmitStart(d, pkt, events)
      /\ queue' = queue
      /\ next_id' = next_id + 1
      /\ UNCHANGED <<settings, calls>>
  BY <1>1, <1>2 DEF SendFromIdle, IInv, TypeOK
<1>4. \A e \in events : e.kind = "complete" => e.dev # d
  BY DEF IInv, OneTransmission, Completions, SendFromIdle
<1>5. \A e \in Arrivals(d) : e.in + e.gap <= Delay /\ e.packet.id < pkt.id
  BY DEF IInv, WireClear, WireBelow, SendFromIdle, Arrivals
<1>6. /\ tx_state' \in [Devices -> {"READY", "BUSY"}]
      /\ current' \in [Devices -> SUBSET Packets]
      /\ events' \subseteq Events
      /\ uid' \in Nat
      /\ tx_state'[d] = "BUSY"
      /\ \A q \in Devices \ {d} : tx_state'[q] = tx_state[q]
      /\ Uids' /\ OneTransmission' /\ NoOverlap' /\ WireClear' /\ WireOrder'
      /\ \A q \in Devices \ {d} : Arrivals(q)' = Arrivals(q)
      /\ \A e \in events' : e \in events \/ e.packet = pkt
  BY <1>3, <1>4, <1>5, TransmitStartInvariant
<1>7. TypeOK'
  BY <1>3, <1>6 DEF IInv, TypeOK, settings
<1>8. NeverIdle'
  BY <1>1, <1>3, <1>6 DEF IInv, NeverIdle
<1>9. next_id \in Nat /\ \A e \in events : e.packet.id \in Nat
  BY DEF IInv, TypeOK, Events, Packets
<1>10. WireBelow'
  BY <1>3, <1>6, <1>9 DEF IInv, WireBelow
<1>11. QueueOrder'
  <2>1. ASSUME NEW q \in Devices \ {d}, NEW i \in DOMAIN queue[q]
        PROVE  queue[q][i].id < next_id'
    <3>1. queue[q][i].id \in Nat
      BY QueuedPackets DEF IInv
    <3>2. queue[q][i].id < next_id
      BY DEF IInv, QueueOrder
    <3>3. QED
      BY <1>3, <1>9, <3>1, <3>2
  <2>2. QED
    BY <1>1, <1>3, <1>6, <2>1 DEF IInv, QueueOrder
<1>12. QED
  BY <1>6, <1>7, <1>8, <1>10, <1>11 DEF IInv

LEMMA SendFromBusyInvariant ==
  ASSUME IInv, NEW d \in Devices, NEW pkt \in Packets, pkt.id = next_id,
         SendFromBusy(d, pkt)
  PROVE  IInv'
<1>1. /\ tx_state[d] = "BUSY"
      /\ Len(queue[d]) < QueueCapacity
      /\ queue' = [queue EXCEPT ![d] = Append(queue[d], pkt)]
      /\ next_id' = next_id + 1
      /\ UNCHANGED <<tx_state, current, events, uid, settings, calls>>
  BY DEF SendFromBusy, Accepts
<1>2. queue[d] \in Seq(Packets) /\ next_id \in Nat
  BY DEF IInv, TypeOK
<1>3. /\ queue'[d] \in Seq(Packets) /\ Len(queue'[d]) = Len(queue[d]) + 1
      /\ \A i \in DOMAIN queue'[d] :
           \/ i \in DOMAIN queue[d] /\ queue'[d][i] = queue[d][i]
           \/ i = Len(queue[d]) + 1 /\ queue'[d][i] = pkt
      /\ \A q \in Devices \ {d} : queue'[q] = queue[q]
  BY <1>1, <1>2, AppendFacts DEF IInv, TypeOK
<1>4. TypeOK'
  <2>1. Len(queue'[d]) <= QueueCapacity
    BY <1>1, <1>2, <1>3, ConstantsAssumption
  <2>2. QED
    BY <1>1, <1>2, <1>3, <2>1 DEF IInv, TypeOK, settings
<1>5. OneTransmission' /\ Uids' /\ NoOverlap' /\ WireClear' /\ WireOrder'
  BY <1>1 DEF IInv, OneTransmission, Uids, NoOverlap, WireClear, WireOrder,
              Completions, Arrivals
<1>6. NeverIdle'
  BY <1>1, <1>3 DEF IInv, NeverIdle
<1>7. \A e \in events : e.packet.id \in Nat /\ e.packet.id < next_id
  BY DEF IInv, TypeOK, Events, Packets, WireBelow
<1>8. WireBelow'
  BY <1>1, <1>2, <1>7 DEF WireBelow
<1>9. \A q \in Devices : Arrivals(q)' = Arrivals(q)
  BY <1>1 DEF Arrivals
<1>10. ASSUME NEW q \in Devices, NEW i \in DOMAIN queue[q]
       PROVE  /\ queue[q][i].id \in Nat
              /\ queue[q][i].id < next_id
              /\ queue[q][i].id < next_id'
  <2>1. queue[q][i].id \in Nat
    BY QueuedPackets DEF IInv
  <2>2. queue[q][i].id < next_id
    BY DEF IInv, QueueOrder
  <2>3. QED
    BY <1>1, <1>2, <2>1, <2>2
<1>11. QueueOrder'
  <2>1. ASSUME NEW i \in DOMAIN queue'[d]
        PROVE  /\ queue'[d][i].id < next_id'
               /\ \A j \in DOMAIN queue'[d] :
                    i < j => queue'[d][i].id < queue'[d][j].id
               /\ \A e \in Arrivals(d) : e.packet.id < queue'[d][i].id
    <3>1. CASE i \in DOMAIN queue[d] /\ queue'[d][i] = queue[d][i]
      BY <1>2, <1>3, <1>10, <3>1 DEF IInv, QueueOrder
    <3>2. CASE i = Len(queue[d]) + 1 /\ queue'[d][i] = pkt
      <4>1. \A j \in DOMAIN queue'[d] : ~(i < j)
        BY <1>2, <1>3, <3>2
      <4>2. QED
        BY <1>1, <1>2, <1>7, <3>2, <4>1 DEF Arrivals
    <3>3. QED
      BY <1>3, <3>1, <3>2
  <2>2. QED
    BY <1>3, <1>9, <1>10, <2>1 DEF IInv, QueueOrder
<1>12. QED
  BY <1>4, <1>5, <1>6, <1>8, <1>11 DEF IInv

LEMMA TransmitNextInvariant ==
  ASSUME IInv, NEW e \in events, TransmitNext(e)
  PROVE  IInv'
<1> DEFINE d == e.dev
           pkt == Head(queue[d])
<1>1. /\ e.kind = "complete" /\ e.in = 0
      /\ queue[d] # <<>>
      /\ queue' = [queue EXCEPT ![d] = Tail(queue[d])]
      /\ TransmitStart(d, pkt, events \ {e})
      /\ UNCHANGED <<settings, next_id, calls>>
  BY DEF TransmitNext, IsDue
<1>2. d \in Devices /\ e \in Completions(d) /\ queue[d] \in Seq(Packets)
  BY <1>1 DEF IInv, TypeOK, Events, Completions
<1>3. /\ pkt = queue[d][1] /\ 1 \in DOMAIN queue[d] /\ pkt \in Packets
      /\ Tail(queue[d]) \in Seq(Packets)
      /\ Len(Tail(queue[d])) <= Len(queue[d])
      /\ \A i \in DOMAIN Tail(queue[d]) :
           i + 1 \in DOMAIN queue[d] /\ Tail(queue[d])[i] = queue[d][i + 1]
  BY <1>1, <1>2, TailFacts
<1> HIDE DEF d, pkt
<1>4. /\ queue'[d] = Tail(queue[d])
      /\ \A q \in Devices \ {d} : queue'[q] = queue[q]
  BY <1>1, <1>2 DEF IInv, TypeOK
<1>5. Completions(d) = {e}
  BY <1>2 DEF IInv, OneTransmission
<1>6. /\ \A f \in events : f \in events \ {e} \/ (f.kind = "complete" /\ f.dev = d)
      /\ \A f \in events \ {e} : f.kind = "complete" => f.dev # d
  BY <1>2, <1>5 DEF Completions
<1>7. \A f \in Arrivals(d) : f.in + f.gap <= Delay /\ f.packet.id < pkt.id
  <2>1. ASSUME NEW f \in Arrivals(d)
        PROVE  f.in + f.gap <= Delay
    <3>1. f.in + f.gap <= e.in + Delay
      BY <1>2 DEF IInv, WireClear
    <3>2. QED
      BY <1>1, <3>1, ConstantsAssumption
  <2>2. QED
    BY <1>2, <1>3, <2>1 DEF IInv, QueueOrder
<1>8. /\ tx_state' \in [Devices -> {"READY", "BUSY"}]
      /\ current' \in [Devices -> SUBSET Packets]
      /\ events' \subseteq Events
      /\ uid' \in Nat
      /\ tx_state'[d] = "BUSY"
      /\ \A q \in Devices \ {d} : tx_state'[q] = tx_state[q]
      /\ Uids' /\ OneTransmission' /\ NoOverlap' /\ WireClear' /\ WireOrder'
      /\ \A q \in Devices \ {d} : Arrivals(q)' = Arrivals(q)
      /\ \E r : r.packet = pkt /\ Arrivals(d)' = Arrivals(d) \cup {r}
      /\ \A f \in events' : f \in events \/ f.packet = pkt
  <2>1. PICK others : others = events \ {e}
    OBVIOUS
  <2>2. /\ others \in SUBSET events
        /\ \A f \in events : f \in others \/ (f.kind = "complete" /\ f.dev = d)
        /\ \A f \in others : f.kind = "complete" => f.dev # d
        /\ TransmitStart(d, pkt, others)
    BY <1>1, <1>6, <2>1
  <2>3. QED
    BY <1>2, <1>3, <1>7, <2>2, TransmitStartInvariant
<1>9. TypeOK'
  <2>1. \A q \in Devices : queue'[q] \in Seq(Packets) /\ Len(queue'[q]) <= QueueCapacity
    <3>1. Len(queue[d]) \in Nat /\ Len(queue[d]) <= QueueCapacity
      BY <1>2 DEF IInv, TypeOK
    <3>2. Len(Tail(queue[d])) \in Nat
      BY <1>3
    <3>3. Len(Tail(queue[d])) <= QueueCapacity
      BY <1>3, <3>1, <3>2, ConstantsAssumption
    <3>4. ASSUME NEW q \in Devices \ {d}
          PROVE  queue'[q] \in Seq(Packets) /\ Len(queue'[q]) <= QueueCapacity
      BY <1>4 DEF IInv, TypeOK
    <3>5. QED
      BY <1>3, <1>4, <3>3, <3>4
  <2>2. queue' \in [Devices -> Seq(Packets)]
    BY <1>1, <2>1 DEF IInv, TypeOK
  <2>3. QED
    BY <1>1, <1>8, <2>1, <2>2 DEF IInv, TypeOK, settings
<1>10. NeverIdle'
  BY <1>4, <1>8 DEF IInv, NeverIdle
<1>11. WireBelow'
  BY <1>1, <1>2, <1>3, <1>8 DEF IInv, WireBelow, QueueOrder
<1>12. QueueOrder'
  <2>1. ASSUME NEW i \in DOMAIN queue'[d]
        PROVE  /\ queue'[d][i].id < next_id'
               /\ \A j \in DOMAIN queue'[d] :
                    i < j => queue'[d][i].id < queue'[d][j].id
               /\ \A f \in Arrivals(d)' : f.packet.id < queue'[d][i].id
    <3>1. i + 1 \in DOMAIN queue[d] /\ queue'[d][i] = queue[d][i + 1] /\ i \in Nat \ {0}
      BY <1>3, <1>4
    <3>2. queue'[d][i].id < next_id'
      BY <1>1, <1>2, <3>1 DEF IInv, QueueOrder
    <3>3. ASSUME NEW j \in DOMAIN queue'[d], i < j
          PROVE  queue'[d][i].id < queue'[d][j].id
      <4>1. /\ j + 1 \in DOMAIN queue[d] /\ queue'[d][j] = queue[d][j + 1]
            /\ i + 1 < j + 1
        BY <1>3, <1>4, <3>1, <3>3
      <4>2. QED
        BY <1>2, <3>1, <4>1 DEF IInv, QueueOrder
    <3>4. pkt.id < queue'[d][i].id
      BY <1>2, <1>3, <3>1 DEF IInv, QueueOrder
    <3>5. \A f \in Arrivals(d) : f.packet.id < queue'[d][i].id
      BY <1>2, <3>1 DEF IInv, QueueOrder
    <3>6. QED
      BY <1>8, <3>2, <3>3, <3>4, <3>5
  <2>2. QED
    BY <1>1, <1>4, <1>8, <2>1 DEF IInv, QueueOrder
<1>13. QED
  BY <1>8, <1>9, <1>10, <1>11, <1>12 DEF IInv

(* Events that are removed, other than a completion of a busy device,      *)
(* disturb nothing.                                                        *)
LEMMA ReceiveInvariant ==
  ASSUME IInv, NEW e \in events, Receive(e)
  PROVE  IInv'
<1>1. /\ e.kind = "receive"
      /\ events' = events \ {e}
      /\ UNCHANGED <<tx_state, current, queue, byte_time, gap, uid, next_id, calls>>
  BY DEF Receive, device, settings
<1>2. \A d \in Devices : /\ Completions(d)' = Completions(d)
                         /\ Arrivals(d)' \subseteq Arrivals(d)
  BY <1>1 DEF Completions, Arrivals
<1>3. TypeOK' /\ Uids' /\ NeverIdle' /\ WireBelow'
  BY <1>1 DEF IInv, TypeOK, Uids, NeverIdle, WireBelow
<1>4. OneTransmission'
  BY <1>1, <1>2 DEF IInv, OneTransmission, Completions
<1>5. NoOverlap' /\ WireOrder'
  BY <1>2 DEF IInv, NoOverlap, WireOrder
<1>6. WireClear'
  BY <1>1, <1>2 DEF IInv, WireClear
<1>7. QueueOrder'
  BY <1>1, <1>2 DEF IInv, QueueOrder
<1>8. QED
  BY <1>3, <1>4, <1>5, <1>6, <1>7 DEF IInv

LEMMA TransmitIdleInvariant ==
  ASSUME IInv, NEW e \in events, TransmitIdle(e)
  PROVE  IInv'
<1> DEFINE d == e.dev
<1>1. /\ e.kind = "complete" /\ e.in = 0
      /\ queue[d] = <<>>
      /\ tx_state' = [tx_state EXCEPT ![d] = "READY"]
      /\ current' = [current EXCEPT ![d] = {}]
      /\ events' = events \ {e}
      /\ UNCHANGED <<queue, byte_time, gap, uid, next_id, calls>>
  BY DEF TransmitIdle, IsDue, settings
<1>2. d \in Devices /\ e \in Completions(d)
  BY <1>1 DEF IInv, TypeOK, Events, Completions
<1> HIDE DEF d
<1>3. Completions(d) = {e}
  BY <1>2 DEF IInv, OneTransmission
<1>4. /\ Completions(d)' = {}
      /\ \A q \in Devices \ {d} : Completions(q)' = Completions(q)
      /\ \A q \in Devices : Arrivals(q)' = Arrivals(q)
  BY <1>1, <1>2, <1>3 DEF Completions, Arrivals
<1>5. /\ tx_state'[d] = "READY" /\ current'[d] = {}
      /\ \A q \in Devices \ {d} : tx_state'[q] = tx_state[q] /\ current'[q] = current[q]
  BY <1>1, <1>2 DEF IInv, TypeOK
<1>6. TypeOK' /\ Uids' /\ WireBelow'
  BY <1>1, <1>2 DEF IInv, TypeOK, Uids, WireBelow
<1>7. OneTransmission'
  <2>1. ASSUME NEW q \in Devices \ {d}, NEW f \in events, Completions(q) = {f}
        PROVE  f \in events'
    BY <1>1, <1>4, <2>1 DEF Completions
  <2>2. QED
    BY <1>4, <1>5, <2>1 DEF IInv, OneTransmission
<1>8. NeverIdle'
  BY <1>1, <1>5 DEF IInv, NeverIdle
<1>9. NoOverlap' /\ WireOrder'
  BY <1>4 DEF IInv, NoOverlap, WireOrder
<1>10. WireClear'
  <2>1. ASSUME NEW f \in Arrivals(d)
        PROVE  f.in + f.gap <= Delay
    <3>1. f.in + f.gap <= e.in + Delay
      BY <1>2 DEF IInv, WireClear
    <3>2. QED
      BY <1>1, <3>1, ConstantsAssumption
  <2>2. QED
    BY <1>4, <1>5, <2>1 DEF IInv, WireClear
<1>11. QueueOrder'
  BY <1>1, <1>4 DEF IInv, QueueOrder
<1>12. QED
  BY <1>6, <1>7, <1>8, <1>9, <1>10, <1>11 DEF IInv

(* A change of rate or gap leaves what is scheduled alone. *)
LEMMA SettingInvariant ==
  ASSUME IInv, TypeOK', UNCHANGED <<device, events, uid, next_id>>
  PROVE  IInv'
<1>1. UNCHANGED <<tx_state, current, queue, events, uid, next_id>>
  BY DEF device
<1>2. \A d \in Devices : /\ Completions(d)' = Completions(d)
                         /\ Arrivals(d)' = Arrivals(d)
  BY <1>1 DEF Completions, Arrivals
<1>3. QED
  BY <1>1, <1>2 DEF IInv, Uids, OneTransmission, NeverIdle, NoOverlap, WireClear,
                    WireOrder, WireBelow, QueueOrder

LEMMA NearerFacts ==
  ASSUME NEW e \in Events, e.in > 0
  PROVE  /\ Nearer(e) \in Events
         /\ Nearer(e).kind = e.kind /\ Nearer(e).dev = e.dev
         /\ Nearer(e).packet = e.packet /\ Nearer(e).uid = e.uid
         /\ Nearer(e).tx = e.tx /\ Nearer(e).gap = e.gap
         /\ Nearer(e).in = e.in - 1
  BY DEF Nearer, Events

(* Time moves every event alike. *)
LEMMA TickInvariant ==
  ASSUME IInv, Tick
  PROVE  IInv'
<1>1. /\ \A e \in events : e \in Events /\ e.in > 0
      /\ events' = {Nearer(e) : e \in events}
      /\ UNCHANGED <<tx_state, current, queue, byte_time, gap, uid, next_id, calls>>
  BY DEF Tick, device, settings, IInv, TypeOK
<1>2. \A e \in events :
        /\ Nearer(e) \in Events
        /\ Nearer(e).kind = e.kind /\ Nearer(e).dev = e.dev
        /\ Nearer(e).packet = e.packet /\ Nearer(e).uid = e.uid
        /\ Nearer(e).tx = e.tx /\ Nearer(e).gap = e.gap
        /\ Nearer(e).in = e.in - 1
  BY <1>1, NearerFacts
<1>3. \A e \in events : e.in \in Nat /\ e.gap \in Nat /\ e.tx \in Nat
  BY <1>1 DEF Events
<1> HIDE DEF Nearer
<1>4. \A d \in Devices :
        /\ Completions(d)' = {Nearer(e) : e \in Completions(d)}
        /\ Arrivals(d)' = {Nearer(e) : e \in Arrivals(d)}
  BY <1>1, <1>2 DEF Completions, Arrivals
<1>5. \A d \in Devices : Completions(d) \subseteq events /\ Arrivals(d) \subseteq events
  BY DEF Completions, Arrivals
<1>6. TypeOK'
  BY <1>1, <1>2 DEF IInv, TypeOK
<1>7. Uids'
  BY <1>1, <1>2 DEF IInv, Uids
<1>8. OneTransmission'
  <2>1. ASSUME NEW d \in Devices, NEW e \in events,
               Completions(d) = {e}, current[d] = {e.packet}
        PROVE  \E f \in events' : Completions(d)' = {f} /\ current'[d] = {f.packet}
    <3>1. Nearer(e) \in events' /\ Nearer(e).packet = e.packet
      BY <1>1, <1>2
    <3>2. Completions(d)' = {Nearer(e)}
      BY <1>4, <2>1
    <3>3. QED
      BY <1>1, <2>1, <3>1, <3>2
  <2>2. \A d \in Devices : Completions(d) = {} => Completions(d)' = {}
    BY <1>4
  <2>3. QED
    BY <1>1, <2>1, <2>2 DEF IInv, OneTransmission
<1>9. NeverIdle'
  BY <1>1 DEF IInv, NeverIdle
<1>10. NoOverlap'
  <2>1. ASSUME NEW d \in Devices, NEW e \in Arrivals(d), NEW f \in Arrivals(d),
               Nearer(e).uid < Nearer(f).uid
        PROVE  Nearer(e).in + Nearer(e).gap + Nearer(f).tx <= Nearer(f).in
    <3>1. e \in events /\ f \in events
      BY <1>5
    <3>2. e.in + e.gap + f.tx <= f.in
      BY <1>2, <2>1, <3>1 DEF IInv, NoOverlap
    <3>3. QED
      BY <1>1, <1>2, <1>3, <3>1, <3>2
  <2>2. QED
    BY <1>4, <2>1 DEF NoOverlap
<1>11. WireClear'
  <2>1. ASSUME NEW d \in Devices, NEW e \in Arrivals(d)
        PROVE  /\ tx_state[d] = "READY" => Nearer(e).in + Nearer(e).gap <= Delay
               /\ \A c \in Completions(d) :
                    Nearer(e).in + Nearer(e).gap <= Nearer(c).in + Delay
    <3>1. e \in events /\ \A c \in Completions(d) : c \in events
      BY <1>5
    <3>2. /\ tx_state[d] = "READY" => e.in + e.gap <= Delay
          /\ \A c \in Completions(d) : e.in + e.gap <= c.in + Delay
      BY DEF IInv, WireClear
    <3>3. tx_state[d] = "READY" => Nearer(e).in + Nearer(e).gap <= Delay
      BY <1>1, <1>2, <1>3, <3>1, <3>2, ConstantsAssumption
    <3>4. ASSUME NEW c \in Completions(d)
          PROVE  Nearer(e).in + Nearer(e).gap <= Nearer(c).in + Delay
      BY <1>1, <1>2, <1>3, <3>1, <3>2, ConstantsAssumption
    <3>5. QED
      BY <3>3, <3>4
  <2>2. QED
    BY <1>1, <1>4, <2>1 DEF WireClear
<1>12. WireOrder'
  <2>1. ASSUME NEW d \in Devices, NEW e \in Arrivals(d), NEW f \in Arrivals(d),
               Nearer(e).packet.id <= Nearer(f).packet.id
        PROVE  Nearer(e).uid <= Nearer(f).uid
    BY <1>2, <1>5, <2>1 DEF IInv, WireOrder
  <2>2. QED
    BY <1>4, <2>1 DEF WireOrder
<1>13. WireBelow'
  BY <1>1, <1>2 DEF IInv, WireBelow
<1>14. QueueOrder'
  <2>1. \A d \in Devices : \A f \in Arrivals(d)' :
          \E e \in Arrivals(d) : f.packet = e.packet
    BY <1>2, <1>4, <1>5
  <2>2. QED
    BY <1>1, <2>1 DEF IInv, QueueOrder
<1>15. QED
  BY <1>6, <1>7, <1>8, <1>9, <1>10, <1>11, <1>12, <1>13, <1>14 DEF IInv

LEMMA StepInvariant == IInv /\ [Next]_vars => IInv'
<1> SUFFICES ASSUME IInv, [Next]_vars PROVE IInv'
  OBVIOUS
<1>1. ASSUME NEW d \in Devices, SendFrom(d)
      PROVE  IInv'
  <2>1. PICK s \in Sizes : \/ SendFromIdle(d, [id |-> next_id, size |-> s])
                          \/ SendFromBusy(d, [id |-> next_id, size |-> s])
    BY <1>1 DEF SendFrom
  <2> DEFINE pkt == [id |-> next_id, size |-> s]
  <2>2. pkt \in Packets /\ pkt.id = next_id
    BY DEF IInv, TypeOK, Packets
  <2> HIDE DEF pkt
  <2>3. SendFromIdle(d, pkt) \/ SendFromBusy(d, pkt)
    BY <2>1 DEF pkt
  <2>4. QED
    BY <2>2, <2>3, SendFromIdleInvariant, SendFromBusyInvariant
<1>2. CASE Run
  BY <1>2, TransmitNextInvariant, TransmitIdleInvariant, ReceiveInvariant DEF Run
<1>3. ASSUME NEW d \in Devices, NEW t \in ByteTimes, SetDataRate(d, t)
      PROVE  IInv'
  <2>1. TypeOK' /\ UNCHANGED <<device, events, uid, next_id>>
    BY <1>3 DEF IInv, TypeOK, SetDataRate, device
  <2>2. QED
    BY <2>1, SettingInvariant
<1>4. ASSUME NEW d \in Devices, NEW t \in Gaps, SetInterframeGap(d, t)
      PROVE  IInv'
  <2>1. TypeOK' /\ UNCHANGED <<device, events, uid, next_id>>
    BY <1>4 DEF IInv, TypeOK, SetInterframeGap, device
  <2>2. QED
    BY <2>1, SettingInvariant
<1>5. CASE Tick
  BY <1>5, TickInvariant
<1>6. CASE UNCHANGED vars
  <2>1. TypeOK' /\ UNCHANGED <<device, events, uid, next_id>>
    BY <1>6 DEF IInv, TypeOK, vars, device, settings
  <2>2. QED
    BY <2>1, SettingInvariant
<1>7. QED
  BY <1>1, <1>2, <1>3, <1>4, <1>5, <1>6 DEF Next

(* The inductive invariant holds in every reachable state. *)
THEOREM Invariant == Spec => []IInv
  BY InitInvariant, StepInvariant, PTL DEF Spec

(* Every variable keeps its type, and m_queue never exceeds its capacity. *)
THEOREM TypeCorrect == Spec => []TypeOK
<1>1. IInv => TypeOK
  BY DEF IInv
<1>2. QED
  BY <1>1, Invariant, PTL

(* The assertions of TransmitStart and TransmitComplete never fail: a busy *)
(* device has one completion pending, that of m_currentPkt, an idle one    *)
(* none.                                                                   *)
THEOREM TransmissionsCorrect == Spec => []OneTransmission
<1>1. IInv => OneTransmission
  BY DEF IInv
<1>2. QED
  BY <1>1, Invariant, PTL

(* No packet is left in m_queue while the transmitter is idle. *)
THEOREM NeverIdleCorrect == Spec => []NeverIdle
<1>1. IInv => NeverIdle
  BY DEF IInv
<1>2. QED
  BY <1>1, Invariant, PTL

(* Packets of one direction never overlap, and the interframe gap is kept, *)
(* whatever changes of rate and gap happen while packets are on the way.   *)
THEOREM NoOverlapCorrect == Spec => []NoOverlap
<1>1. IInv => NoOverlap
  BY DEF IInv
<1>2. QED
  BY <1>1, Invariant, PTL
-----------------------------------------------------------------------------
(* Arrivals and queues as the FIFOs see them. *)

LEMMA StartedArrival ==
  ASSUME TypeOK, NEW d \in Devices, NEW pkt \in Packets,
         NEW others \in SUBSET events,
         \A e \in events : e \in others \/ e.kind = "complete",
         TransmitStart(d, pkt, others)
  PROVE  /\ \E r : r.packet = pkt /\ Arrivals(d)' = Arrivals(d) \cup {r}
         /\ \A q \in Devices \ {d} : Arrivals(q)' = Arrivals(q)
<1> DEFINE c == Event("complete", d, pkt, TxTime(d, pkt) + gap[d], uid)
           r == Event("receive", d, pkt, TxTime(d, pkt) + Delay, uid + 1)
<1>1. /\ c.kind = "complete" /\ c.dev = d
      /\ r.kind = "receive" /\ r.dev = d /\ r.packet = pkt
  BY StartedEvents
<1>2. events' = others \cup {c, r}
  BY DEF TransmitStart, StartEvents
<1> HIDE DEF c, r
<1>3. Arrivals(d)' = Arrivals(d) \cup {r}
  BY <1>1, <1>2 DEF Arrivals
<1>4. \A q \in Devices \ {d} : Arrivals(q)' = Arrivals(q)
  BY <1>1, <1>2 DEF Arrivals
<1>5. QED
  BY <1>1, <1>3, <1>4

LEMMA TailElements ==
  ASSUME NEW S, NEW s \in Seq(S), s # <<>>, NEW i \in DOMAIN s
  PROVE  \/ s[i] = Head(s)
         \/ \E j \in DOMAIN Tail(s) : Tail(s)[j] = s[i]
<1>1. CASE i = 1
  BY <1>1
<1>2. CASE i # 1
  <2>1. i - 1 \in DOMAIN Tail(s) /\ Tail(s)[i - 1] = s[i]
    BY <1>2
  <2>2. QED
    BY <2>1
<1>3. QED
  BY <1>1, <1>2

LEMMA AppendElements ==
  ASSUME NEW S, NEW s \in Seq(S), NEW x \in S
  PROVE  /\ \A i \in DOMAIN s : i \in DOMAIN Append(s, x) /\ Append(s, x)[i] = s[i]
         /\ Len(s) + 1 \in DOMAIN Append(s, x) /\ Append(s, x)[Len(s) + 1] = x
  OBVIOUS

LEMMA AcceptStep ==
  ASSUME NEW d \in Devices,
         InTransit(d)' = InTransit(d) \cup {next_id},
         \A q \in Devices \ {d} : InTransit(q)' = InTransit(q),
         next_id' = next_id + 1
  PROVE  Fifos!Next
<1> DEFINE before == [q \in Devices |-> InTransit(q)]
           after == [q \in Devices |-> InTransit(q)']
<1>1. after = [before EXCEPT ![d] = before[d] \cup {next_id}]
  OBVIOUS
<1>2. QED
  BY <1>1 DEF Fifos!Next, Fifos!Accept

LEMMA ReleaseStep ==
  ASSUME NEW d \in Devices, NEW t \in InTransit(d),
         \A u \in InTransit(d) : t <= u,
         InTransit(d)' = InTransit(d) \ {t},
         \A q \in Devices \ {d} : InTransit(q)' = InTransit(q),
         next_id' = next_id
  PROVE  Fifos!Next
<1> DEFINE before == [q \in Devices |-> InTransit(q)]
           after == [q \in Devices |-> InTransit(q)']
<1>1. /\ after = [before EXCEPT ![d] = before[d] \ {t}]
      /\ t \in before[d] /\ \A u \in before[d] : t <= u
  OBVIOUS
<1>2. QED
  BY <1>1 DEF Fifos!Next, Fifos!Release

LEMMA SendFromIdleAccepts ==
  ASSUME IInv, NEW d \in Devices, NEW pkt \in Packets, pkt.id = next_id,
         SendFromIdle(d, pkt)
  PROVE  Fifos!Next
<1>1. queue[d] = <<>> /\ queue[d] \in Seq(Packets)
  BY DEF IInv, NeverIdle, SendFromIdle, TypeOK
<1>2. Head(Append(queue[d], pkt)) = pkt /\ Tail(Append(queue[d], pkt)) = <<>>
  BY <1>1, AppendFacts
<1>3. /\ TransmitStart(d, pkt, events)
      /\ queue' = queue
      /\ next_id' = next_id + 1
  BY <1>1, <1>2 DEF SendFromIdle, IInv, TypeOK
<1>4. /\ \E r : r.packet = pkt /\ Arrivals(d)' = Arrivals(d) \cup {r}
      /\ \A q \in Devices \ {d} : Arrivals(q)' = Arrivals(q)
  BY <1>3, StartedArrival DEF IInv
<1>5. /\ InTransit(d)' = InTransit(d) \cup {next_id}
      /\ \A q \in Devices \ {d} : InTransit(q)' = InTransit(q)
  BY <1>3, <1>4 DEF InTransit
<1>6. QED
  BY <1>3, <1>5, AcceptStep

LEMMA SendFromBusyAccepts ==
  ASSUME IInv, NEW d \in Devices, NEW pkt \in Packets, pkt.id = next_id,
         SendFromBusy(d, pkt)
  PROVE  Fifos!Next
<1>1. /\ queue' = [queue EXCEPT ![d] = Append(queue[d], pkt)]
      /\ next_id' = next_id + 1
      /\ events' = events
  BY DEF SendFromBusy
<1>2. queue[d] \in Seq(Packets)
  BY DEF IInv, TypeOK
<1>3. /\ \A i \in DOMAIN queue'[d] :
           \/ i \in DOMAIN queue[d] /\ queue'[d][i] = queue[d][i]
           \/ queue'[d][i] = pkt
      /\ \A i \in DOMAIN queue[d] :
           i \in DOMAIN queue'[d] /\ queue'[d][i] = queue[d][i]
      /\ \E i \in DOMAIN queue'[d] : queue'[d][i] = pkt
      /\ \A q \in Devices \ {d} : queue'[q] = queue[q]
  BY <1>1, <1>2, AppendFacts, AppendElements DEF IInv, TypeOK
<1>4. \A q \in Devices : Arrivals(q)' = Arrivals(q)
  BY <1>1 DEF Arrivals
<1>5. {queue'[d][i].id : i \in DOMAIN queue'[d]} =
        {queue[d][i].id : i \in DOMAIN queue[d]} \cup {pkt.id}
  BY <1>3
<1>6. /\ InTransit(d)' = InTransit(d) \cup {next_id}
      /\ \A q \in Devices \ {d} : InTransit(q)' = InTransit(q)
  BY <1>3, <1>4, <1>5 DEF InTransit
<1>7. QED
  BY <1>1, <1>6, AcceptStep

LEMMA TransmitNextStutters ==
  ASSUME IInv, NEW e \in events, TransmitNext(e)
  PROVE  UNCHANGED Fifos!vars
<1> DEFINE d == e.dev
           pkt == Head(queue[d])
<1>1. /\ e.kind = "complete"
      /\ queue[d] # <<>>
      /\ queue' = [queue EXCEPT ![d] = Tail(queue[d])]
      /\ TransmitStart(d, pkt, events \ {e})
      /\ next_id' = next_id
  BY DEF TransmitNext
<1>2. d \in Devices /\ queue[d] \in Seq(Packets)
  BY DEF IInv, TypeOK, Events
<1>3. /\ pkt = queue[d][1] /\ 1 \in DOMAIN queue[d] /\ pkt \in Packets
      /\ \A i \in DOMAIN Tail(queue[d]) :
           i + 1 \in DOMAIN queue[d] /\ Tail(queue[d])[i] = queue[d][i + 1]
      /\ \A i \in DOMAIN queue[d] :
           \/ queue[d][i] = pkt
           \/ \E j \in DOMAIN Tail(queue[d]) : Tail(queue[d])[j] = queue[d][i]
  BY <1>1, <1>2, TailFacts, TailElements
<1> HIDE DEF d, pkt
<1>4. /\ queue'[d] = Tail(queue[d])
      /\ \A q \in Devices \ {d} : queue'[q] = queue[q]
  BY <1>1, <1>2 DEF IInv, TypeOK
<1>5. /\ \E r : r.packet = pkt /\ Arrivals(d)' = Arrivals(d) \cup {r}
      /\ \A q \in Devices \ {d} : Arrivals(q)' = Arrivals(q)
  <2>1. \A f \in events : f \in events \ {e} \/ f.kind = "complete"
    BY <1>1
  <2>2. QED
    BY <1>1, <1>2, <1>3, <2>1, StartedArrival DEF IInv
<1>6. {queue[d][i].id : i \in DOMAIN queue[d]} =
        {queue'[d][i].id : i \in DOMAIN queue'[d]} \cup {pkt.id}
  <2>1. \A i \in DOMAIN queue[d] :
          \/ queue[d][i].id = pkt.id
          \/ \E j \in DOMAIN queue'[d] : queue'[d][j].id = queue[d][i].id
    BY <1>3, <1>4
  <2>2. \A j \in DOMAIN queue'[d] :
          \E i \in DOMAIN queue[d] : queue'[d][j].id = queue[d][i].id
    BY <1>3, <1>4
  <2>3. \E i \in DOMAIN queue[d] : queue[d][i].id = pkt.id
    BY <1>3
  <2>4. QED
    BY <2>1, <2>2, <2>3
<1>7. {f.packet.id : f \in Arrivals(d)'} =
        {f.packet.id : f \in Arrivals(d)} \cup {pkt.id}
  BY <1>5
<1>8. \A q \in Devices : InTransit(q)' = InTransit(q)
  <2>1. InTransit(d)' = InTransit(d)
    <3>1. InTransit(d)' = {f.packet.id : f \in Arrivals(d)'}
                            \cup {queue'[d][i].id : i \in DOMAIN queue'[d]}
      BY DEF InTransit
    <3> HIDE DEF InTransit
    <3>2. QED
      BY <1>6, <1>7, <3>1 DEF InTransit
  <2>2. ASSUME NEW q \in Devices \ {d}
        PROVE  InTransit(q)' = InTransit(q)
    BY <1>4, <1>5 DEF InTransit
  <2>3. QED
    BY <2>1, <2>2
<1>9. QED
  BY <1>1, <1>8 DEF Fifos!vars

LEMMA ReceiveReleases ==
  ASSUME IInv, NEW e \in events, Receive(e)
  PROVE  Fifos!Next
<1> DEFINE d == e.dev
<1>1. /\ e.kind = "receive" /\ e.in = 0
      /\ \A f \in events : f.in > 0 \/ e.uid <= f.uid
      /\ events' = events \ {e}
      /\ UNCHANGED <<queue, next_id>>
  BY DEF Receive, IsDue, device
<1>2. d \in Devices /\ e \in Arrivals(d)
  BY <1>1 DEF IInv, TypeOK, Events, Arrivals
<1>3. \A f \in Arrivals(d) : /\ f \in events
                             /\ f.in \in Nat /\ f.gap \in Nat /\ f.tx \in Nat
                             /\ f.uid \in Nat /\ f.packet.id \in Nat
  BY DEF IInv, TypeOK, Events, Packets, Arrivals
<1> HIDE DEF d
<1>4. ASSUME NEW f \in Arrivals(d), f.packet.id <= e.packet.id
      PROVE  f = e
  <2>1. f.uid <= e.uid
    BY <1>2, <1>4 DEF IInv, WireOrder
  <2>2. CASE f.uid < e.uid
    <3>1. f.in + f.gap + e.tx <= e.in
      BY <1>2, <2>2 DEF IInv, NoOverlap
    <3>2. f.in = 0
      BY <1>1, <1>2, <1>3, <3>1
    <3>3. QED
      BY <1>1, <1>2, <1>3, <2>2, <3>2
  <2>3. CASE f.uid = e.uid
    BY <1>3, <2>3 DEF IInv, Uids
  <2>4. QED
    BY <1>2, <1>3, <2>1, <2>2, <2>3
<1>5. \A i \in DOMAIN queue[d] : queue[d][i].id \in Nat /\ e.packet.id < queue[d][i].id
  BY <1>2, QueuedPackets DEF IInv, QueueOrder
<1>6. e.packet.id \in InTransit(d) /\ \A u \in InTransit(d) : e.packet.id <= u
  <2>1. \A f \in Arrivals(d) : e.packet.id <= f.packet.id
    BY <1>2, <1>3, <1>4
  <2>2. \A i \in DOMAIN queue[d] : e.packet.id <= queue[d][i].id
    BY <1>2, <1>3, <1>5
  <2>3. QED
    BY <1>2, <2>1, <2>2 DEF InTransit
<1>7. /\ Arrivals(d)' = Arrivals(d) \ {e}
      /\ \A q \in Devices \ {d} : Arrivals(q)' = Arrivals(q)
  BY <1>1, <1>2 DEF Arrivals
<1>8. InTransit(d)' = InTransit(d) \ {e.packet.id}
  <2>1. \A f \in Arrivals(d) \ {e} : f.packet.id # e.packet.id
    BY <1>2, <1>3, <1>4
  <2>2. \A i \in DOMAIN queue[d] : queue[d][i].id # e.packet.id
    BY <1>2, <1>3, <1>5
  <2>3. QED
    BY <1>1, <1>2, <1>7, <2>1, <2>2 DEF InTransit
<1>9. \A q \in Devices \ {d} : InTransit(q)' = InTransit(q)
  BY <1>1, <1>7 DEF InTransit
<1>10. QED
  BY <1>1, <1>2, <1>6, <1>8, <1>9, ReleaseStep

LEMMA SameTransitStutters ==
  ASSUME \A d \in Devices : InTransit(d)' = InTransit(d), next_id' = next_id
  PROVE  UNCHANGED Fifos!vars
  BY DEF Fifos!vars

LEMMA TransmitIdleStutters ==
  ASSUME NEW e \in events, TransmitIdle(e)
  PROVE  UNCHANGED Fifos!vars
<1>1. \A d \in Devices : Arrivals(d)' = Arrivals(d)
  BY DEF TransmitIdle, Arrivals
<1>2. QED
  BY <1>1, SameTransitStutters DEF TransmitIdle, InTransit

LEMMA TickStutters ==
  ASSUME IInv, Tick
  PROVE  UNCHANGED Fifos!vars
<1>1. /\ \A e \in events : e \in Events /\ e.in > 0
      /\ events' = {Nearer(e) : e \in events}
      /\ UNCHANGED <<queue, next_id>>
  BY DEF Tick, device, IInv, TypeOK
<1>2. \A e \in events : /\ Nearer(e).kind = e.kind /\ Nearer(e).dev = e.dev
                        /\ Nearer(e).packet = e.packet
  BY <1>1, NearerFacts
<1> HIDE DEF Nearer
<1>3. \A d \in Devices : Arrivals(d)' = {Nearer(e) : e \in Arrivals(d)}
  BY <1>1, <1>2 DEF Arrivals
<1>4. \A d \in Devices : Arrivals(d) \subseteq events
  BY DEF Arrivals
<1>5. \A d \in Devices :
        {e.packet.id : e \in Arrivals(d)'} = {e.packet.id : e \in Arrivals(d)}
  BY <1>2, <1>3, <1>4
<1>6. QED
  BY <1>1, <1>5, SameTransitStutters DEF InTransit

(* The link implements a FIFO for each direction: packets are delivered in *)
(* the order in which SendFrom accepted them, each one once.               *)
THEOREM LinkImplementsFifos == Spec => ImplementsFifos
<1>1. Init => Fifos!Init
  BY DEF Init, Fifos!Init, InTransit, Arrivals
<1>2. IInv /\ [Next]_vars => [Fifos!Next]_(Fifos!vars)
  <2> SUFFICES ASSUME IInv, [Next]_vars
               PROVE  Fifos!Next \/ UNCHANGED Fifos!vars
    OBVIOUS
  <2>1. ASSUME NEW d \in Devices, SendFrom(d)
        PROVE  Fifos!Next
    <3>1. PICK s \in Sizes : \/ SendFromIdle(d, [id |-> next_id, size |-> s])
                            \/ SendFromBusy(d, [id |-> next_id, size |-> s])
      BY <2>1 DEF SendFrom
    <3> DEFINE pkt == [id |-> next_id, size |-> s]
    <3>2. pkt \in Packets /\ pkt.id = next_id
      BY DEF IInv, TypeOK, Packets
    <3> HIDE DEF pkt
    <3>3. SendFromIdle(d, pkt) \/ SendFromBusy(d, pkt)
      BY <3>1 DEF pkt
    <3>4. QED
      BY <3>2, <3>3, SendFromIdleAccepts, SendFromBusyAccepts
  <2>2. CASE Run
    BY <2>2, TransmitNextStutters, TransmitIdleStutters, ReceiveReleases DEF Run
  <2>3. CASE Tick
    BY <2>3, TickStutters
  <2>4. CASE UNCHANGED <<queue, events, next_id>>
    BY <2>4, SameTransitStutters DEF InTransit, Arrivals
  <2>5. QED
    BY <2>1, <2>2, <2>3, <2>4
    DEF Next, SetDataRate, SetInterframeGap, vars, device
<1>3. QED
  BY <1>1, <1>2, Invariant, PTL DEF Spec, ImplementsFifos, Fifos!Spec
=============================================================================
