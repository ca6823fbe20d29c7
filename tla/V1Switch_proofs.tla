-------------------------- MODULE V1Switch_proofs --------------------------
(***************************************************************************)
(* Proofs about V1Switch, for every set of ports, addresses and verdicts,  *)
(* every buffer size, and both kinds of primitives.                        *)
(***************************************************************************)
EXTENDS V1Switch, TLAPS

(* Sequences.                                                              *)

LEMMA SeqMonotone ==
  ASSUME NEW S, NEW T, S \subseteq T, NEW s \in Seq(S)
  PROVE  s \in Seq(T)
OBVIOUS

LEMMA AppendType ==
  ASSUME NEW S, NEW s \in Seq(S), NEW e \in S
  PROVE  Append(s, e) \in Seq(S) /\ Len(Append(s, e)) = Len(s) + 1
OBVIOUS

LEMMA AppendElements ==
  ASSUME NEW S, NEW s \in Seq(S), NEW e \in S, NEW n \in DOMAIN Append(s, e)
  PROVE  \/ n \in DOMAIN s /\ Append(s, e)[n] = s[n]
         \/ n = Len(s) + 1 /\ Append(s, e)[n] = e
OBVIOUS

LEMMA TailElements ==
  ASSUME NEW S, NEW s \in Seq(S), s # <<>>
  PROVE  /\ 1 \in DOMAIN s /\ Head(s) = s[1]
         /\ \A n \in DOMAIN Tail(s) :
              /\ n \in Nat \ {0}
              /\ n + 1 \in DOMAIN s /\ Tail(s)[n] = s[n + 1]
OBVIOUS

LEMMA TailType ==
  ASSUME NEW S, NEW s \in Seq(S), s # <<>>
  PROVE  /\ Head(s) \in S
         /\ Tail(s) \in Seq(S)
         /\ Len(Tail(s)) = Len(s) - 1
         /\ Len(s) \in Nat \ {0}
OBVIOUS

-----------------------------------------------------------------------------
(* What this core has of SwitchCore: the queues and the address table.     *)

(* Enqueue keeps the queues queues of S, within the buffer size. *)
LEMMA EnqueueType ==
  ASSUME NEW S, NEW qs \in [Classes -> Seq(S)], NEW ports, NEW pkt \in S,
         \A c \in Classes : Len(qs[c]) <= QueueBufferSize
  PROVE  /\ Enqueue(qs, ports, pkt) \in [Classes -> Seq(S)]
         /\ \A c \in Classes : Len(Enqueue(qs, ports, pkt)[c]) <= QueueBufferSize
<1>1. ASSUME NEW c \in Classes
      PROVE  /\ Enqueue(qs, ports, pkt)[c] \in Seq(S)
             /\ Len(Enqueue(qs, ports, pkt)[c]) <= QueueBufferSize
  <2>1. qs[c] \in Seq(S) /\ Len(qs[c]) \in Nat /\ Len(qs[c]) <= QueueBufferSize
    OBVIOUS
  <2>2. Append(qs[c], pkt) \in Seq(S) /\ Len(Append(qs[c], pkt)) = Len(qs[c]) + 1
    BY <2>1, AppendType
  <2>3. CASE Enqueue(qs, ports, pkt)[c] = qs[c]
    BY <2>1, <2>3
  <2>4. CASE /\ Enqueue(qs, ports, pkt)[c] = Append(qs[c], pkt)
             /\ Len(qs[c]) < QueueBufferSize
    BY <2>1, <2>2, <2>4, CoreAssumption
  <2>5. QED
    BY <2>3, <2>4 DEF Enqueue
<1>2. QED
  BY <1>1 DEF Enqueue

(* A queue after Enqueue holds what it held before, and perhaps the packet *)
(* behind it, which goes to one priority of each port.                     *)
LEMMA EnqueueElements ==
  ASSUME NEW S, NEW qs \in [Classes -> Seq(S)], NEW ports, NEW pkt \in S,
         NEW c \in Classes, NEW n \in DOMAIN Enqueue(qs, ports, pkt)[c]
  PROVE  \/ n \in DOMAIN qs[c] /\ Enqueue(qs, ports, pkt)[c][n] = qs[c][n]
         \/ /\ n = Len(qs[c]) + 1
            /\ Enqueue(qs, ports, pkt)[c][n] = pkt
            /\ c[1] \in ports
            /\ c[2] = NbQueuesPerPort - 1 - pkt.priority
<1>1. qs[c] \in Seq(S)
  OBVIOUS
<1>2. CASE Enqueue(qs, ports, pkt)[c] = qs[c]
  BY <1>2
<1>3. CASE /\ Enqueue(qs, ports, pkt)[c] = Append(qs[c], pkt)
           /\ c[1] \in ports
           /\ c[2] = NbQueuesPerPort - 1 - pkt.priority
  <2>1. n \in DOMAIN Append(qs[c], pkt)
    BY <1>3
  <2>2. \/ n \in DOMAIN qs[c] /\ Append(qs[c], pkt)[n] = qs[c][n]
        \/ n = Len(qs[c]) + 1 /\ Append(qs[c], pkt)[n] = pkt
    BY <1>1, <2>1, AppendElements
  <2>3. QED
    BY <1>3, <2>2
<1>4. QED
  BY <1>2, <1>3 DEF Enqueue

LEMMA MirrorType ==
  ASSUME NEW S, NEW qs \in [Classes -> Seq(S)], NEW session, NEW pkt \in S,
         \A c \in Classes : Len(qs[c]) <= QueueBufferSize
  PROVE  /\ Mirror(qs, session, pkt) \in [Classes -> Seq(S)]
         /\ \A c \in Classes : Len(Mirror(qs, session, pkt)[c]) <= QueueBufferSize
<1> DEFINE group == Enqueue(qs, GroupPorts(Sessions[session].mgids), pkt)
<1>1. /\ group \in [Classes -> Seq(S)]
      /\ \A c \in Classes : Len(group[c]) <= QueueBufferSize
  BY EnqueueType
<1> HIDE DEF group
<1>2. /\ Enqueue(group, Sessions[session].ports, pkt) \in [Classes -> Seq(S)]
      /\ \A c \in Classes :
           Len(Enqueue(group, Sessions[session].ports, pkt)[c]) <= QueueBufferSize
  BY <1>1, EnqueueType
<1>3. QED
  BY <1>2 DEF Mirror, group

(* GetAddressIndex keeps the indexes of the addresses it has, and returns  *)
(* the index of the address it is asked for.                               *)
LEMMA EnterAddressType ==
  ASSUME destinations \in Seq(Destinations),
         NEW d \in Destinations, destinations' = EnterAddress(d)
  PROVE  /\ destinations' \in Seq(Destinations)
         /\ Len(destinations) \in Nat /\ Len(destinations') \in Nat
         /\ Len(destinations) <= Len(destinations')
         /\ \A i \in 1 .. Len(destinations) : destinations'[i] = destinations[i]
         /\ AddressIndex(d) \in Nat
         /\ AddressIndex(d) + 1 \in 1 .. Len(destinations')
         /\ destinations'[AddressIndex(d) + 1] = d
<1>1. destinations \in Seq(Destinations) /\ Len(destinations) \in Nat
  OBVIOUS
<1>2. /\ destinations' \in Seq(Destinations)
      /\ Len(destinations) <= Len(destinations')
      /\ Len(destinations') \in Nat
      /\ \A i \in 1 .. Len(destinations) : destinations'[i] = destinations[i]
  BY <1>1 DEF EnterAddress
<1>3. /\ AddressIndex(d) \in Nat
      /\ AddressIndex(d) + 1 \in 1 .. Len(destinations')
      /\ destinations'[AddressIndex(d) + 1] = d
  <2>1. CASE \E i \in DOMAIN destinations : destinations[i] = d
    <3> DEFINE i == CHOOSE i \in DOMAIN destinations : destinations[i] = d
    <3>1. i \in 1 .. Len(destinations) /\ destinations[i] = d
      BY <1>1, <2>1
    <3>2. AddressIndex(d) = i - 1 /\ destinations' = destinations
      BY <2>1 DEF AddressIndex, EnterAddress
    <3> HIDE DEF i
    <3>3. QED
      BY <1>1, <3>1, <3>2
  <2>2. CASE ~ \E i \in DOMAIN destinations : destinations[i] = d
    <3>1. /\ AddressIndex(d) = Len(destinations)
          /\ destinations' = Append(destinations, d)
      BY <2>2 DEF AddressIndex, EnterAddress
    <3>2. QED
      BY <1>1, <3>1
  <2>3. QED
    BY <2>1, <2>2
<1>4. QED
  BY <1>1, <1>2, <1>3

(* The register holds the index, as long as the table fits its width.      *)
LEMMA AddressInRegister ==
  ASSUME destinations \in Seq(Destinations),
         NEW d \in Destinations, destinations' = EnterAddress(d),
         NEW r, r = AddressIndex(d) % AddressIndexes
  PROVE  /\ r \in Nat
         /\ r + 1 \in 1 .. Len(destinations')
         /\ Len(destinations') <= AddressIndexes => destinations'[r + 1] = d
<1> DEFINE a == AddressIndex(d)
<1>1. /\ a \in Nat /\ AddressIndexes \in Nat \ {0}
      /\ Len(destinations') \in Nat
      /\ a + 1 <= Len(destinations')
      /\ destinations'[a + 1] = d
  BY EnterAddressType, CoreAssumption
<1>2. r = a % AddressIndexes
  OBVIOUS
<1> HIDE DEF a
<1>3. /\ r \in Nat
      /\ r <= a
      /\ a < AddressIndexes => r = a
  BY <1>1, <1>2
<1>4. Len(destinations') <= AddressIndexes => r = a
  BY <1>1, <1>3
<1>5. r + 1 \in 1 .. Len(destinations')
  BY <1>1, <1>3
<1>6. QED
  BY <1>1, <1>3, <1>4, <1>5

-----------------------------------------------------------------------------
(* Invariants.                                                             *)

(* The packets whose register holds an index into m_destinationList, of    *)
(* the address they were received for if it was never cleared.             *)
Located ==
  {p \in Packets :
     /\ p.address + 1 \in 1 .. Len(destinations)
     /\ p.intact /\ Len(destinations) <= AddressIndexes
          => destinations[p.address + 1] = p.destination}

(* At most one packet waits for each one recirculated, and the one a call  *)
(* of ReceivePacket is about to pop.                                       *)
InputBounded ==
  Len(queue_hi) + Len(queue_lo)
    <= recirculated + IF phase = "ingress" THEN 1 ELSE 0

(* The inductive invariant: every packet in a queue is located.            *)
IInv ==
  /\ TypeOK
  /\ queue_hi \in Seq(Located)
  /\ queue_lo \in Seq(Located)
  /\ queues \in [Classes -> Seq(Located)]
  /\ DestinationKept
  /\ InputBounded
  /\ phase = "blocked" => Len(queue_lo) = CapacityLo

-----------------------------------------------------------------------------
(* The operators of the switch.                                            *)

(* A copy of a located packet is located: index 0 is an address. *)
LEMMA CopyLocated ==
  ASSUME IInv, NEW pkt \in Located, NEW priority \in Nat
  PROVE  Copy(pkt, priority) \in Located
<1>1. pkt \in Packets /\ pkt.address + 1 \in 1 .. Len(destinations)
  BY DEF Located
<1>2. Len(destinations) \in Nat /\ 1 <= Len(destinations)
  BY <1>1 DEF IInv, TypeOK, Packets
<1>3. Copy(pkt, priority) \in Packets
  BY <1>1 DEF Copy, Packets
<1>4. /\ Copy(pkt, priority).address + 1 \in 1 .. Len(destinations)
      /\ ~Copy(pkt, priority).intact
  BY <1>2 DEF Copy
<1>5. QED
  BY <1>3, <1>4 DEF Located

LEMMA RepriorityLocated ==
  ASSUME NEW pkt \in Located, NEW priority \in Nat
  PROVE  [pkt EXCEPT !.priority = priority] \in Located
BY DEF Located, Packets

(* What InputBuffer::pop_back takes out and leaves. *)
LEMMA PopType ==
  ASSUME IInv, ~InputEmpty
  PROVE  /\ InputHead \in Located
         /\ HiAfterPop \in Seq(Located) /\ LoAfterPop \in Seq(Located)
         /\ Len(HiAfterPop) \in Nat /\ Len(LoAfterPop) \in Nat
         /\ Len(HiAfterPop) <= Len(queue_hi)
         /\ Len(LoAfterPop) <= Len(queue_lo)
         /\ Len(HiAfterPop) + Len(LoAfterPop) = Len(queue_hi) + Len(queue_lo) - 1
<1>1. /\ queue_hi \in Seq(Located) /\ queue_lo \in Seq(Located)
      /\ Len(queue_hi) \in Nat /\ Len(queue_lo) \in Nat
  BY DEF IInv
<1>2. CASE queue_hi # <<>>
  <2>1. /\ Head(queue_hi) \in Located /\ Tail(queue_hi) \in Seq(Located)
        /\ Len(Tail(queue_hi)) = Len(queue_hi) - 1
        /\ Len(queue_hi) \in Nat \ {0}
    BY <1>1, <1>2, TailType
  <2>2. InputHead = Head(queue_hi) /\ HiAfterPop = Tail(queue_hi)
        /\ LoAfterPop = queue_lo
    BY <1>2 DEF InputHead, HiAfterPop, LoAfterPop
  <2>3. QED
    BY <1>1, <2>1, <2>2
<1>3. CASE queue_hi = <<>>
  <2>0. queue_lo # <<>>
    BY <1>3 DEF InputEmpty
  <2>1. /\ Head(queue_lo) \in Located /\ Tail(queue_lo) \in Seq(Located)
        /\ Len(Tail(queue_lo)) = Len(queue_lo) - 1
        /\ Len(queue_lo) \in Nat \ {0}
    BY <1>1, <2>0, TailType
  <2>2. InputHead = Head(queue_lo) /\ HiAfterPop = queue_hi
        /\ LoAfterPop = Tail(queue_lo)
    BY <1>3 DEF InputHead, HiAfterPop, LoAfterPop
  <2>3. QED
    BY <1>1, <2>1, <2>2
<1>4. QED
  BY <1>2, <1>3

(* A push into queue_hi never exceeds its capacity, and adds at most one. *)
LEMMA PushHiType ==
  ASSUME NEW S, NEW hi \in Seq(S), NEW pkt \in S, Len(hi) <= CapacityHi
  PROVE  /\ PushHi(hi, pkt) \in Seq(S)
         /\ Len(PushHi(hi, pkt)) \in Nat
         /\ Len(PushHi(hi, pkt)) <= CapacityHi
         /\ Len(hi) <= Len(PushHi(hi, pkt))
         /\ Len(PushHi(hi, pkt)) <= Len(hi) + 1
<1>1. Append(hi, pkt) \in Seq(S) /\ Len(Append(hi, pkt)) = Len(hi) + 1
  BY AppendType
<1>2. CapacityHi \in Nat /\ Len(hi) \in Nat
  BY ConstantsAssumption DEF CapacityHi
<1>3. CASE Len(hi) = CapacityHi
  BY <1>2, <1>3 DEF PushHi
<1>4. CASE Len(hi) # CapacityHi
  <2>1. PushHi(hi, pkt) = Append(hi, pkt)
    BY <1>4 DEF PushHi
  <2>2. QED
    BY <1>1, <1>2, <1>4, <2>1
<1>5. QED
  BY <1>3, <1>4

-----------------------------------------------------------------------------
(* One lemma per operation: it preserves the invariant.                    *)

LEMMA InitInvariant == Init => IInv
<1> SUFFICES ASSUME Init PROVE IInv
  OBVIOUS
<1>1. TypeOK
  <2>1. CapacityHi \in Nat /\ CapacityLo \in Nat /\ QueueBufferSize \in Nat
    BY ConstantsAssumption, CoreAssumption DEF CapacityHi, CapacityLo
  <2>2. queue_hi \in Seq(Packets) /\ Len(queue_hi) <= CapacityHi
    BY <2>1 DEF Init
  <2>3. queue_lo \in Seq(Packets) /\ Len(queue_lo) <= CapacityLo
    BY <2>1 DEF Init
  <2>4. /\ queues \in [Classes -> Seq(Packets)]
        /\ \A c \in Classes : Len(queues[c]) <= QueueBufferSize
    BY <2>1 DEF Init
  <2>5. destinations \in Seq(Destinations)
    BY DEF Init
  <2>6. newest \in [Classes -> Int]
    BY DEF Init
  <2>7. QED
    BY <2>2, <2>3, <2>4, <2>5, <2>6 DEF Init, TypeOK
<1>2. DestinationKept
  BY DEF Init, DestinationKept
<1>3. InputBounded
  BY DEF Init, InputBounded
<1>4. QED
  BY <1>1, <1>2, <1>3 DEF Init, IInv

(* Entering an address keeps the located packets located. *)
LEMMA LocatedKept ==
  ASSUME IInv, NEW d \in Destinations, destinations' = EnterAddress(d)
  PROVE  Located \subseteq Located'
<1>1. /\ Len(destinations) \in Nat /\ Len(destinations') \in Nat
      /\ Len(destinations) <= Len(destinations')
      /\ \A i \in 1 .. Len(destinations) : destinations'[i] = destinations[i]
  BY EnterAddressType DEF IInv, TypeOK
<1>2. ASSUME NEW p \in Located
      PROVE  p \in Located'
  <2>1. /\ p \in Packets
        /\ p.address + 1 \in 1 .. Len(destinations)
        /\ p.intact /\ Len(destinations) <= AddressIndexes
             => destinations[p.address + 1] = p.destination
    BY DEF Located
  <2>2. p.address + 1 \in 1 .. Len(destinations')
    BY <1>1, <2>1
  <2>3. Len(destinations') <= AddressIndexes => Len(destinations) <= AddressIndexes
    BY <1>1, CoreAssumption
  <2>4. destinations'[p.address + 1] = destinations[p.address + 1]
    BY <1>1, <2>1
  <2>5. QED
    BY <2>1, <2>2, <2>3, <2>4 DEF Located
<1>3. QED
  BY <1>2

LEMMA ReceiveInvariant ==
  ASSUME IInv, NEW d \in Destinations, Receive(d)
  PROVE  IInv'
<1> DEFINE pkt == [id |-> received, priority |-> 0,
                   address |-> AddressIndex(d) % AddressIndexes,
                   destination |-> d, intact |-> TRUE, hops |-> 0]
<1>1. /\ phase = "idle"
      /\ received' = received + 1
      /\ destinations' = EnterAddress(d)
      /\ UNCHANGED <<queue_hi, queues, timer, wire, newest, recirculated>>
      /\ \/ /\ Len(queue_lo) = CapacityLo
            /\ phase' = "blocked"
            /\ queue_lo' = queue_lo
         \/ /\ Len(queue_lo) # CapacityLo
            /\ phase' = "ingress"
            /\ queue_lo' = Append(queue_lo, pkt)
  BY DEF Receive
<1>2. /\ destinations' \in Seq(Destinations)
      /\ Len(destinations) <= Len(destinations')
      /\ Located \subseteq Located'
  BY <1>1, EnterAddressType, LocatedKept DEF IInv, TypeOK
<1>3. pkt \in Located'
  <2> DEFINE r == AddressIndex(d) % AddressIndexes
  <2>1. /\ r \in Nat
        /\ r + 1 \in 1 .. Len(destinations')
        /\ Len(destinations') <= AddressIndexes => destinations'[r + 1] = d
    BY <1>1, AddressInRegister DEF IInv, TypeOK
  <2> HIDE DEF r
  <2>2. pkt = [id |-> received, priority |-> 0, address |-> r,
               destination |-> d, intact |-> TRUE, hops |-> 0]
    BY DEF r
  <2>3. pkt \in Packets
    BY <2>1, <2>2 DEF IInv, TypeOK, Packets
  <2>4. /\ pkt.address = r
        /\ pkt.destination = d
    BY <2>2
  <2> HIDE DEF pkt
  <2>5. QED
    BY <2>1, <2>3, <2>4 DEF Located
<1> HIDE DEF pkt
<1>4. /\ Len(queue_lo) \in Nat /\ Len(queue_lo) <= CapacityLo
      /\ Len(queue_hi) \in Nat /\ CapacityLo \in Nat
      /\ recirculated \in Nat
  BY ConstantsAssumption DEF IInv, TypeOK, CapacityLo
<1>5. /\ queue_hi' \in Seq(Located')
      /\ queue_lo \in Seq(Located')
      /\ queues' \in [Classes -> Seq(Located')]
  BY <1>1, <1>2, SeqMonotone DEF IInv
<1>6. /\ queue_lo' \in Seq(Located')
      /\ Len(queue_lo') <= CapacityLo
      /\ phase' = "blocked" => Len(queue_lo') = CapacityLo
      /\ Len(queue_lo') = Len(queue_lo) + IF phase' = "ingress" THEN 1 ELSE 0
  <2>1. CASE /\ Len(queue_lo) = CapacityLo
             /\ phase' = "blocked"
             /\ queue_lo' = queue_lo
    BY <1>4, <1>5, <2>1
  <2>2. CASE /\ Len(queue_lo) # CapacityLo
             /\ phase' = "ingress"
             /\ queue_lo' = Append(queue_lo, pkt)
    <3>1. /\ queue_lo' \in Seq(Located')
          /\ Len(queue_lo') = Len(queue_lo) + 1
      BY <1>3, <1>5, <2>2, AppendType
    <3>2. QED
      BY <1>4, <2>2, <3>1
  <2>3. QED
    BY <1>1, <2>1, <2>2
<1>7. Located' \subseteq Packets
  BY DEF Located
<1>8. TypeOK'
  <2>1. queue_lo' \in Seq(Packets)
    BY <1>6, <1>7, SeqMonotone
  <2>2. phase' \in {"idle", "ingress", "blocked"}
    BY <1>1
  <2>3. QED
    BY <1>1, <1>2, <1>6, <2>1, <2>2 DEF IInv, TypeOK, timer, CapacityHi
<1>9. DestinationKept'
  <2>1. Len(destinations') <= AddressIndexes => Len(destinations) <= AddressIndexes
    BY <1>2, CoreAssumption DEF IInv, TypeOK
  <2>2. QED
    BY <1>1, <2>1 DEF IInv, DestinationKept
<1>10. InputBounded'
  BY <1>1, <1>4, <1>6 DEF IInv, InputBounded
<1>11. QED
  BY <1>5, <1>6, <1>8, <1>9, <1>10 DEF IInv

(* The two ingress operations: it is enough that they keep the queues      *)
(* queues of located packets within their capacities, and leave in the     *)
(* input buffer at most what their phase allows.                           *)
LEMMA QueuesInvariant ==
  ASSUME IInv, phase # "blocked",
         UNCHANGED <<destinations, timer, wire, history>>,
         phase' \in {"idle", "ingress"},
         queue_hi' \in Seq(Located), Len(queue_hi') <= CapacityHi,
         queue_lo' \in Seq(Located), Len(queue_lo') <= CapacityLo,
         queues' \in [Classes -> Seq(Located)],
         \A c \in Classes : Len(queues'[c]) <= QueueBufferSize,
         Len(queue_hi') + Len(queue_lo')
           <= recirculated + IF phase' = "ingress" THEN 1 ELSE 0
  PROVE  IInv'
<1>1. Located' = Located /\ Located \subseteq Packets
  BY DEF Located
<1>2. /\ queue_hi' \in Seq(Packets) /\ queue_lo' \in Seq(Packets)
      /\ queues' \in [Classes -> Seq(Packets)]
  BY <1>1, SeqMonotone
<1>3. TypeOK'
  BY <1>2 DEF IInv, TypeOK, timer, history, CapacityHi, CapacityLo
<1>4. DestinationKept' /\ InputBounded'
  BY DEF IInv, DestinationKept, InputBounded, history
<1>5. QED
  BY <1>1, <1>3, <1>4 DEF IInv

(* The queues after an ingress clone. *)
LEMMA AfterIngressCloneType ==
  ASSUME IInv, ~InputEmpty, NEW v \in IngressVerdicts
  PROVE  /\ AfterIngressClone(v) \in [Classes -> Seq(Located)]
         /\ \A c \in Classes : Len(AfterIngressClone(v)[c]) <= QueueBufferSize
<1>1. v.clone_priority \in Nat
  BY ConstantsAssumption DEF IngressVerdict
<1>2. Copy(InputHead, v.clone_priority) \in Located
  BY <1>1, PopType, CopyLocated
<1>3. QED
  BY <1>2, MirrorType DEF AfterIngressClone, IInv, TypeOK

LEMMA IngressResubmitInvariant ==
  ASSUME IInv, NEW v \in IngressVerdicts, IngressResubmit(v)
  PROVE  IInv'
<1>1. /\ phase = "ingress" /\ ~InputEmpty
      /\ queues' = AfterIngressClone(v)
      /\ queue_hi' = PushHi(HiAfterPop, Copy(InputHead, 0))
      /\ queue_lo' = LoAfterPop
      /\ phase' = IF queue_hi' = <<>> /\ queue_lo' = <<>> THEN "idle" ELSE phase
      /\ UNCHANGED <<destinations, timer, wire, history>>
  BY DEF IngressResubmit
<1>2. /\ queues' \in [Classes -> Seq(Located)]
      /\ \A c \in Classes : Len(queues'[c]) <= QueueBufferSize
  BY <1>1, AfterIngressCloneType
<1>3. /\ InputHead \in Located
      /\ HiAfterPop \in Seq(Located) /\ LoAfterPop \in Seq(Located)
      /\ Len(HiAfterPop) \in Nat /\ Len(LoAfterPop) \in Nat
      /\ Len(HiAfterPop) <= Len(queue_hi)
      /\ Len(LoAfterPop) <= Len(queue_lo)
      /\ Len(HiAfterPop) + Len(LoAfterPop) = Len(queue_hi) + Len(queue_lo) - 1
  BY <1>1, PopType
<1>4. /\ Len(queue_hi) \in Nat /\ Len(queue_hi) <= CapacityHi
      /\ Len(queue_lo) \in Nat /\ Len(queue_lo) <= CapacityLo
      /\ CapacityHi \in Nat /\ CapacityLo \in Nat /\ recirculated \in Nat
      /\ Len(queue_hi) + Len(queue_lo) <= recirculated + 1
  BY <1>1, ConstantsAssumption
  DEF IInv, TypeOK, InputBounded, CapacityHi, CapacityLo
<1>5. Copy(InputHead, 0) \in Located
  BY <1>3, CopyLocated
<1>6. /\ queue_hi' \in Seq(Located)
      /\ Len(queue_hi') \in Nat
      /\ Len(queue_hi') <= CapacityHi
      /\ Len(queue_hi') <= Len(HiAfterPop) + 1
  <2>1. Len(HiAfterPop) <= CapacityHi
    BY <1>3, <1>4
  <2>2. QED
    BY <1>1, <1>3, <1>5, <2>1, PushHiType
<1>7. Len(queue_lo') <= CapacityLo /\ queue_lo' \in Seq(Located)
  BY <1>1, <1>3, <1>4
<1>8. Len(queue_hi') + Len(queue_lo')
        <= recirculated + IF phase' = "ingress" THEN 1 ELSE 0
  <2>1. CASE queue_hi' = <<>> /\ queue_lo' = <<>>
    BY <1>1, <1>4, <2>1
  <2>2. CASE ~(queue_hi' = <<>> /\ queue_lo' = <<>>)
    BY <1>1, <1>3, <1>4, <1>6, <2>2
  <2>3. QED
    BY <2>1, <2>2
<1>9. phase' \in {"idle", "ingress"}
  BY <1>1
<1>10. QED
  BY <1>1, <1>2, <1>6, <1>7, <1>8, <1>9, QueuesInvariant

LEMMA IngressForwardInvariant ==
  ASSUME IInv, NEW v \in IngressVerdicts, IngressForward(v)
  PROVE  IInv'
<1>1. /\ phase = "ingress" /\ ~InputEmpty
      /\ queue_hi' = HiAfterPop
      /\ queue_lo' = LoAfterPop
      /\ phase' = "idle"
      /\ UNCHANGED <<destinations, timer, wire, history>>
  BY DEF IngressForward
<1>2. /\ AfterIngressClone(v) \in [Classes -> Seq(Located)]
      /\ \A c \in Classes : Len(AfterIngressClone(v)[c]) <= QueueBufferSize
  BY <1>1, AfterIngressCloneType
<1>3. /\ InputHead \in Located
      /\ HiAfterPop \in Seq(Located) /\ LoAfterPop \in Seq(Located)
      /\ Len(HiAfterPop) \in Nat /\ Len(LoAfterPop) \in Nat
      /\ Len(HiAfterPop) <= Len(queue_hi)
      /\ Len(LoAfterPop) <= Len(queue_lo)
      /\ Len(HiAfterPop) + Len(LoAfterPop) = Len(queue_hi) + Len(queue_lo) - 1
  BY <1>1, PopType
<1>4. v.priority \in Nat
  BY ConstantsAssumption DEF IngressVerdict
<1>5. /\ queues' \in [Classes -> Seq(Located)]
      /\ \A c \in Classes : Len(queues'[c]) <= QueueBufferSize
  <2>1. CASE queues' = Enqueue(AfterIngressClone(v), GroupPorts({v.mcast_grp}),
                               Copy(InputHead, v.priority))
    <3>1. Copy(InputHead, v.priority) \in Located
      BY <1>3, <1>4, CopyLocated
    <3>2. QED
      BY <1>2, <2>1, <3>1, EnqueueType
  <2>2. CASE queues' = AfterIngressClone(v)
    BY <1>2, <2>2
  <2>3. CASE queues' = Enqueue(AfterIngressClone(v), {v.egress_spec},
                               [InputHead EXCEPT !.priority = v.priority])
    <3>1. [InputHead EXCEPT !.priority = v.priority] \in Located
      BY <1>3, <1>4, RepriorityLocated
    <3>2. QED
      BY <1>2, <2>3, <3>1, EnqueueType
  <2>4. QED
    BY <2>1, <2>2, <2>3 DEF IngressForward
<1>6. /\ Len(queue_hi) \in Nat /\ Len(queue_hi) <= CapacityHi
      /\ Len(queue_lo) \in Nat /\ Len(queue_lo) <= CapacityLo
      /\ CapacityHi \in Nat /\ CapacityLo \in Nat /\ recirculated \in Nat
      /\ Len(queue_hi) + Len(queue_lo) <= recirculated + 1
  BY <1>1, ConstantsAssumption
  DEF IInv, TypeOK, InputBounded, CapacityHi, CapacityLo
<1>7. /\ Len(queue_hi') <= CapacityHi
      /\ Len(queue_lo') <= CapacityLo
      /\ Len(queue_hi') + Len(queue_lo')
           <= recirculated + IF phase' = "ingress" THEN 1 ELSE 0
  BY <1>1, <1>3, <1>6
<1>8. phase # "blocked" /\ phase' \in {"idle", "ingress"}
  BY <1>1
<1>9. QED
  BY <1>1, <1>3, <1>5, <1>7, <1>8, QueuesInvariant

LEMMA ServeInvariant ==
  ASSUME IInv, NEW c \in Classes, NEW v \in EgressVerdicts, Serve(c, v),
         first_packet' \in BOOLEAN, extra' \in BOOLEAN
  PROVE  IInv'
<1> DEFINE pkt == Head(queues[c])
           popped == [queues EXCEPT ![c] = Tail(queues[c])]
           clone == Copy(pkt, v.clone_priority)
<1>1. /\ phase = "idle" /\ queues[c] # <<>>
      /\ queues' = Mirror(popped, CloneSession(v), clone)
      /\ UNCHANGED <<phase, queue_lo, destinations, received>>
  BY DEF Serve
<1>2. /\ queues \in [Classes -> Seq(Located)]
      /\ \A k \in Classes : Len(queues[k]) <= QueueBufferSize
  BY DEF IInv, TypeOK
<1>3. /\ pkt \in Located
      /\ Tail(queues[c]) \in Seq(Located)
      /\ Len(Tail(queues[c])) = Len(queues[c]) - 1
      /\ Len(queues[c]) \in Nat \ {0}
  <2>1. queues[c] \in Seq(Located)
    BY <1>2
  <2>2. QED
    BY <1>1, <2>1, TailType
<1>4. /\ popped \in [Classes -> Seq(Located)]
      /\ \A k \in Classes : Len(popped[k]) <= QueueBufferSize
  <2>1. Len(Tail(queues[c])) <= QueueBufferSize
    BY <1>2, <1>3, CoreAssumption
  <2>2. QED
    BY <1>2, <1>3, <2>1
<1>5. v.clone_priority \in Nat
  BY ConstantsAssumption DEF EgressVerdict
<1> HIDE DEF pkt, popped
<1>6. clone \in Located /\ Copy(pkt, 0) \in Located
  BY <1>3, <1>5, CopyLocated
<1>7. /\ queues' \in [Classes -> Seq(Located)]
      /\ \A k \in Classes : Len(queues'[k]) <= QueueBufferSize
  BY <1>1, <1>4, <1>6, MirrorType
<1>8. /\ Len(queue_hi) \in Nat /\ Len(queue_hi) <= CapacityHi
      /\ Len(queue_lo) \in Nat /\ CapacityHi \in Nat /\ recirculated \in Nat
      /\ Len(queue_hi) + Len(queue_lo) <= recirculated
      /\ queue_hi \in Seq(Located)
      /\ newest \in [Classes -> Int] /\ wire \subseteq Wires
  BY <1>1, ConstantsAssumption DEF IInv, TypeOK, InputBounded, CapacityHi
<1>9. /\ queue_hi' \in Seq(Located)
      /\ Len(queue_hi') <= CapacityHi
      /\ recirculated' \in Nat
      /\ Len(queue_hi') + Len(queue_lo) <= recirculated'
  <2>1. CASE UNCHANGED <<queue_hi, recirculated>>
    BY <1>8, <2>1
  <2>2. CASE /\ queue_hi' = PushHi(queue_hi, Copy(pkt, 0))
             /\ recirculated' = recirculated + Len(queue_hi') - Len(queue_hi)
    <3>1. /\ queue_hi' \in Seq(Located)
          /\ Len(queue_hi') \in Nat
          /\ Len(queue_hi') <= CapacityHi
          /\ Len(queue_hi) <= Len(queue_hi')
      BY <1>6, <1>8, <2>2, PushHiType
    <3>2. QED
      BY <1>8, <2>2, <3>1
  <2>3. QED
    BY <2>1, <2>2 DEF Serve, pkt
<1>10. /\ wire' \subseteq Wires
       /\ newest' \in [Classes -> Int]
       /\ DestinationKept'
  <2>1. CASE UNCHANGED <<wire, newest>>
    BY <1>1, <1>8, <2>1 DEF IInv, DestinationKept
  <2>2. CASE /\ wire' = {[packet |-> pkt, port |-> c[1],
                          to |-> destinations[pkt.address + 1]]}
             /\ newest' = IF pkt.intact THEN [newest EXCEPT ![c] = pkt.id]
                                        ELSE newest
    <3>1. /\ pkt \in Packets
          /\ pkt.address + 1 \in 1 .. Len(destinations)
          /\ pkt.intact /\ Len(destinations) <= AddressIndexes
               => destinations[pkt.address + 1] = pkt.destination
      BY <1>3 DEF Located
    <3>2. destinations[pkt.address + 1] \in Destinations /\ c[1] \in Ports
      BY <3>1 DEF IInv, TypeOK, Classes
    <3>3. wire' \subseteq Wires
      BY <2>2, <3>1, <3>2 DEF Wires
    <3>4. newest' \in [Classes -> Int]
      <4>1. pkt.id \in Int
        BY <3>1 DEF Packets
      <4>2. QED
        BY <1>8, <2>2, <4>1
    <3>5. DestinationKept'
      BY <1>1, <2>2, <3>1 DEF DestinationKept
    <3>6. QED
      BY <3>3, <3>4, <3>5
  <2>3. QED
    BY <2>1, <2>2 DEF Serve, pkt
<1>11. Located' = Located /\ Located \subseteq Packets
  BY <1>1 DEF Located
<1>12. /\ queue_hi' \in Seq(Packets)
       /\ queues' \in [Classes -> Seq(Packets)]
  BY <1>7, <1>9, <1>11, SeqMonotone
<1>13. TypeOK'
  BY <1>1, <1>7, <1>9, <1>10, <1>12 DEF IInv, TypeOK, CapacityHi, CapacityLo
<1>14. InputBounded'
  BY <1>1, <1>9 DEF InputBounded
<1>15. QED
  BY <1>1, <1>7, <1>9, <1>10, <1>11, <1>13, <1>14 DEF IInv

(* A poll that serves nothing, and a stutter. *)
LEMMA IdleInvariant ==
  ASSUME IInv, extra' \in BOOLEAN,
         UNCHANGED <<phase, inputs, queues, destinations, first_packet, wire,
                     history>>
  PROVE  IInv'
<1>1. Located' = Located
  BY DEF Located
<1>2. TypeOK'
  BY DEF IInv, TypeOK, inputs, history, CapacityHi, CapacityLo
<1>3. DestinationKept' /\ InputBounded'
  BY DEF IInv, DestinationKept, InputBounded, inputs, history
<1>4. QED
  BY <1>1, <1>2, <1>3 DEF IInv, inputs, CapacityLo

LEMMA NextInvariant ==
  ASSUME IInv, [Next]_vars
  PROVE  IInv'
<1>1. CASE \E d \in Destinations : Receive(d)
  BY <1>1, ReceiveInvariant
<1>2. CASE Ingress
  BY <1>2, IngressResubmitInvariant, IngressForwardInvariant DEF Ingress
<1>3. CASE EgressTimerServes
  <2>1. first_packet' \in BOOLEAN /\ extra' \in BOOLEAN
    BY <1>3 DEF EgressTimerServes, IInv, TypeOK
  <2>2. QED
    BY <1>3, <2>1, ServeInvariant DEF EgressTimerServes
<1>4. CASE ExtraPollServes
  <2>1. first_packet' \in BOOLEAN /\ extra' \in BOOLEAN
    BY <1>4 DEF ExtraPollServes, IInv, TypeOK
  <2>2. QED
    BY <1>4, <2>1, ServeInvariant DEF ExtraPollServes
<1>5. CASE EgressTimerIdles
  <2>1. extra' \in BOOLEAN
    BY <1>5 DEF EgressTimerIdles, IInv, TypeOK
  <2>2. QED
    BY <1>5, <2>1, IdleInvariant DEF EgressTimerIdles
<1>6. CASE ExtraPollIdles
  <2>1. extra' \in BOOLEAN
    BY <1>6 DEF ExtraPollIdles
  <2>2. QED
    BY <1>6, <2>1, IdleInvariant DEF ExtraPollIdles
<1>7. CASE UNCHANGED vars
  <2>1. extra' \in BOOLEAN
    BY <1>7 DEF vars, timer, IInv, TypeOK
  <2>2. QED
    BY <1>7, <2>1, IdleInvariant DEF vars, timer
<1>8. QED
  BY <1>1, <1>2, <1>3, <1>4, <1>5, <1>6, <1>7 DEF Next, EgressServes

-----------------------------------------------------------------------------

(* The inductive invariant holds in every reachable state. *)
THEOREM Invariant == Spec => []IInv
<1>1. Init => IInv
  BY InitInvariant
<1>2. IInv /\ [Next]_vars => IInv'
  BY NextInvariant
<1>3. QED
  BY <1>1, <1>2, PTL DEF Spec

(* Every variable keeps its type and no queue outgrows its capacity; in    *)
(* particular every packet's register indexes an address that exists.      *)
THEOREM TypeCorrect == Spec => []TypeOK
<1>1. IInv => TypeOK
  BY DEF IInv
<1>2. QED
  BY <1>1, Invariant, PTL

(* The input buffer holds no more packets between events than were         *)
(* recirculated, so it is empty when the P4 program recirculates none.     *)
THEOREM StrandedOnlyByRecirculation == Spec => []StrandedByRecirculation
<1>1. IInv => StrandedByRecirculation
  BY DEF IInv, TypeOK, InputBounded, StrandedByRecirculation
<1>2. QED
  BY <1>1, Invariant, PTL

(* The simulation hangs only after InputBufferSizeHigh recirculations. *)
THEOREM BlockedOnlyByRecirculation == Spec => []BlockedByRecirculation
<1>1. IInv => BlockedByRecirculation
  <2> SUFFICES ASSUME IInv, phase = "blocked"
               PROVE  recirculated >= InputBufferSizeHigh
    BY DEF BlockedByRecirculation
  <2>1. /\ Len(queue_lo) = InputBufferSizeHigh
        /\ Len(queue_hi) + Len(queue_lo) <= recirculated
        /\ Len(queue_hi) \in Nat /\ Len(queue_lo) \in Nat
        /\ recirculated \in Nat
    BY DEF IInv, TypeOK, InputBounded, CapacityLo
  <2>2. QED
    BY <2>1, ConstantsAssumption
<1>2. QED
  BY <1>1, Invariant, PTL

(* A packet that was never copied is sent to its own address. *)
THEOREM DestinationAlwaysKept == Spec => []DestinationKept
<1>1. IInv => DestinationKept
  BY DEF IInv
<1>2. QED
  BY <1>1, Invariant, PTL

(* With the primitives of the tree nothing is ever recirculated ... *)
LEMMA NothingRecirculated ==
  ASSUME ~RegistersSet
  PROVE  Spec => [](recirculated = 0)
<1>1. Init => recirculated = 0
  BY DEF Init
<1>2. recirculated = 0 /\ [Next]_vars => (recirculated = 0)'
  <2> SUFFICES ASSUME recirculated = 0, [Next]_vars
               PROVE  recirculated' = 0
    OBVIOUS
  <2>1. ASSUME NEW c \in Classes, NEW v \in EgressVerdicts, Serve(c, v)
        PROVE  recirculated' = 0
    BY <2>1 DEF Serve, Recirculates
  <2>2. CASE EgressServes
    BY <2>1, <2>2 DEF EgressServes, EgressTimerServes, ExtraPollServes
  <2>3. CASE Ingress
    BY <2>3 DEF Ingress, IngressResubmit, IngressForward, history
  <2>4. CASE \/ \E d \in Destinations : Receive(d)
             \/ EgressTimerIdles \/ ExtraPollIdles \/ UNCHANGED vars
    BY <2>4 DEF Receive, EgressTimerIdles, ExtraPollIdles, vars, history
  <2>5. QED
    BY <2>2, <2>3, <2>4 DEF Next
<1>3. QED
  BY <1>1, <1>2, PTL DEF Spec

(* ... so no call of ReceivePacket ever hangs, as long as its queue has    *)
(* room for one packet.                                                    *)
THEOREM NeverBlocks ==
  ASSUME ~RegistersSet, InputBufferSizeHigh # 0
  PROVE  Spec => [](phase # "blocked")
<1>1. recirculated = 0 /\ BlockedByRecirculation => phase # "blocked"
  BY ConstantsAssumption DEF BlockedByRecirculation
<1>2. QED
  BY <1>1, NothingRecirculated, BlockedOnlyByRecirculation, PTL

-----------------------------------------------------------------------------
(* Packets of a class leave in the order they were received.  Besides      *)
(* the order within each queue it takes that whatever is received, or      *)
(* still waits in the input buffer, is newer than all that went ahead: a   *)
(* packet may wait there for several others, behind recirculated ones.     *)

(* Below(qs, nw, x): every original in the queues qs, and every one that   *)
(* was sent, is older than packet x.                                       *)
Below(qs, nw, x) ==
  \A c \in Classes :
    /\ nw[c] < x
    /\ \A n \in DOMAIN qs[c] : qs[c][n].intact => qs[c][n].id < x

(* Aged(qs, nw): the originals in each queue are newer than those sent     *)
(* from it, and than those ahead of them.                                  *)
Aged(qs, nw) ==
  \A c \in Classes : \A n \in DOMAIN qs[c] :
    qs[c][n].intact =>
      /\ nw[c] < qs[c][n].id
      /\ \A m \in DOMAIN qs[c] :
           m < n /\ qs[c][m].intact => qs[c][m].id < qs[c][n].id

(* Waiting(lo): the packets of lo are in the order they were received. *)
Waiting(lo) ==
  \A n \in DOMAIN lo :
    /\ lo[n].id < received
    /\ Below(queues, newest, lo[n].id)
    /\ \A m \in DOMAIN lo : m < n => lo[m].id < lo[n].id

OInv ==
  /\ IInv
  /\ \A n \in DOMAIN queue_hi : ~queue_hi[n].intact
  /\ Aged(queues, newest)
  /\ Below(queues, newest, received)
  /\ Waiting(queue_lo)

LEMMA LocatedPackets == Located \subseteq Packets
BY DEF Located

(* The orders, of a queue and of a packet behind it.                       *)
LEMMA EnqueueAged ==
  ASSUME NEW qs \in [Classes -> Seq(Packets)], NEW nw \in [Classes -> Int],
         NEW ports, NEW pkt \in Packets, Aged(qs, nw),
         pkt.intact => Below(qs, nw, pkt.id)
  PROVE  Aged(Enqueue(qs, ports, pkt), nw)
<1> DEFINE es == Enqueue(qs, ports, pkt)
<1>1. ASSUME NEW c \in Classes, NEW n \in DOMAIN es[c]
      PROVE  /\ n \in Nat
             /\ \/ n \in DOMAIN qs[c] /\ es[c][n] = qs[c][n]
                \/ n = Len(qs[c]) + 1 /\ es[c][n] = pkt
  <2>1. \/ n \in DOMAIN qs[c] /\ es[c][n] = qs[c][n]
        \/ n = Len(qs[c]) + 1 /\ es[c][n] = pkt
    BY <1>1, EnqueueElements
  <2>2. qs[c] \in Seq(Packets)
    OBVIOUS
  <2> HIDE DEF es
  <2>3. QED
    BY <2>1, <2>2
<1> HIDE DEF es
<1>2. ASSUME NEW c \in Classes, NEW n \in DOMAIN es[c], es[c][n].intact
      PROVE  /\ nw[c] < es[c][n].id
             /\ \A m \in DOMAIN es[c] :
                  m < n /\ es[c][m].intact => es[c][m].id < es[c][n].id
  <2>0. qs[c] \in Seq(Packets) /\ Len(qs[c]) \in Nat
    OBVIOUS
  <2>1. CASE n \in DOMAIN qs[c] /\ es[c][n] = qs[c][n]
    <3>1. /\ nw[c] < qs[c][n].id
          /\ \A m \in DOMAIN qs[c] :
               m < n /\ qs[c][m].intact => qs[c][m].id < qs[c][n].id
      BY <1>2, <2>1 DEF Aged
    <3>2. ASSUME NEW m \in DOMAIN es[c], m < n, es[c][m].intact
          PROVE  es[c][m].id < es[c][n].id
      <4>1. m # Len(qs[c]) + 1
        BY <2>0, <2>1, <3>2
      <4>2. m \in DOMAIN qs[c] /\ es[c][m] = qs[c][m]
        BY <1>1, <4>1
      <4>3. QED
        BY <2>1, <3>1, <3>2, <4>2
    <3>3. QED
      BY <2>1, <3>1, <3>2
  <2>2. CASE n = Len(qs[c]) + 1 /\ es[c][n] = pkt
    <3>1. /\ nw[c] < pkt.id
          /\ \A m \in DOMAIN qs[c] : qs[c][m].intact => qs[c][m].id < pkt.id
      BY <1>2, <2>2 DEF Below
    <3>2. ASSUME NEW m \in DOMAIN es[c], m < n, es[c][m].intact
          PROVE  es[c][m].id < es[c][n].id
      <4>1. m # Len(qs[c]) + 1
        BY <2>0, <2>2, <3>2
      <4>2. m \in DOMAIN qs[c] /\ es[c][m] = qs[c][m]
        BY <1>1, <4>1
      <4>3. QED
        BY <2>2, <3>1, <3>2, <4>2
    <3>3. QED
      BY <2>2, <3>1, <3>2
  <2>3. QED
    BY <1>1, <2>1, <2>2
<1>3. QED
  BY <1>2 DEF Aged, es

LEMMA EnqueueBelow ==
  ASSUME NEW qs \in [Classes -> Seq(Packets)], NEW nw, NEW x,
         NEW ports, NEW pkt \in Packets, Below(qs, nw, x),
         pkt.intact => pkt.id < x
  PROVE  Below(Enqueue(qs, ports, pkt), nw, x)
<1> DEFINE es == Enqueue(qs, ports, pkt)
<1>1. ASSUME NEW c \in Classes, NEW n \in DOMAIN es[c], es[c][n].intact
      PROVE  es[c][n].id < x
  <2>1. \/ n \in DOMAIN qs[c] /\ es[c][n] = qs[c][n]
        \/ n = Len(qs[c]) + 1 /\ es[c][n] = pkt
    BY <1>1, EnqueueElements
  <2> HIDE DEF es
  <2>2. QED
    BY <1>1, <2>1 DEF Below
<1> HIDE DEF es
<1>2. QED
  BY <1>1 DEF Below, es

(* The copies of a clone are no originals, so they disturb neither order. *)
LEMMA MirrorAged ==
  ASSUME NEW qs \in [Classes -> Seq(Packets)], NEW nw \in [Classes -> Int],
         NEW session, NEW clone \in Packets, ~clone.intact, Aged(qs, nw),
         \A c \in Classes : Len(qs[c]) <= QueueBufferSize
  PROVE  Aged(Mirror(qs, session, clone), nw)
<1> DEFINE group == Enqueue(qs, GroupPorts(Sessions[session].mgids), clone)
<1>1. group \in [Classes -> Seq(Packets)]
  BY EnqueueType
<1>2. Aged(group, nw)
  BY EnqueueAged
<1> HIDE DEF group
<1>3. Aged(Enqueue(group, Sessions[session].ports, clone), nw)
  BY <1>1, <1>2, EnqueueAged
<1>4. QED
  BY <1>3 DEF Mirror, group

LEMMA MirrorBelow ==
  ASSUME NEW qs \in [Classes -> Seq(Packets)], NEW nw, NEW x,
         NEW session, NEW clone \in Packets, ~clone.intact, Below(qs, nw, x),
         \A c \in Classes : Len(qs[c]) <= QueueBufferSize
  PROVE  Below(Mirror(qs, session, clone), nw, x)
<1> DEFINE group == Enqueue(qs, GroupPorts(Sessions[session].mgids), clone)
<1>1. group \in [Classes -> Seq(Packets)]
  BY EnqueueType
<1>2. Below(group, nw, x)
  BY EnqueueBelow
<1> HIDE DEF group
<1>3. Below(Enqueue(group, Sessions[session].ports, clone), nw, x)
  BY <1>1, <1>2, EnqueueBelow
<1>4. QED
  BY <1>3 DEF Mirror, group

(* What pop_back takes is older than what it leaves, and newer than all    *)
(* that went ahead, if it is an original.                                  *)
LEMMA PopOrder ==
  ASSUME OInv, ~InputEmpty
  PROVE  /\ InputHead.intact => /\ Below(queues, newest, InputHead.id)
                                /\ InputHead.id < received
                                /\ \A n \in DOMAIN LoAfterPop :
                                     InputHead.id < LoAfterPop[n].id
         /\ \A n \in DOMAIN HiAfterPop : ~HiAfterPop[n].intact
         /\ Waiting(LoAfterPop)
<1>1. /\ queue_hi \in Seq(Packets) /\ queue_lo \in Seq(Packets)
      /\ \A n \in DOMAIN queue_hi : ~queue_hi[n].intact
      /\ Waiting(queue_lo)
  BY DEF OInv, IInv, TypeOK
<1>2. CASE queue_hi # <<>>
  <2>1. /\ InputHead = Head(queue_hi) /\ HiAfterPop = Tail(queue_hi)
        /\ LoAfterPop = queue_lo
    BY <1>2 DEF InputHead, HiAfterPop, LoAfterPop
  <2>2. /\ 1 \in DOMAIN queue_hi /\ Head(queue_hi) = queue_hi[1]
        /\ \A n \in DOMAIN Tail(queue_hi) :
             n + 1 \in DOMAIN queue_hi /\ Tail(queue_hi)[n] = queue_hi[n + 1]
    BY <1>1, <1>2, TailElements
  <2>3. ~InputHead.intact
    BY <1>1, <2>1, <2>2
  <2>4. \A n \in DOMAIN HiAfterPop : ~HiAfterPop[n].intact
    BY <1>1, <2>1, <2>2
  <2>5. QED
    BY <1>1, <2>1, <2>3, <2>4
<1>3. CASE queue_hi = <<>>
  <2>1. /\ queue_lo # <<>>
        /\ InputHead = Head(queue_lo) /\ HiAfterPop = queue_hi
        /\ LoAfterPop = Tail(queue_lo)
    BY <1>3 DEF InputEmpty, InputHead, HiAfterPop, LoAfterPop
  <2>2. /\ 1 \in DOMAIN queue_lo /\ Head(queue_lo) = queue_lo[1]
        /\ \A n \in DOMAIN Tail(queue_lo) :
             /\ n \in Nat \ {0}
             /\ n + 1 \in DOMAIN queue_lo /\ Tail(queue_lo)[n] = queue_lo[n + 1]
    BY <1>1, <2>1, TailElements
  <2>3. \A n \in DOMAIN queue_lo :
          /\ queue_lo[n].id < received
          /\ Below(queues, newest, queue_lo[n].id)
          /\ \A m \in DOMAIN queue_lo : m < n => queue_lo[m].id < queue_lo[n].id
    BY <1>1 DEF Waiting
  <2>4. Below(queues, newest, InputHead.id) /\ InputHead.id < received
    BY <2>1, <2>2, <2>3
  <2>5. ASSUME NEW n \in DOMAIN LoAfterPop
        PROVE  /\ InputHead.id < LoAfterPop[n].id
               /\ LoAfterPop[n].id < received
               /\ Below(queues, newest, LoAfterPop[n].id)
               /\ \A m \in DOMAIN LoAfterPop :
                    m < n => LoAfterPop[m].id < LoAfterPop[n].id
    <3>1. /\ n \in Nat \ {0} /\ n + 1 \in DOMAIN queue_lo
          /\ LoAfterPop[n] = queue_lo[n + 1]
      BY <2>1, <2>2
    <3>2. 1 < n + 1
      BY <3>1
    <3>3. InputHead.id < LoAfterPop[n].id
      BY <2>1, <2>2, <2>3, <3>1, <3>2
    <3>4. ASSUME NEW m \in DOMAIN LoAfterPop, m < n
          PROVE  LoAfterPop[m].id < LoAfterPop[n].id
      <4>1. /\ m \in Nat \ {0} /\ m + 1 \in DOMAIN queue_lo
            /\ LoAfterPop[m] = queue_lo[m + 1]
        BY <2>1, <2>2
      <4>2. m + 1 < n + 1
        BY <3>1, <3>4, <4>1
      <4>3. QED
        BY <2>3, <3>1, <4>1, <4>2
    <3>5. QED
      BY <2>3, <3>1, <3>3, <3>4
  <2>6. Waiting(LoAfterPop)
    BY <2>5 DEF Waiting
  <2>7. QED
    BY <1>1, <2>1, <2>4, <2>5, <2>6
<1>4. QED
  BY <1>2, <1>3

(* A push into queue_hi of a copy leaves no original there. *)
LEMMA PushHiOrder ==
  ASSUME NEW hi \in Seq(Packets), NEW pkt \in Packets, ~pkt.intact,
         \A n \in DOMAIN hi : ~hi[n].intact
  PROVE  \A n \in DOMAIN PushHi(hi, pkt) : ~PushHi(hi, pkt)[n].intact
<1>1. \A n \in DOMAIN Append(hi, pkt) : ~Append(hi, pkt)[n].intact
  BY AppendElements
<1>2. QED
  BY <1>1 DEF PushHi

LEMMA InitOrder == Init => OInv
<1> SUFFICES ASSUME Init PROVE OInv
  OBVIOUS
<1>1. IInv
  BY InitInvariant
<1>2. /\ queues = [c \in Classes |-> <<>>] /\ newest = [c \in Classes |-> -1]
      /\ received = 0 /\ queue_hi = <<>> /\ queue_lo = <<>>
  BY DEF Init
<1>3. Aged(queues, newest) /\ Below(queues, newest, received)
  BY <1>2 DEF Aged, Below
<1>4. QED
  BY <1>1, <1>2, <1>3 DEF OInv, Waiting

LEMMA ReceiveOrder ==
  ASSUME OInv, NEW d \in Destinations, Receive(d)
  PROVE  OInv'
<1> DEFINE pkt == [id |-> received, priority |-> 0,
                   address |-> AddressIndex(d) % AddressIndexes,
                   destination |-> d, intact |-> TRUE, hops |-> 0]
<1>1. /\ received' = received + 1
      /\ UNCHANGED <<queue_hi, queues, newest>>
      /\ queue_lo' = queue_lo \/ queue_lo' = Append(queue_lo, pkt)
  BY DEF Receive
<1>2. IInv'
  BY ReceiveInvariant DEF OInv
<1>3. /\ received \in Nat /\ newest \in [Classes -> Int]
      /\ queues \in [Classes -> Seq(Packets)]
      /\ queue_lo \in Seq(Packets)
      /\ Aged(queues, newest) /\ Below(queues, newest, received)
      /\ Waiting(queue_lo)
  BY DEF OInv, IInv, TypeOK
<1>4. \A p \in Packets : p.id \in Nat
  BY DEF Packets
<1>5. Aged(queues', newest')
  BY <1>1, <1>3
<1>6. Below(queues', newest', received')
  <2>1. ASSUME NEW c \in Classes
        PROVE  /\ newest[c] < received + 1
               /\ \A n \in DOMAIN queues[c] :
                    queues[c][n].intact => queues[c][n].id < received + 1
    <3>1. queues[c] \in Seq(Packets) /\ newest[c] \in Int
      BY <1>3
    <3>2. \A n \in DOMAIN queues[c] : queues[c][n].id \in Nat
      BY <1>4, <3>1
    <3>3. QED
      BY <1>3, <3>1, <3>2 DEF Below
  <2>2. QED
    BY <1>1, <2>1 DEF Below
<1>7. pkt.id = received
  OBVIOUS
<1> HIDE DEF pkt
<1>8. \A n \in DOMAIN queue_lo :
        /\ queue_lo[n].id < received /\ queue_lo[n].id \in Nat
        /\ Below(queues, newest, queue_lo[n].id)
        /\ \A m \in DOMAIN queue_lo : m < n => queue_lo[m].id < queue_lo[n].id
  BY <1>3, <1>4 DEF Waiting
<1>9. ASSUME NEW n \in DOMAIN queue_lo'
      PROVE  /\ queue_lo'[n].id < received'
             /\ Below(queues', newest', queue_lo'[n].id)
             /\ \A m \in DOMAIN queue_lo' :
                  m < n => queue_lo'[m].id < queue_lo'[n].id
  <2>1. CASE queue_lo' = queue_lo
    BY <1>1, <1>3, <1>8, <2>1
  <2>2. CASE queue_lo' = Append(queue_lo, pkt)
    <3>1. \A k \in DOMAIN queue_lo' :
            \/ k \in DOMAIN queue_lo /\ queue_lo'[k] = queue_lo[k]
            \/ k = Len(queue_lo) + 1 /\ queue_lo'[k] = pkt
      BY <1>3, <2>2
    <3>2. CASE n \in DOMAIN queue_lo /\ queue_lo'[n] = queue_lo[n]
      <4>1. ASSUME NEW m \in DOMAIN queue_lo', m < n
            PROVE  queue_lo'[m].id < queue_lo'[n].id
        <5>1. m # Len(queue_lo) + 1
          BY <1>3, <3>2, <4>1
        <5>2. QED
          BY <1>8, <3>1, <3>2, <4>1, <5>1
      <4>2. QED
        BY <1>1, <1>3, <1>8, <3>2, <4>1
    <3>3. CASE n = Len(queue_lo) + 1 /\ queue_lo'[n] = pkt
      <4>1. ASSUME NEW m \in DOMAIN queue_lo', m < n
            PROVE  queue_lo'[m].id < queue_lo'[n].id
        <5>1. m # Len(queue_lo) + 1
          BY <1>3, <3>3, <4>1
        <5>2. QED
          BY <1>7, <1>8, <3>1, <3>3, <5>1
      <4>2. QED
        BY <1>1, <1>3, <1>7, <3>3, <4>1
    <3>4. QED
      BY <3>1, <3>2, <3>3
  <2>3. QED
    BY <1>1, <2>1, <2>2
<1>10. Waiting(queue_lo)'
  BY <1>9 DEF Waiting
<1>11. QED
  BY <1>1, <1>2, <1>5, <1>6, <1>10 DEF OInv

(* The clone of an ingress pipeline disturbs neither order. *)
LEMMA AfterIngressCloneOrder ==
  ASSUME OInv, ~InputEmpty, NEW v \in IngressVerdicts
  PROVE  /\ AfterIngressClone(v) \in [Classes -> Seq(Packets)]
         /\ Aged(AfterIngressClone(v), newest)
         /\ Below(AfterIngressClone(v), newest, received)
         /\ InputHead.intact => Below(AfterIngressClone(v), newest, InputHead.id)
         /\ \A n \in DOMAIN LoAfterPop :
              Below(AfterIngressClone(v), newest, LoAfterPop[n].id)
<1> DEFINE clone == Copy(InputHead, v.clone_priority)
<1>1. /\ IInv
      /\ queues \in [Classes -> Seq(Packets)] /\ newest \in [Classes -> Int]
      /\ \A c \in Classes : Len(queues[c]) <= QueueBufferSize
      /\ Aged(queues, newest) /\ Below(queues, newest, received)
  BY DEF OInv, IInv, TypeOK
<1>2. v.clone_priority \in Nat
  BY ConstantsAssumption DEF IngressVerdict
<1>3. clone \in Packets /\ ~clone.intact
  BY <1>1, <1>2, PopType, CopyLocated, LocatedPackets DEF Copy
<1>4. AfterIngressClone(v) = Mirror(queues, CloneSession(v), clone)
  BY DEF AfterIngressClone
<1> HIDE DEF clone
<1>5. AfterIngressClone(v) \in [Classes -> Seq(Packets)]
  BY <1>1, <1>3, <1>4, MirrorType
<1>6. Aged(AfterIngressClone(v), newest)
  BY <1>1, <1>3, <1>4, MirrorAged
<1>7. ASSUME NEW x, Below(queues, newest, x)
      PROVE  Below(AfterIngressClone(v), newest, x)
  BY <1>1, <1>3, <1>4, <1>7, MirrorBelow
<1>8. Below(AfterIngressClone(v), newest, received)
  BY <1>1, <1>7
<1>9. InputHead.intact => Below(AfterIngressClone(v), newest, InputHead.id)
  BY <1>7, PopOrder
<1>10. \A n \in DOMAIN LoAfterPop :
         Below(AfterIngressClone(v), newest, LoAfterPop[n].id)
  BY <1>7, PopOrder DEF Waiting
<1>11. QED
  BY <1>5, <1>6, <1>8, <1>9, <1>10

(* A call of HandleIngressPipeline: it is enough that it keeps the queues  *)
(* aged and below what is still to come.                                   *)
LEMMA IngressOrder ==
  ASSUME OInv, ~InputEmpty, IInv', UNCHANGED <<received, newest>>,
         queue_lo' = LoAfterPop,
         \A n \in DOMAIN queue_hi' : ~queue_hi'[n].intact,
         Aged(queues', newest), Below(queues', newest, received),
         \A n \in DOMAIN LoAfterPop : Below(queues', newest, LoAfterPop[n].id)
  PROVE  OInv'
<1>1. \A n \in DOMAIN LoAfterPop :
        /\ LoAfterPop[n].id < received
        /\ \A m \in DOMAIN LoAfterPop : m < n => LoAfterPop[m].id < LoAfterPop[n].id
  BY PopOrder DEF Waiting
<1>2. Waiting(queue_lo)'
  BY <1>1 DEF Waiting
<1>3. Aged(queues, newest)' /\ Below(queues, newest, received)'
  OBVIOUS
<1>4. QED
  BY <1>2, <1>3 DEF OInv

LEMMA IngressResubmitOrder ==
  ASSUME OInv, NEW v \in IngressVerdicts, IngressResubmit(v)
  PROVE  OInv'
<1>1. /\ ~InputEmpty
      /\ queues' = AfterIngressClone(v)
      /\ queue_hi' = PushHi(HiAfterPop, Copy(InputHead, 0))
      /\ queue_lo' = LoAfterPop
      /\ UNCHANGED <<received, newest>>
  BY DEF IngressResubmit, history
<1>2. IInv /\ IInv'
  BY IngressResubmitInvariant DEF OInv
<1>3. /\ Copy(InputHead, 0) \in Packets /\ ~Copy(InputHead, 0).intact
  BY <1>1, <1>2, PopType, CopyLocated, LocatedPackets DEF Copy
<1>4. /\ HiAfterPop \in Seq(Packets)
      /\ \A n \in DOMAIN HiAfterPop : ~HiAfterPop[n].intact
  BY <1>1, <1>2, PopType, PopOrder, LocatedPackets, SeqMonotone
<1>5. \A n \in DOMAIN queue_hi' : ~queue_hi'[n].intact
  BY <1>1, <1>3, <1>4, PushHiOrder
<1>6. /\ Aged(queues', newest) /\ Below(queues', newest, received)
      /\ \A n \in DOMAIN LoAfterPop : Below(queues', newest, LoAfterPop[n].id)
  BY <1>1, AfterIngressCloneOrder
<1>7. QED
  BY <1>1, <1>2, <1>5, <1>6, IngressOrder

LEMMA IngressForwardOrder ==
  ASSUME OInv, NEW v \in IngressVerdicts, IngressForward(v)
  PROVE  OInv'
<1> DEFINE qs == AfterIngressClone(v)
<1>1. /\ ~InputEmpty
      /\ queue_hi' = HiAfterPop
      /\ queue_lo' = LoAfterPop
      /\ UNCHANGED <<received, newest>>
  BY DEF IngressForward, history
<1>2. IInv /\ IInv'
  BY IngressForwardInvariant DEF OInv
<1>3. \A n \in DOMAIN queue_hi' : ~queue_hi'[n].intact
  BY <1>1, PopOrder
<1>4. /\ qs \in [Classes -> Seq(Packets)]
      /\ Aged(qs, newest) /\ Below(qs, newest, received)
      /\ InputHead.intact => Below(qs, newest, InputHead.id)
      /\ \A n \in DOMAIN LoAfterPop : Below(qs, newest, LoAfterPop[n].id)
  BY <1>1, AfterIngressCloneOrder
<1>5. newest \in [Classes -> Int]
  BY <1>2 DEF IInv, TypeOK
<1>6. v.priority \in Nat
  BY ConstantsAssumption DEF IngressVerdict
<1>7. InputHead \in Packets /\ InputHead \in Located
  BY <1>1, <1>2, PopType, LocatedPackets
(* What the pipeline enqueues last, to any ports, is a copy or the head.   *)
<1>8. ASSUME NEW ports, NEW pkt \in Packets,
             pkt.intact => InputHead.intact /\ pkt.id = InputHead.id,
             queues' = Enqueue(qs, ports, pkt)
      PROVE  OInv'
  <2>1. pkt.intact => /\ Below(qs, newest, pkt.id)
                      /\ pkt.id < received
                      /\ \A n \in DOMAIN LoAfterPop : pkt.id < LoAfterPop[n].id
    BY <1>1, <1>4, <1>8, PopOrder
  <2> HIDE DEF qs
  <2>2. Aged(queues', newest)
    BY <1>4, <1>5, <1>8, <2>1, EnqueueAged
  <2>3. Below(queues', newest, received)
    BY <1>4, <1>8, <2>1, EnqueueBelow
  <2>4. ASSUME NEW n \in DOMAIN LoAfterPop
        PROVE  Below(queues', newest, LoAfterPop[n].id)
    <3>1. Below(qs, newest, LoAfterPop[n].id)
      BY <1>4
    <3>2. pkt.intact => pkt.id < LoAfterPop[n].id
      BY <2>1
    <3>3. QED
      BY <1>4, <1>8, <3>1, <3>2, EnqueueBelow
  <2>5. QED
    BY <1>1, <1>2, <1>3, <2>2, <2>3, <2>4, IngressOrder
<1>9. CASE queues' = Enqueue(qs, GroupPorts({v.mcast_grp}),
                             Copy(InputHead, v.priority))
  <2>1. Copy(InputHead, v.priority) \in Packets
        /\ ~Copy(InputHead, v.priority).intact
    BY <1>2, <1>6, <1>7, CopyLocated, LocatedPackets DEF Copy
  <2>2. QED
    BY <1>8, <1>9, <2>1
<1>10. CASE queues' = qs
  BY <1>1, <1>2, <1>3, <1>4, <1>10, IngressOrder
<1>11. CASE queues' = Enqueue(qs, {v.egress_spec},
                              [InputHead EXCEPT !.priority = v.priority])
  <2> DEFINE pkt == [InputHead EXCEPT !.priority = v.priority]
  <2>1. /\ pkt \in Packets
        /\ pkt.intact = InputHead.intact /\ pkt.id = InputHead.id
    BY <1>6, <1>7 DEF Packets
  <2> HIDE DEF pkt
  <2>2. queues' = Enqueue(qs, {v.egress_spec}, pkt)
    BY <1>11 DEF pkt
  <2> HIDE DEF qs
  <2>3. QED
    BY <1>8, <2>1, <2>2
<1>12. QED
  BY <1>9, <1>10, <1>11 DEF IngressForward

(* Serving a class takes its oldest packet: the others stay newer than     *)
(* what was sent.                                                          *)
LEMMA ServeOrder ==
  ASSUME OInv, NEW c \in Classes, NEW v \in EgressVerdicts, Serve(c, v), IInv'
  PROVE  /\ OInv'
         /\ \A k \in Classes : newest'[k] >= newest[k]
<1> DEFINE pkt == Head(queues[c])
           popped == [queues EXCEPT ![c] = Tail(queues[c])]
           clone == Copy(pkt, v.clone_priority)
<1>1. /\ queues[c] # <<>>
      /\ queues' = Mirror(popped, CloneSession(v), clone)
      /\ UNCHANGED <<queue_lo, received>>
      /\ \/ UNCHANGED <<queue_hi, newest>>
         \/ /\ queue_hi' = PushHi(queue_hi, Copy(pkt, 0))
            /\ UNCHANGED newest
         \/ /\ newest' = IF pkt.intact THEN [newest EXCEPT ![c] = pkt.id]
                                       ELSE newest
            /\ UNCHANGED queue_hi
  BY DEF Serve
<1>2. /\ IInv
      /\ received \in Nat
      /\ queues \in [Classes -> Seq(Located)]
      /\ queues \in [Classes -> Seq(Packets)] /\ newest \in [Classes -> Int]
      /\ newest' \in [Classes -> Int]
      /\ queue_hi \in Seq(Packets) /\ queue_lo \in Seq(Packets)
      /\ \A k \in Classes : Len(queues[k]) <= QueueBufferSize
      /\ Aged(queues, newest) /\ Below(queues, newest, received)
      /\ Waiting(queue_lo)
      /\ \A n \in DOMAIN queue_hi : ~queue_hi[n].intact
  BY DEF OInv, IInv, TypeOK
<1>3. /\ queues[c] \in Seq(Packets)
      /\ 1 \in DOMAIN queues[c] /\ pkt = queues[c][1]
      /\ \A n \in DOMAIN Tail(queues[c]) :
           /\ n \in Nat \ {0} /\ n + 1 \in DOMAIN queues[c]
           /\ Tail(queues[c])[n] = queues[c][n + 1]
  <2>1. queues[c] \in Seq(Packets)
    BY <1>2
  <2>2. QED
    BY <1>1, <2>1, TailElements
<1>4. pkt \in Located /\ pkt \in Packets /\ pkt.id \in Nat
  <2>1. queues[c] \in Seq(Located)
    BY <1>2
  <2>2. pkt \in Located
    BY <1>1, <2>1, TailType
  <2>3. QED
    BY <2>2, LocatedPackets DEF Packets
<1>5. /\ popped \in [Classes -> Seq(Packets)]
      /\ \A k \in Classes : Len(popped[k]) <= QueueBufferSize
  <2>1. /\ Tail(queues[c]) \in Seq(Packets)
        /\ Len(Tail(queues[c])) = Len(queues[c]) - 1
        /\ Len(queues[c]) \in Nat \ {0}
    BY <1>1, <1>3, TailType
  <2>2. Len(Tail(queues[c])) <= QueueBufferSize
    BY <1>2, <2>1, CoreAssumption
  <2>3. QED
    BY <1>2, <2>1, <2>2
<1>6. clone \in Packets /\ ~clone.intact
      /\ Copy(pkt, 0) \in Packets /\ ~Copy(pkt, 0).intact
  <2>1. v.clone_priority \in Nat
    BY ConstantsAssumption DEF EgressVerdict
  <2>2. QED
    BY <1>2, <1>4, <2>1, CopyLocated, LocatedPackets DEF Copy
<1>7. /\ popped[c] = Tail(queues[c])
      /\ \A k \in Classes \ {c} : popped[k] = queues[k]
  BY <1>2
<1>8. /\ pkt.intact => newest[c] < pkt.id
      /\ \A k \in Classes \ {c} : newest'[k] = newest[k]
      /\ \/ newest'[c] = newest[c]
         \/ pkt.intact /\ newest'[c] = pkt.id
  <2>1. queues[c][1].intact => newest[c] < queues[c][1].id
    BY <1>2, <1>3 DEF Aged
  <2>2. pkt.intact => newest[c] < pkt.id
    BY <1>3, <2>1
  <2> HIDE DEF pkt, popped, clone
  <2>3. \/ newest' = newest
        \/ newest' = IF pkt.intact THEN [newest EXCEPT ![c] = pkt.id] ELSE newest
    BY <1>1
  <2>4. CASE newest' = newest
    BY <1>2, <2>2, <2>4
  <2>5. CASE pkt.intact /\ newest' = [newest EXCEPT ![c] = pkt.id]
    <3>1. \A k \in Classes : newest'[k] = IF k = c THEN pkt.id ELSE newest[k]
      BY <1>2, <2>5
    <3>2. QED
      BY <2>2, <2>5, <3>1
  <2>6. QED
    BY <2>3, <2>4, <2>5
<1> HIDE DEF pkt, popped, clone
(* Each queue is still aged, now against newest'. *)
<1>9. Aged(popped, newest')
  <2>1. ASSUME NEW k \in Classes, NEW n \in DOMAIN popped[k],
               popped[k][n].intact
        PROVE  /\ newest'[k] < popped[k][n].id
               /\ \A m \in DOMAIN popped[k] :
                    m < n /\ popped[k][m].intact => popped[k][m].id < popped[k][n].id
    <3>1. CASE k # c
      BY <1>2, <1>7, <1>8, <2>1, <3>1 DEF Aged
    <3>2. CASE k = c
      <4>0. \A i \in DOMAIN queues[c] :
              queues[c][i].intact =>
                /\ newest[c] < queues[c][i].id
                /\ \A j \in DOMAIN queues[c] :
                     j < i /\ queues[c][j].intact => queues[c][j].id < queues[c][i].id
        BY <1>2 DEF Aged
      <4>1. /\ n \in Nat \ {0} /\ n + 1 \in DOMAIN queues[c]
            /\ popped[c][n] = queues[c][n + 1]
        BY <1>3, <1>7, <2>1, <3>2
      <4>2. 1 < n + 1
        BY <4>1
      <4>3. /\ newest[c] < queues[c][n + 1].id
            /\ \A j \in DOMAIN queues[c] :
                 j < n + 1 /\ queues[c][j].intact
                   => queues[c][j].id < queues[c][n + 1].id
        BY <2>1, <3>2, <4>0, <4>1
      <4>4. pkt.intact => pkt.id < queues[c][n + 1].id
        BY <1>3, <4>2, <4>3
      <4>5. newest'[c] < popped[c][n].id
        BY <1>8, <4>1, <4>3, <4>4
      <4>6. ASSUME NEW m \in DOMAIN popped[c], m < n, popped[c][m].intact
            PROVE  popped[c][m].id < popped[c][n].id
        <5>1. /\ m \in Nat \ {0} /\ m + 1 \in DOMAIN queues[c]
              /\ popped[c][m] = queues[c][m + 1]
          BY <1>3, <1>7
        <5>2. m + 1 < n + 1
          BY <4>1, <4>6, <5>1
        <5>3. QED
          BY <4>1, <4>3, <4>6, <5>1, <5>2
      <4>7. QED
        BY <3>2, <4>5, <4>6
    <3>3. QED
      BY <3>1, <3>2
  <2>2. QED
    BY <2>1 DEF Aged
(* What is to come is still newer than all of it. *)
<1>10. ASSUME NEW x, Below(queues, newest, x)
       PROVE  Below(popped, newest', x)
  <2>1. ASSUME NEW k \in Classes
        PROVE  /\ newest'[k] < x
               /\ \A n \in DOMAIN popped[k] : popped[k][n].intact => popped[k][n].id < x
    <3>1. CASE k # c
      BY <1>7, <1>8, <1>10, <3>1 DEF Below
    <3>2. CASE k = c
      <4>1. /\ newest[c] < x
            /\ \A n \in DOMAIN queues[c] : queues[c][n].intact => queues[c][n].id < x
        BY <1>10 DEF Below
      <4>2. newest'[c] < x
        BY <1>3, <1>8, <4>1
      <4>3. \A n \in DOMAIN popped[c] : popped[c][n].intact => popped[c][n].id < x
        BY <1>3, <1>7, <4>1
      <4>4. QED
        BY <3>2, <4>2, <4>3
    <3>3. QED
      BY <3>1, <3>2
  <2>2. QED
    BY <2>1 DEF Below
<1>11. Aged(queues', newest')
  BY <1>1, <1>2, <1>5, <1>6, <1>9, MirrorAged
<1>12. ASSUME NEW x, Below(queues, newest, x)
       PROVE  Below(queues', newest', x)
  <2>1. Below(popped, newest', x)
    BY <1>10, <1>12
  <2>2. QED
    BY <1>1, <1>5, <1>6, <2>1, MirrorBelow
<1>13. Below(queues, newest, received)'
  BY <1>1, <1>2, <1>12
<1>14. Waiting(queue_lo)'
  <2>1. \A n \in DOMAIN queue_lo :
          /\ queue_lo[n].id < received
          /\ Below(queues', newest', queue_lo[n].id)
          /\ \A m \in DOMAIN queue_lo : m < n => queue_lo[m].id < queue_lo[n].id
    BY <1>2, <1>12 DEF Waiting
  <2>2. QED
    BY <1>1, <2>1 DEF Waiting
<1>15. \A n \in DOMAIN queue_hi' : ~queue_hi'[n].intact
  BY <1>1, <1>2, <1>6, PushHiOrder
<1>16. OInv'
  BY <1>11, <1>13, <1>14, <1>15 DEF OInv
<1>17. ASSUME NEW k \in Classes
       PROVE  newest'[k] >= newest[k]
  <2>1. newest[k] \in Int
    BY <1>2
  <2>2. QED
    BY <1>4, <1>8, <2>1
<1>18. QED
  BY <1>16, <1>17

(* The other operations send nothing. *)
LEMMA NextOrder ==
  ASSUME OInv, [Next]_vars
  PROVE  /\ OInv'
         /\ \A c \in Classes : newest'[c] >= newest[c]
<1>1. IInv /\ IInv'
  BY NextInvariant DEF OInv
<1>2. ASSUME UNCHANGED newest
      PROVE  \A c \in Classes : newest'[c] >= newest[c]
  <2>1. \A c \in Classes : newest[c] \in Int
    BY <1>1 DEF IInv, TypeOK
  <2>2. QED
    BY <1>2, <2>1
<1>3. CASE \E d \in Destinations : Receive(d)
  <2>1. OInv'
    BY <1>3, ReceiveOrder
  <2>2. UNCHANGED newest
    BY <1>3 DEF Receive
  <2>3. QED
    BY <1>2, <2>1, <2>2
<1>4. CASE Ingress
  <2>1. OInv'
    BY <1>4, IngressResubmitOrder, IngressForwardOrder DEF Ingress
  <2>2. UNCHANGED newest
    BY <1>4 DEF Ingress, IngressResubmit, IngressForward, history
  <2>3. QED
    BY <1>2, <2>1, <2>2
<1>5. CASE EgressServes
  <2>1. PICK c \in Classes, v \in EgressVerdicts : Serve(c, v)
    BY <1>5 DEF EgressServes, EgressTimerServes, ExtraPollServes
  <2>2. QED
    BY <1>1, <2>1, ServeOrder
<1>6. CASE EgressTimerIdles \/ ExtraPollIdles \/ UNCHANGED vars
  <2>1. UNCHANGED <<queue_hi, queue_lo, queues, received, newest>>
    BY <1>6 DEF EgressTimerIdles, ExtraPollIdles, vars, inputs, history
  <2>2. OInv'
    BY <1>1, <2>1 DEF OInv, Aged, Below, Waiting
  <2>3. QED
    BY <1>2, <2>1, <2>2
<1>7. QED
  BY <1>3, <1>4, <1>5, <1>6 DEF Next

(* Packets of a class that were never copied are sent in the order they    *)
(* were received, whatever the P4 program clones, resubmits and            *)
(* recirculates.                                                           *)
THEOREM SentInOrderCorrect == Spec => SentInOrder
<1>1. Init => OInv
  BY InitOrder
<1>2. OInv /\ [Next]_vars
        => OInv' /\ [\A c \in Classes : newest'[c] >= newest[c]]_vars
  BY NextOrder
<1>3. QED
  BY <1>1, <1>2, PTL DEF Spec, SentInOrder
=============================================================================
