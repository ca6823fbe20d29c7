-------------------------- MODULE PsaSwitch_proofs --------------------------
(***************************************************************************)
(* Proofs about PsaSwitch, for every set of ports, addresses and verdicts, *)
(* every buffer size, and however often packets are copied, resubmitted    *)
(* and recirculated.                                                       *)
(***************************************************************************)
EXTENDS PsaSwitch, TLAPS

(* Sequences.                                                              *)

LEMMA SeqMonotone ==
  ASSUME NEW S, NEW T, S \subseteq T, NEW s \in Seq(S)
  PROVE  s \in Seq(T)
OBVIOUS

LEMMA AppendType ==
  ASSUME NEW S, NEW s \in Seq(S), NEW e \in S
  PROVE  Append(s, e) \in Seq(S) /\ Len(Append(s, e)) = Len(s) + 1
OBVIOUS

LEMMA EmptyLength ==
  ASSUME NEW S, NEW s \in Seq(S)
  PROVE  s = <<>> <=> Len(s) = 0
OBVIOUS

LEMMA AppendElements ==
  ASSUME NEW S, NEW s \in Seq(S), NEW e \in S, NEW n \in DOMAIN Append(s, e)
  PROVE  \/ n \in DOMAIN s /\ Append(s, e)[n] = s[n]
         \/ n = Len(s) + 1 /\ Append(s, e)[n] = e
OBVIOUS

LEMMA TailElements ==
  ASSUME NEW S, NEW s \in Seq(S), s # <<>>
  PROVE  /\ 1 \in DOMAIN s /\ Head(s) = s[1]
         /\ \A n \in DOMAIN Tail(s) :
              /\ n \in Nat \ {0}
              /\ n + 1 \in DOMAIN s /\ Tail(s)[n] = s[n + 1]
OBVIOUS

LEMMA TailType ==
  ASSUME NEW S, NEW s \in Seq(S), s # <<>>
  PROVE  /\ Head(s) \in S
         /\ Tail(s) \in Seq(S)
         /\ Len(Tail(s)) = Len(s) - 1
         /\ Len(s) \in Nat \ {0}
OBVIOUS

-----------------------------------------------------------------------------
(* What this core has of SwitchCore: the queues and the address table.     *)

(* Enqueue keeps the queues queues of S, within the buffer size. *)
LEMMA EnqueueType ==
  ASSUME NEW S, NEW qs \in [Classes -> Seq(S)], NEW ports, NEW pkt \in S,
         \A c \in Classes : Len(qs[c]) <= QueueBufferSize
  PROVE  /\ Enqueue(qs, ports, pkt) \in [Classes -> Seq(S)]
         /\ \A c \in Classes : Len(Enqueue(qs, ports, pkt)[c]) <= QueueBufferSize
<1>1. ASSUME NEW c \in Classes
      PROVE  /\ Enqueue(qs, ports, pkt)[c] \in Seq(S)
             /\ Len(Enqueue(qs, ports, pkt)[c]) <= QueueBufferSize
  <2>1. qs[c] \in Seq(S) /\ Len(qs[c]) \in Nat /\ Len(qs[c]) <= QueueBufferSize
    OBVIOUS
  <2>2. Append(qs[c], pkt) \in Seq(S) /\ Len(Append(qs[c], pkt)) = Len(qs[c]) + 1
    BY <2>1, AppendType
  <2>3. CASE Enqueue(qs, ports, pkt)[c] = qs[c]
    BY <2>1, <2>3
  <2>4. CASE /\ Enqueue(qs, ports, pkt)[c] = Append(qs[c], pkt)
             /\ Len(qs[c]) < QueueBufferSize
    BY <2>1, <2>2, <2>4, CoreAssumption
  <2>5. QED
    BY <2>3, <2>4 DEF Enqueue
<1>2. QED
  BY <1>1 DEF Enqueue

(* A queue after Enqueue holds what it held before, and perhaps the packet *)
(* behind it, which goes to one priority of each port.                     *)
LEMMA EnqueueElements ==
  ASSUME NEW S, NEW qs \in [Classes -> Seq(S)], NEW ports, NEW pkt \in S,
         NEW c \in Classes, NEW n \in DOMAIN Enqueue(qs, ports, pkt)[c]
  PROVE  \/ n \in DOMAIN qs[c] /\ Enqueue(qs, ports, pkt)[c][n] = qs[c][n]
         \/ /\ n = Len(qs[c]) + 1
            /\ Enqueue(qs, ports, pkt)[c][n] = pkt
            /\ c[1] \in ports
            /\ c[2] = NbQueuesPerPort - 1 - pkt.priority
<1>1. qs[c] \in Seq(S)
  OBVIOUS
<1>2. CASE Enqueue(qs, ports, pkt)[c] = qs[c]
  BY <1>2
<1>3. CASE /\ Enqueue(qs, ports, pkt)[c] = Append(qs[c], pkt)
           /\ c[1] \in ports
           /\ c[2] = NbQueuesPerPort - 1 - pkt.priority
  <2>1. n \in DOMAIN Append(qs[c], pkt)
    BY <1>3
  <2>2. \/ n \in DOMAIN qs[c] /\ Append(qs[c], pkt)[n] = qs[c][n]
        \/ n = Len(qs[c]) + 1 /\ Append(qs[c], pkt)[n] = pkt
    BY <1>1, <2>1, AppendElements
  <2>3. QED
    BY <1>3, <2>2
<1>4. QED
  BY <1>2, <1>3 DEF Enqueue

LEMMA MirrorType ==
  ASSUME NEW S, NEW qs \in [Classes -> Seq(S)], NEW session, NEW pkt \in S,
         \A c \in Classes : Len(qs[c]) <= QueueBufferSize
  PROVE  /\ Mirror(qs, session, pkt) \in [Classes -> Seq(S)]
         /\ \A c \in Classes : Len(Mirror(qs, session, pkt)[c]) <= QueueBufferSize
<1> DEFINE group == Enqueue(qs, GroupPorts(Sessions[session].mgids), pkt)
<1>1. /\ group \in [Classes -> Seq(S)]
      /\ \A c \in Classes : Len(group[c]) <= QueueBufferSize
  BY EnqueueType
<1> HIDE DEF group
<1>2. /\ Enqueue(group, Sessions[session].ports, pkt) \in [Classes -> Seq(S)]
      /\ \A c \in Classes :
           Len(Enqueue(group, Sessions[session].ports, pkt)[c]) <= QueueBufferSize
  BY <1>1, EnqueueType
<1>3. QED
  BY <1>2 DEF Mirror, group

LEMMA InitQueues ==
  ASSUME NEW S
  PROVE  /\ [c \in Classes |-> <<>>] \in [Classes -> Seq(S)]
         /\ \A c \in Classes : Len([k \in Classes |-> <<>>][c]) <= QueueBufferSize
  BY CoreAssumption

(* GetAddressIndex keeps the indexes of the addresses it has, and returns  *)
(* the index of the address it is asked for.                               *)
LEMMA EnterAddressType ==
  ASSUME destinations \in Seq(Destinations),
         NEW d \in Destinations, destinations' = EnterAddress(d)
  PROVE  /\ destinations' \in Seq(Destinations)
         /\ Len(destinations) \in Nat /\ Len(destinations') \in Nat
         /\ Len(destinations) <= Len(destinations')
         /\ \A i \in 1 .. Len(destinations) : destinations'[i] = destinations[i]
         /\ AddressIndex(d) \in Nat
         /\ AddressIndex(d) + 1 \in 1 .. Len(destinations')
         /\ destinations'[AddressIndex(d) + 1] = d
<1>1. destinations \in Seq(Destinations) /\ Len(destinations) \in Nat
  OBVIOUS
<1>2. /\ destinations' \in Seq(Destinations)
      /\ Len(destinations) <= Len(destinations')
      /\ Len(destinations') \in Nat
      /\ \A i \in 1 .. Len(destinations) : destinations'[i] = destinations[i]
  BY <1>1 DEF EnterAddress
<1>3. /\ AddressIndex(d) \in Nat
      /\ AddressIndex(d) + 1 \in 1 .. Len(destinations')
      /\ destinations'[AddressIndex(d) + 1] = d
  <2>1. CASE \E i \in DOMAIN destinations : destinations[i] = d
    <3> DEFINE i == CHOOSE i \in DOMAIN destinations : destinations[i] = d
    <3>1. i \in 1 .. Len(destinations) /\ destinations[i] = d
      BY <1>1, <2>1
    <3>2. AddressIndex(d) = i - 1 /\ destinations' = destinations
      BY <2>1 DEF AddressIndex, EnterAddress
    <3> HIDE DEF i
    <3>3. QED
      BY <1>1, <3>1, <3>2
  <2>2. CASE ~ \E i \in DOMAIN destinations : destinations[i] = d
    <3>1. /\ AddressIndex(d) = Len(destinations)
          /\ destinations' = Append(destinations, d)
      BY <2>2 DEF AddressIndex, EnterAddress
    <3>2. QED
      BY <1>1, <3>1
  <2>3. QED
    BY <2>1, <2>2
<1>4. QED
  BY <1>1, <1>2, <1>3

(* The register holds the index, as long as the table fits its width.      *)
LEMMA AddressInRegister ==
  ASSUME destinations \in Seq(Destinations),
         NEW d \in Destinations, destinations' = EnterAddress(d),
         NEW r, r = AddressIndex(d) % AddressIndexes
  PROVE  /\ r \in Nat
         /\ r + 1 \in 1 .. Len(destinations')
         /\ Len(destinations') <= AddressIndexes => destinations'[r + 1] = d
<1> DEFINE a == AddressIndex(d)
<1>1. /\ a \in Nat /\ AddressIndexes \in Nat \ {0}
      /\ Len(destinations') \in Nat
      /\ a + 1 <= Len(destinations')
      /\ destinations'[a + 1] = d
  BY EnterAddressType, CoreAssumption
<1>2. r = a % AddressIndexes
  OBVIOUS
<1> HIDE DEF a
<1>3. /\ r \in Nat
      /\ r <= a
      /\ a < AddressIndexes => r = a
  BY <1>1, <1>2
<1>4. Len(destinations') <= AddressIndexes => r = a
  BY <1>1, <1>3
<1>5. r + 1 \in 1 .. Len(destinations')
  BY <1>1, <1>3
<1>6. QED
  BY <1>1, <1>3, <1>4, <1>5

-----------------------------------------------------------------------------
(* Invariants.                                                             *)

(* The packets that are copies, or whose register holds the index of the   *)
(* address they were received for.                                         *)
Located ==
  {p \in Packets :
     p.intact =>
       /\ p.address + 1 \in 1 .. Len(destinations)
       /\ Len(destinations) <= AddressIndexes
            => destinations[p.address + 1] = p.destination}

(* A packet on its first way through the switch. *)
Fresh(p) == p.intact /\ ~p.recirculated

(* No packet of qs is the original of the number id. *)
Absent(qs, id) ==
  \A c \in Classes : \A n \in DOMAIN qs[c] : qs[c][n].intact => qs[c][n].id # id

(* No original is twice in qs, and fresh packets are queued in order.      *)
Distinct(qs) ==
  \A c, d \in Classes : \A m \in DOMAIN qs[c], n \in DOMAIN qs[d] :
    SameOriginal(qs[c][m], qs[d][n]) => c = d /\ m = n
Ordered(qs) ==
  \A c \in Classes : \A m, n \in DOMAIN qs[c] :
    m < n /\ Fresh(qs[c][m]) /\ Fresh(qs[c][n]) => qs[c][m].id < qs[c][n].id

(* What is queued was received, and what is fresh is still to be sent.     *)
Numbered(qs) ==
  \A c \in Classes : \A n \in DOMAIN qs[c] :
    /\ qs[c][n].intact => qs[c][n].id < received
    /\ Fresh(qs[c][n]) => newest[c] < qs[c][n].id

(* A packet on its way to the egress buffer is not there yet, and when it  *)
(* is fresh it is newer than all that are and all that were.               *)
Incoming(qs, p) ==
  /\ p.intact => p.id < received /\ Absent(qs, p.id)
  /\ Fresh(p) => \A c \in Classes :
                   /\ newest[c] < p.id
                   /\ \A n \in DOMAIN qs[c] : Fresh(qs[c][n]) => qs[c][n].id < p.id

(* A packet that was sent is in no queue.                                  *)
Outgoing(qs, p) == p.intact => p.id < received /\ Absent(qs, p.id)

Queued(qs) ==
  /\ Distinct(qs) /\ Ordered(qs) /\ Numbered(qs)
  /\ \A w \in wire : Outgoing(qs, w.packet)

IInv ==
  /\ TypeOK
  /\ InputDrained
  /\ input_buffer \in Seq(Located)
  /\ queues \in [Classes -> Seq(Located)]
  /\ DestinationKept
  /\ \A c \in Classes : newest[c] < received
  /\ Queued(queues)
  /\ \A i \in DOMAIN input_buffer :
       /\ Incoming(queues, input_buffer[i])
       /\ \A w \in wire : ~SameOriginal(w.packet, input_buffer[i])

-----------------------------------------------------------------------------
(* Queues to which copies are added.                                       *)

Extends(qs, rs) ==
  \A c \in Classes : \A n \in DOMAIN rs[c] :
    \/ n \in DOMAIN qs[c] /\ rs[c][n] = qs[c][n]
    \/ ~rs[c][n].intact

LEMMA ExtendsTransitive ==
  ASSUME NEW qs, NEW rs, NEW ts, Extends(qs, rs), Extends(rs, ts)
  PROVE  Extends(qs, ts)
BY DEF Extends

LEMMA ExtendsQueued ==
  ASSUME NEW qs, NEW rs, Extends(qs, rs), Queued(qs)
  PROVE  Queued(rs)
<1>1. ASSUME NEW c \in Classes, NEW n \in DOMAIN rs[c], rs[c][n].intact
      PROVE  n \in DOMAIN qs[c] /\ rs[c][n] = qs[c][n]
  BY <1>1 DEF Extends
<1>2. Distinct(rs)
  BY <1>1 DEF Queued, Distinct, SameOriginal
<1>3. Ordered(rs)
  BY <1>1 DEF Queued, Ordered, Fresh
<1>4. Numbered(rs)
  BY <1>1 DEF Queued, Numbered, Fresh
<1>5. \A w \in wire : Outgoing(rs, w.packet)
  BY <1>1 DEF Queued, Outgoing, Absent
<1>6. QED
  BY <1>2, <1>3, <1>4, <1>5 DEF Queued

LEMMA ExtendsIncoming ==
  ASSUME NEW qs, NEW rs, Extends(qs, rs), NEW p, Incoming(qs, p)
  PROVE  Incoming(rs, p)
<1>1. ASSUME NEW c \in Classes, NEW n \in DOMAIN rs[c], rs[c][n].intact
      PROVE  n \in DOMAIN qs[c] /\ rs[c][n] = qs[c][n]
  BY <1>1 DEF Extends
<1>2. QED
  BY <1>1 DEF Incoming, Absent, Fresh

LEMMA EnqueueExtends ==
  ASSUME NEW qs \in [Classes -> Seq(Located)], NEW ports,
         NEW pkt \in Located, ~pkt.intact
  PROVE  Extends(qs, Enqueue(qs, ports, pkt))
BY EnqueueElements DEF Extends

LEMMA CopyType ==
  ASSUME NEW pkt \in Located, NEW priority \in Nat
  PROVE  Copy(pkt, priority) \in Located /\ ~Copy(pkt, priority).intact
<1>1. pkt \in Packets
  BY DEF Located
<1>2. Copy(pkt, priority) \in Packets
  <2> DEFINE p1 == [pkt EXCEPT !.priority = priority]
             p2 == [p1 EXCEPT !.intact = FALSE]
             p3 == [p2 EXCEPT !.hops = pkt.hops + 1]
  <2>1. p1 \in Packets
    BY <1>1 DEF Packets
  <2>2. p2 \in Packets
    <3> HIDE DEF p1
    <3>1. QED
      BY <2>1 DEF Packets
  <2>3. pkt.hops + 1 \in Nat
    BY <1>1 DEF Packets
  <2>4. p3 \in Packets
    <3> HIDE DEF p2
    <3>1. QED
      BY <2>2, <2>3 DEF Packets
  <2>5. Copy(pkt, priority) = p3
    BY DEF Copy
  <2> HIDE DEF p3
  <2>6. QED
    BY <2>4, <2>5
<1>3. ~Copy(pkt, priority).intact
  BY <1>1 DEF Copy, Packets
<1>4. QED
  BY <1>2, <1>3 DEF Located

LEMMA ClonesType ==
  ASSUME NEW qs \in [Classes -> Seq(Located)], NEW pkt \in Located, NEW sessions,
         \A c \in Classes : Len(qs[c]) <= QueueBufferSize
  PROVE  /\ Clones(qs, pkt, sessions) \in [Classes -> Seq(Located)]
         /\ \A c \in Classes : Len(Clones(qs, pkt, sessions)[c]) <= QueueBufferSize
         /\ Extends(qs, Clones(qs, pkt, sessions))
<1> DEFINE clone == Copy(pkt, 0)
           s == CHOOSE s \in sessions : TRUE
           group == Enqueue(qs, GroupPorts(Sessions[s].mgids), clone)
           both == Enqueue(group, Sessions[s].ports, clone)
<1>1. clone \in Located /\ ~clone.intact
  BY CopyType
<1> HIDE DEF clone
<1>2. /\ Mirror(qs, s, clone) \in [Classes -> Seq(Located)]
      /\ \A c \in Classes : Len(Mirror(qs, s, clone)[c]) <= QueueBufferSize
  BY <1>1, MirrorType
<1>3. group \in [Classes -> Seq(Located)]
  BY <1>1, EnqueueType
<1>4. Extends(qs, group) /\ Extends(group, both)
  BY <1>1, <1>3, EnqueueExtends
<1>5. Extends(qs, both) /\ Extends(qs, qs)
  <2> HIDE DEF group, both
  <2>1. Extends(qs, both)
    BY <1>4, ExtendsTransitive
  <2>2. QED
    BY <2>1 DEF Extends
<1>6. Extends(qs, Mirror(qs, s, clone))
  BY <1>5 DEF Mirror
<1>7. CASE sessions = {}
  BY <1>5, <1>7 DEF Clones
<1>8. CASE sessions # {}
  <2>1. Clones(qs, pkt, sessions) = Mirror(qs, s, clone)
    BY <1>8 DEF Clones, clone
  <2> HIDE DEF s
  <2>2. QED
    BY <1>2, <1>6, <2>1
<1>9. QED
  BY <1>7, <1>8

(* An original is enqueued. *)
LEMMA EnqueueOriginal ==
  ASSUME NEW qs \in [Classes -> Seq(Located)], NEW port, NEW pkt \in Located,
         Queued(qs), Incoming(qs, pkt),
         \A w \in wire : ~SameOriginal(w.packet, pkt)
  PROVE  Queued(Enqueue(qs, {port}, pkt))
<1> DEFINE rs == Enqueue(qs, {port}, pkt)
           Old(c, n) == n \in DOMAIN qs[c] /\ rs[c][n] = qs[c][n]
           New(c, n) == /\ n = Len(qs[c]) + 1 /\ rs[c][n] = pkt
                        /\ c = <<port, NbQueuesPerPort - 1 - pkt.priority>>
<1>1. ASSUME NEW c \in Classes, NEW n \in DOMAIN rs[c]
      PROVE  Old(c, n) \/ New(c, n)
  <2>1. \/ n \in DOMAIN qs[c] /\ rs[c][n] = qs[c][n]
        \/ /\ n = Len(qs[c]) + 1
           /\ rs[c][n] = pkt
           /\ c[1] \in {port}
           /\ c[2] = NbQueuesPerPort - 1 - pkt.priority
    BY EnqueueElements
  <2>2. c = <<c[1], c[2]>>
    BY DEF Classes
  <2>3. QED
    BY <2>1, <2>2
<1>2. \A c \in Classes : /\ Len(qs[c]) \in Nat
                         /\ \A n \in DOMAIN qs[c] : n \in Nat /\ n < Len(qs[c]) + 1
  <2>1. ASSUME NEW c \in Classes
        PROVE  /\ Len(qs[c]) \in Nat
               /\ \A n \in DOMAIN qs[c] : n \in Nat /\ n < Len(qs[c]) + 1
    <3>1. qs[c] \in Seq(Located)
      OBVIOUS
    <3>2. QED
      BY <3>1
  <2>2. QED
    BY <2>1
<1>3. ASSUME NEW c \in Classes, NEW n \in DOMAIN qs[c]
      PROVE  ~SameOriginal(qs[c][n], pkt) /\ ~SameOriginal(pkt, qs[c][n])
  BY DEF Incoming, Absent, SameOriginal
<1> HIDE DEF rs
<1>4. Distinct(rs)
  <2>1. ASSUME NEW c \in Classes, NEW d \in Classes,
               NEW m \in DOMAIN rs[c], NEW n \in DOMAIN rs[d],
               SameOriginal(rs[c][m], rs[d][n])
        PROVE  c = d /\ m = n
    <3>1. CASE Old(c, m) /\ Old(d, n)
      BY <2>1, <3>1 DEF Queued, Distinct
    <3>2. CASE New(c, m) /\ New(d, n)
      BY <3>2
    <3>3. CASE Old(c, m) /\ New(d, n)
      BY <1>3, <2>1, <3>3
    <3>4. CASE New(c, m) /\ Old(d, n)
      BY <1>3, <2>1, <3>4
    <3>5. QED
      BY <1>1, <3>1, <3>2, <3>3, <3>4
  <2>2. QED
    BY <2>1 DEF Distinct
<1>5. Ordered(rs)
  <2>1. ASSUME NEW c \in Classes, NEW m \in DOMAIN rs[c], NEW n \in DOMAIN rs[c],
               m < n, Fresh(rs[c][m]), Fresh(rs[c][n])
        PROVE  rs[c][m].id < rs[c][n].id
    <3>1. CASE Old(c, m) /\ Old(c, n)
      BY <2>1, <3>1 DEF Queued, Ordered
    <3>2. CASE Old(c, m) /\ New(c, n)
      BY <2>1, <3>2 DEF Incoming
    <3>3. CASE New(c, m)
      BY <1>1, <1>2, <2>1, <3>3
    <3>4. QED
      BY <1>1, <3>1, <3>2, <3>3
  <2>2. QED
    BY <2>1 DEF Ordered
<1>6. Numbered(rs)
  <2>1. ASSUME NEW c \in Classes, NEW n \in DOMAIN rs[c]
        PROVE  /\ rs[c][n].intact => rs[c][n].id < received
               /\ Fresh(rs[c][n]) => newest[c] < rs[c][n].id
    <3>1. CASE Old(c, n)
      BY <3>1 DEF Queued, Numbered
    <3>2. CASE New(c, n)
      BY <3>2 DEF Incoming
    <3>3. QED
      BY <1>1, <3>1, <3>2
  <2>2. QED
    BY <2>1 DEF Numbered
<1>7. \A w \in wire : Outgoing(rs, w.packet)
  <2>1. ASSUME NEW w \in wire, w.packet.intact,
               NEW c \in Classes, NEW n \in DOMAIN rs[c], rs[c][n].intact
        PROVE  rs[c][n].id # w.packet.id
    <3>1. CASE Old(c, n)
      BY <2>1, <3>1 DEF Queued, Outgoing, Absent
    <3>2. CASE New(c, n)
      BY <2>1, <3>2 DEF SameOriginal
    <3>3. QED
      BY <1>1, <3>1, <3>2
  <2>2. QED
    BY <2>1 DEF Queued, Outgoing, Absent
<1>8. QED
  BY <1>4, <1>5, <1>6, <1>7 DEF Queued, rs

(* A packet is taken from its class. *)
LEMMA PopOriginal ==
  ASSUME IInv, NEW c \in Classes, queues[c] # <<>>,
         NEW pkt, pkt = Head(queues[c]),
         NEW popped, popped = [queues EXCEPT ![c] = Tail(queues[c])]
  PROVE  /\ pkt \in Located
         /\ popped \in [Classes -> Seq(Located)]
         /\ \A k \in Classes : Len(popped[k]) <= QueueBufferSize
         /\ Queued(popped)
         /\ pkt.intact => pkt.id < received /\ Absent(popped, pkt.id)
         /\ \A w \in wire : ~SameOriginal(w.packet, pkt)
         /\ Fresh(pkt) => /\ newest[c] < pkt.id
                         /\ \A n \in DOMAIN popped[c] :
                              Fresh(popped[c][n]) => pkt.id < popped[c][n].id
<1>1. /\ queues \in [Classes -> Seq(Located)]
      /\ \A k \in Classes : Len(queues[k]) <= QueueBufferSize
  BY DEF IInv, TypeOK
<1>2. /\ 1 \in DOMAIN queues[c] /\ pkt = queues[c][1]
      /\ \A n \in DOMAIN Tail(queues[c]) :
           /\ n \in Nat \ {0}
           /\ n + 1 \in DOMAIN queues[c] /\ Tail(queues[c])[n] = queues[c][n + 1]
  <2>1. queues[c] \in Seq(Located)
    BY <1>1
  <2>2. QED
    BY <2>1, TailElements
<1>3. /\ pkt \in Located
      /\ Tail(queues[c]) \in Seq(Located)
      /\ Len(Tail(queues[c])) = Len(queues[c]) - 1
      /\ Len(queues[c]) \in Nat \ {0}
  <2>1. queues[c] \in Seq(Located)
    BY <1>1
  <2>2. QED
    BY <2>1, TailType
<1>4. /\ popped[c] = Tail(queues[c])
      /\ \A k \in Classes \ {c} : popped[k] = queues[k]
      /\ popped \in [Classes -> Seq(Located)]
  BY <1>1, <1>3
<1>5. \A k \in Classes : Len(popped[k]) <= QueueBufferSize
  <2>1. Len(Tail(queues[c])) <= QueueBufferSize
    BY <1>1, <1>3, CoreAssumption
  <2>2. QED
    BY <1>1, <1>4, <2>1
<1>6. Queued(queues)
  BY DEF IInv
<1>7. ASSUME NEW k \in Classes, NEW n \in DOMAIN popped[k]
      PROVE  \/ k # c /\ n \in DOMAIN queues[k] /\ popped[k][n] = queues[k][n]
             \/ /\ k = c /\ n \in Nat \ {0}
                /\ n + 1 \in DOMAIN queues[c] /\ popped[c][n] = queues[c][n + 1]
  BY <1>2, <1>4
<1>8. Distinct(popped)
  <2>1. ASSUME NEW k \in Classes, NEW l \in Classes,
               NEW m \in DOMAIN popped[k], NEW n \in DOMAIN popped[l],
               SameOriginal(popped[k][m], popped[l][n])
        PROVE  k = l /\ m = n
    <3>1. CASE k # c /\ l # c
      BY <1>6, <1>7, <2>1, <3>1 DEF Queued, Distinct
    <3>2. CASE k = c /\ l = c
      <4>1. m + 1 = n + 1 /\ m \in Nat /\ n \in Nat
        BY <1>6, <1>7, <2>1, <3>2 DEF Queued, Distinct
      <4>2. QED
        BY <3>2, <4>1
    <3>3. CASE k # c /\ l = c
      BY <1>6, <1>7, <2>1, <3>3 DEF Queued, Distinct
    <3>4. CASE k = c /\ l # c
      BY <1>6, <1>7, <2>1, <3>4 DEF Queued, Distinct
    <3>5. QED
      BY <3>1, <3>2, <3>3, <3>4
  <2>2. QED
    BY <2>1 DEF Distinct
<1>9. Ordered(popped)
  <2>1. ASSUME NEW k \in Classes, NEW m \in DOMAIN popped[k], NEW n \in DOMAIN popped[k],
               m < n, Fresh(popped[k][m]), Fresh(popped[k][n])
        PROVE  popped[k][m].id < popped[k][n].id
    <3>1. CASE k # c
      BY <1>6, <1>7, <2>1, <3>1 DEF Queued, Ordered
    <3>2. CASE k = c
      <4>1. m + 1 < n + 1
        BY <1>7, <2>1, <3>2
      <4>2. /\ m + 1 \in DOMAIN queues[c] /\ popped[c][m] = queues[c][m + 1]
            /\ n + 1 \in DOMAIN queues[c] /\ popped[c][n] = queues[c][n + 1]
        BY <1>7, <3>2
      <4>3. Fresh(queues[c][m + 1]) /\ Fresh(queues[c][n + 1])
        BY <2>1, <3>2, <4>2
      <4>4. queues[c][m + 1].id < queues[c][n + 1].id
        BY <1>6, <4>1, <4>2, <4>3 DEF Queued, Ordered
      <4>5. QED
        BY <3>2, <4>2, <4>4
    <3>3. QED
      BY <3>1, <3>2
  <2>2. QED
    BY <2>1 DEF Ordered
<1>10. Numbered(popped)
  BY <1>6, <1>7 DEF Queued, Numbered
<1>11. \A w \in wire : Outgoing(popped, w.packet)
  BY <1>6, <1>7 DEF Queued, Outgoing, Absent
<1>12. pkt.intact => pkt.id < received /\ Absent(popped, pkt.id)
  <2>1. ASSUME pkt.intact, NEW k \in Classes, NEW n \in DOMAIN popped[k],
               popped[k][n].intact, popped[k][n].id = pkt.id
        PROVE  FALSE
    <3>1. CASE k # c
      BY <1>2, <1>6, <1>7, <2>1, <3>1 DEF Queued, Distinct, SameOriginal
    <3>2. CASE k = c
      <4>1. /\ n \in Nat \ {0}
            /\ n + 1 \in DOMAIN queues[c] /\ popped[c][n] = queues[c][n + 1]
        BY <1>7, <3>2
      <4>2. SameOriginal(queues[c][n + 1], queues[c][1])
        BY <1>2, <2>1, <3>2, <4>1 DEF SameOriginal
      <4>3. n + 1 = 1
        BY <1>2, <1>6, <4>1, <4>2 DEF Queued, Distinct
      <4>4. QED
        BY <4>1, <4>3
    <3>3. QED
      BY <3>1, <3>2
  <2>2. pkt.intact => pkt.id < received
    BY <1>2, <1>6 DEF Queued, Numbered
  <2>3. QED
    BY <2>1, <2>2 DEF Absent
<1>13. \A w \in wire : ~SameOriginal(w.packet, pkt)
  BY <1>2, <1>6 DEF Queued, Outgoing, Absent, SameOriginal
<1>14. ASSUME Fresh(pkt)
       PROVE  /\ newest[c] < pkt.id
              /\ \A n \in DOMAIN popped[c] :
                   Fresh(popped[c][n]) => pkt.id < popped[c][n].id
  <2>1. newest[c] < pkt.id
    BY <1>2, <1>6, <1>14 DEF Queued, Numbered
  <2>2. ASSUME NEW n \in DOMAIN popped[c], Fresh(popped[c][n])
        PROVE  pkt.id < popped[c][n].id
    <3>1. 1 < n + 1
      BY <1>7
    <3>2. QED
      BY <1>2, <1>6, <1>7, <1>14, <2>2, <3>1 DEF Queued, Ordered
  <2>3. QED
    BY <2>1, <2>2
<1>15. QED
  BY <1>3, <1>4, <1>5, <1>8, <1>9, <1>10, <1>11, <1>12, <1>13, <1>14 DEF Queued

-----------------------------------------------------------------------------
(* The input buffer.                                                       *)

(* A packet pushed into the empty input buffer is the one it holds. *)
LEMMA SubmitType ==
  ASSUME NEW S, NEW pkt \in S, Submit(<<>>, pkt)
  PROVE  /\ phase' \in {"ingress", "blocked"}
         /\ input_buffer' \in Seq(S)
         /\ InputDrained'
         /\ \A i \in DOMAIN input_buffer' : input_buffer'[i] = pkt
<1>1. InputBufferSize \in Nat
  BY ConstantsAssumption
<1>2. CASE 0 >= InputBufferSize
  <2>1. phase' = "blocked" /\ input_buffer' = <<>>
    BY <1>2 DEF Submit
  <2>2. QED
    BY <1>1, <1>2, <2>1 DEF InputDrained
<1>3. CASE ~(0 >= InputBufferSize)
  <2>1. phase' = "ingress" /\ input_buffer' = <<pkt>>
    BY <1>3 DEF Submit
  <2>2. /\ <<pkt>> \in Seq(S) /\ Len(<<pkt>>) = 1
        /\ \A i \in DOMAIN <<pkt>> : <<pkt>>[i] = pkt
    OBVIOUS
  <2>3. QED
    BY <2>1, <2>2 DEF InputDrained
<1>4. QED
  BY <1>2, <1>3

(* What an ingress pass takes, and leaves. *)
LEMMA PassType ==
  ASSUME IInv, phase = "ingress"
  PROVE  /\ Head(input_buffer) \in Located
         /\ Tail(input_buffer) = <<>>
         /\ Incoming(queues, Head(input_buffer))
         /\ \A w \in wire : ~SameOriginal(w.packet, Head(input_buffer))
<1>1. input_buffer \in Seq(Located) /\ Len(input_buffer) = 1
  BY DEF IInv, InputDrained
<1>2. /\ Head(input_buffer) \in Located
      /\ Tail(input_buffer) = <<>>
      /\ 1 \in DOMAIN input_buffer /\ Head(input_buffer) = input_buffer[1]
  <2>1. input_buffer # <<>>
    <3>1. Len(input_buffer) # 0
      BY <1>1
    <3>2. QED
      BY <1>1, <3>1, EmptyLength
  <2>2. /\ 1 \in DOMAIN input_buffer /\ Head(input_buffer) = input_buffer[1]
        /\ Head(input_buffer) \in Located
        /\ Tail(input_buffer) \in Seq(Located)
        /\ Len(Tail(input_buffer)) = 0
    BY <1>1, <2>1, TailType, TailElements
  <2>3. Tail(input_buffer) = <<>>
    BY <2>2, EmptyLength
  <2>4. QED
    BY <2>2, <2>3
<1>3. QED
  BY <1>2 DEF IInv

(* A packet's place in the order does not depend on its metadata. *)
LEMMA SamePlace ==
  ASSUME NEW qs, NEW p, NEW q, Incoming(qs, p),
         q.id = p.id, q.intact = p.intact, q.recirculated = p.recirculated,
         \A w \in wire : ~SameOriginal(w.packet, p)
  PROVE  Incoming(qs, q) /\ \A w \in wire : ~SameOriginal(w.packet, q)
BY DEF Incoming, Fresh, SameOriginal

LEMMA PriorityType ==
  ASSUME NEW pkt \in Located, NEW priority \in Nat,
         NEW q, q = [pkt EXCEPT !.priority = priority]
  PROVE  /\ q \in Located
         /\ q.id = pkt.id /\ q.intact = pkt.intact
         /\ q.recirculated = pkt.recirculated
BY DEF Located, Packets

LEMMA HopsType ==
  ASSUME NEW pkt \in Located, NEW hops \in Nat,
         NEW q, q = [pkt EXCEPT !.hops = hops]
  PROVE  /\ q \in Located
         /\ q.id = pkt.id /\ q.intact = pkt.intact
         /\ q.recirculated = pkt.recirculated
BY DEF Located, Packets

LEMMA AgainType ==
  ASSUME NEW pkt \in Located
  PROVE  /\ Again(pkt) \in Located
         /\ Again(pkt).id = pkt.id /\ Again(pkt).intact = pkt.intact
         /\ Again(pkt).recirculated = pkt.recirculated
<1> DEFINE p == [pkt EXCEPT !.priority = 0]
           q == [p EXCEPT !.hops = pkt.hops + 1]
<1>1. /\ p \in Located /\ p.id = pkt.id /\ p.intact = pkt.intact
      /\ p.recirculated = pkt.recirculated
  BY PriorityType
<1>2. pkt.hops + 1 \in Nat
  BY DEF Located, Packets
<1> HIDE DEF p
<1>3. /\ q \in Located /\ q.id = p.id /\ q.intact = p.intact
      /\ q.recirculated = p.recirculated
  BY <1>1, <1>2, HopsType
<1>4. Again(pkt) = q
  BY DEF Again, p
<1> HIDE DEF q
<1>5. QED
  BY <1>1, <1>3, <1>4

LEMMA RecirculatedType ==
  ASSUME NEW pkt \in Located
  PROVE  /\ Recirculated(pkt) \in Located
         /\ Recirculated(pkt).id = pkt.id
         /\ Recirculated(pkt).intact = pkt.intact
         /\ Recirculated(pkt).recirculated
<1> DEFINE p == Again(pkt)
           q == [p EXCEPT !.recirculated = TRUE]
<1>1. p \in Located /\ p.id = pkt.id /\ p.intact = pkt.intact
  BY AgainType
<1> HIDE DEF p
<1>2. q \in Located /\ q.id = p.id /\ q.intact = p.intact /\ q.recirculated
  BY <1>1 DEF Located, Packets
<1>3. Recirculated(pkt) = q
  BY DEF Recirculated, p
<1> HIDE DEF q
<1>4. QED
  BY <1>1, <1>2, <1>3

-----------------------------------------------------------------------------
(* One lemma per operation: it preserves the invariant.                    *)

LEMMA InitInvariant == Init => IInv
<1> SUFFICES ASSUME Init PROVE IInv
  OBVIOUS
<1>1. /\ queues \in [Classes -> Seq(Packets)]
      /\ queues \in [Classes -> Seq(Located)]
      /\ \A c \in Classes : Len(queues[c]) <= QueueBufferSize
      /\ \A c \in Classes : DOMAIN queues[c] = {}
  BY InitQueues DEF Init
<1>2. TypeOK
  <2>1. newest \in [Classes -> Int]
    BY DEF Init
  <2>2. input_buffer \in Seq(Packets) /\ destinations \in Seq(Destinations)
    BY DEF Init
  <2>3. QED
    BY <1>1, <2>1, <2>2 DEF Init, TypeOK
<1>3. InputDrained /\ DestinationKept /\ \A c \in Classes : newest[c] < received
  BY DEF Init, InputDrained, DestinationKept
<1>4. Queued(queues)
  BY <1>1 DEF Init, Queued, Distinct, Ordered, Numbered
<1>5. input_buffer \in Seq(Located) /\ DOMAIN input_buffer = {}
  BY DEF Init
<1>6. QED
  BY <1>1, <1>2, <1>3, <1>4, <1>5 DEF IInv

(* Every step that receives and sends nothing: it is enough that the       *)
(* queues are in order and that the input buffer is empty or holds one     *)
(* packet on its way to them.                                              *)
LEMMA InnerInvariant ==
  ASSUME IInv, UNCHANGED <<destinations, wire, received, newest>>,
         first_packet' \in BOOLEAN, extra' \in BOOLEAN,
         queues' \in [Classes -> Seq(Located)],
         \A c \in Classes : Len(queues'[c]) <= QueueBufferSize,
         Queued(queues'),
         \/ phase' = "idle" /\ input_buffer' = <<>>
         \/ \E p \in Located : /\ Submit(<<>>, p)
                               /\ Incoming(queues', p)
                               /\ \A w \in wire : ~SameOriginal(w.packet, p)
  PROVE  IInv'
<1>1. Located' = Located /\ Located \subseteq Packets
  BY DEF Located
<1>2. /\ phase' \in {"idle", "ingress", "blocked"}
      /\ input_buffer' \in Seq(Located)
      /\ InputDrained'
      /\ \A i \in DOMAIN input_buffer' :
           /\ Incoming(queues', input_buffer'[i])
           /\ \A w \in wire : ~SameOriginal(w.packet, input_buffer'[i])
  <2>1. CASE phase' = "idle" /\ input_buffer' = <<>>
    BY <2>1 DEF InputDrained
  <2>2. CASE \E p \in Located : /\ Submit(<<>>, p)
                               /\ Incoming(queues', p)
                               /\ \A w \in wire : ~SameOriginal(w.packet, p)
    BY <2>2, SubmitType
  <2>3. QED
    BY <2>1, <2>2
<1>3. queues' \in [Classes -> Seq(Packets)] /\ input_buffer' \in Seq(Packets)
  BY <1>1, <1>2, SeqMonotone
<1>4. TypeOK'
  BY <1>2, <1>3 DEF IInv, TypeOK
<1>5. DestinationKept' /\ \A c \in Classes : newest'[c] < received'
  BY DEF IInv, DestinationKept
<1>6. Queued(queues)'
  BY DEF Queued, Distinct, Ordered, Numbered, Outgoing, Absent
<1>7. \A i \in DOMAIN input_buffer' :
        /\ Incoming(queues, input_buffer[i])'
        /\ \A w \in wire' : ~SameOriginal(w.packet, input_buffer'[i])
  BY <1>2 DEF Incoming, Absent
<1>8. QED
  BY <1>1, <1>2, <1>4, <1>5, <1>6, <1>7 DEF IInv

LEMMA ReceiveInvariant ==
  ASSUME IInv, NEW d \in Destinations, Receive(d)
  PROVE  IInv'
<1>0. PICK r : r = AddressIndex(d) % AddressIndexes
  OBVIOUS
<1> PICK pkt : pkt = [id |-> received, priority |-> 0, address |-> r,
                      destination |-> d, intact |-> TRUE,
                      recirculated |-> FALSE, hops |-> 0]
  OBVIOUS
<1>1. /\ phase = "idle"
      /\ received' = received + 1
      /\ destinations' = EnterAddress(d)
      /\ Submit(input_buffer, pkt)
      /\ UNCHANGED <<queues, first_packet, extra, wire, newest>>
  BY <1>0 DEF Receive, timer
<1>2. /\ r \in Nat
      /\ r + 1 \in 1 .. Len(destinations')
      /\ Len(destinations') <= AddressIndexes => destinations'[r + 1] = d
  BY <1>0, <1>1, AddressInRegister DEF IInv, TypeOK
<1>3. /\ destinations' \in Seq(Destinations)
      /\ Len(destinations) \in Nat /\ Len(destinations') \in Nat
      /\ Len(destinations) <= Len(destinations')
      /\ \A i \in 1 .. Len(destinations) : destinations'[i] = destinations[i]
  BY <1>1, EnterAddressType DEF IInv, TypeOK
<1>4. Len(destinations') <= AddressIndexes => Len(destinations) <= AddressIndexes
  BY <1>3, CoreAssumption
<1>5. Located \subseteq Located' /\ Located' \subseteq Packets
  <2>1. ASSUME NEW p \in Located, p.intact
        PROVE  /\ p.address + 1 \in 1 .. Len(destinations')
               /\ destinations'[p.address + 1] = destinations[p.address + 1]
    BY <1>3, <2>1 DEF Located
  <2>2. QED
    BY <1>4, <2>1 DEF Located
<1>6. pkt \in Located'
  <2>1. received \in Nat
    BY DEF IInv, TypeOK
  <2>2. pkt \in Packets
    BY <1>2, <2>1 DEF Packets
  <2>3. QED
    BY <1>2, <2>2 DEF Located
<1>7. pkt.id = received /\ pkt.intact /\ ~pkt.recirculated
  OBVIOUS
<1>8. Submit(<<>>, pkt)
  BY <1>1 DEF IInv, InputDrained
<1>9. /\ phase' \in {"ingress", "blocked"}
      /\ input_buffer' \in Seq(Located')
      /\ InputDrained'
      /\ \A i \in DOMAIN input_buffer' : input_buffer'[i] = pkt
  BY <1>6, <1>8, SubmitType
<1>10. queues' \in [Classes -> Seq(Located')]
  BY <1>1, <1>5, SeqMonotone DEF IInv
<1>11. /\ received \in Nat /\ received < received' /\ received' \in Nat
       /\ \A c \in Classes : newest[c] \in Int /\ newest[c] < received
       /\ \A c \in Classes : \A n \in DOMAIN queues[c] :
            queues[c][n].id \in Nat
       /\ \A w \in wire : w.packet.id \in Nat
  <2>1. ASSUME NEW c \in Classes, NEW n \in DOMAIN queues[c]
        PROVE  queues[c][n].id \in Nat
    <3>1. queues[c] \in Seq(Packets)
      BY DEF IInv, TypeOK
    <3>2. queues[c][n] \in Packets
      BY <3>1
    <3>3. QED
      BY <3>2 DEF Packets
  <2>2. \A w \in wire : w.packet.id \in Nat
    BY DEF IInv, TypeOK, Wires, Packets
  <2>3. QED
    BY <1>1, <2>1, <2>2 DEF IInv, TypeOK
<1>12. TypeOK'
  <2>1. input_buffer' \in Seq(Packets)
    BY <1>5, <1>9, SeqMonotone
  <2>2. QED
    BY <1>1, <1>3, <1>9, <1>11, <2>1 DEF IInv, TypeOK
<1>13. DestinationKept'
  BY <1>1, <1>4 DEF IInv, DestinationKept
<1>14. \A c \in Classes : newest'[c] < received'
  BY <1>1, <1>11
<1>15. Queued(queues)'
  <2>1. Distinct(queues)' /\ Ordered(queues)'
    BY <1>1 DEF IInv, Queued, Distinct, Ordered
  <2>2. Numbered(queues)'
    <3>1. ASSUME NEW c \in Classes, NEW n \in DOMAIN queues[c], queues[c][n].intact
          PROVE  queues[c][n].id < received'
      <4>1. queues[c][n].id < received /\ queues[c][n].id \in Nat
        BY <1>11, <3>1 DEF IInv, Queued, Numbered
      <4>2. QED
        BY <1>11, <4>1
    <3>2. QED
      BY <1>1, <3>1 DEF IInv, Queued, Numbered
  <2>3. ASSUME NEW w \in wire
        PROVE  Outgoing(queues, w.packet)'
    <3>1. w.packet.intact => w.packet.id < received /\ Absent(queues, w.packet.id)
      BY DEF IInv, Queued, Outgoing
    <3>2. w.packet.intact => w.packet.id < received'
      BY <1>11, <3>1
    <3>3. QED
      BY <1>1, <3>1, <3>2 DEF Outgoing, Absent
  <2>4. QED
    BY <1>1, <2>1, <2>2, <2>3 DEF Queued
<1>16. Incoming(queues, pkt)'
  <2>1. \A c \in Classes : \A n \in DOMAIN queues[c] :
          queues[c][n].intact => /\ queues[c][n].id < received
                                 /\ queues[c][n].id # received
    BY <1>11 DEF IInv, Queued, Numbered
  <2>2. QED
    BY <1>1, <1>7, <1>11, <2>1 DEF Incoming, Absent, Fresh
<1>17. \A w \in wire : ~SameOriginal(w.packet, pkt)
  <2>1. ASSUME NEW w \in wire, w.packet.intact
        PROVE  w.packet.id # received
    <3>1. w.packet.id < received
      BY <2>1 DEF IInv, Queued, Outgoing
    <3>2. QED
      BY <1>11, <3>1
  <2>2. QED
    BY <1>7, <2>1 DEF SameOriginal
<1>18. \A i \in DOMAIN input_buffer' :
         /\ Incoming(queues, input_buffer[i])'
         /\ \A w \in wire' : ~SameOriginal(w.packet, input_buffer'[i])
  <2>1. ASSUME NEW i \in DOMAIN input_buffer'
        PROVE  Incoming(queues, input_buffer[i])'
    <3>1. input_buffer'[i] = pkt
      BY <1>9
    <3>2. QED
      BY <1>16, <3>1 DEF Incoming
  <2>2. QED
    BY <1>1, <1>9, <1>17, <2>1
<1>19. QED
  BY <1>9, <1>10, <1>12, <1>13, <1>14, <1>15, <1>18 DEF IInv

LEMMA AfterIngressCloneType ==
  ASSUME IInv, phase = "ingress", NEW v
  PROVE  /\ AfterIngressClone(v) \in [Classes -> Seq(Located)]
         /\ \A c \in Classes : Len(AfterIngressClone(v)[c]) <= QueueBufferSize
         /\ Queued(AfterIngressClone(v))
         /\ Incoming(AfterIngressClone(v), Head(input_buffer))
<1>1. /\ Head(input_buffer) \in Located
      /\ Incoming(queues, Head(input_buffer))
  BY PassType
<1>2. /\ queues \in [Classes -> Seq(Located)]
      /\ \A c \in Classes : Len(queues[c]) <= QueueBufferSize
      /\ Queued(queues)
  BY DEF IInv, TypeOK
<1>3. /\ AfterIngressClone(v) \in [Classes -> Seq(Located)]
      /\ \A c \in Classes : Len(AfterIngressClone(v)[c]) <= QueueBufferSize
      /\ Extends(queues, AfterIngressClone(v))
  BY <1>1, <1>2, ClonesType DEF AfterIngressClone
<1>4. QED
  BY <1>1, <1>2, <1>3, ExtendsQueued, ExtendsIncoming

LEMMA IngressInvariant ==
  ASSUME IInv, NEW v \in IngressVerdicts,
         \/ IngressDrop(v) \/ IngressResubmit(v)
         \/ IngressMulticast(v) \/ IngressUnicast(v)
  PROVE  IInv'
<1> DEFINE pkt == Head(input_buffer)
           after == AfterIngressClone(v)
<1>1. /\ phase = "ingress"
      /\ UNCHANGED <<destinations, first_packet, extra, wire, received, newest>>
      /\ first_packet \in BOOLEAN /\ extra \in BOOLEAN
  BY DEF IngressDrop, IngressResubmit, IngressMulticast, IngressUnicast,
         IngressPass, timer, history, IInv, TypeOK
<1>2. /\ pkt \in Located
      /\ Tail(input_buffer) = <<>>
      /\ \A w \in wire : ~SameOriginal(w.packet, pkt)
  BY <1>1, PassType
<1>3. /\ after \in [Classes -> Seq(Located)]
      /\ \A c \in Classes : Len(after[c]) <= QueueBufferSize
      /\ Queued(after)
      /\ Incoming(after, pkt)
  BY <1>1, AfterIngressCloneType
<1>4. v.priority \in Nat
  BY ConstantsAssumption DEF IngressVerdict
<1> HIDE DEF pkt, after
<1>5. CASE IngressDrop(v)
  <2>1. queues' = after /\ phase' = "idle" /\ input_buffer' = <<>>
    BY <1>2, <1>5 DEF IngressDrop, after
  <2>2. QED
    BY <1>1, <1>3, <2>1, InnerInvariant
<1>6. CASE IngressResubmit(v)
  <2>1. queues' = after /\ Submit(<<>>, Again(pkt))
    BY <1>2, <1>6 DEF IngressResubmit, after, pkt
  <2>2. /\ Again(pkt) \in Located
        /\ Again(pkt).id = pkt.id /\ Again(pkt).intact = pkt.intact
        /\ Again(pkt).recirculated = pkt.recirculated
    BY <1>2, AgainType
  <2>3. /\ Incoming(after, Again(pkt))
        /\ \A w \in wire : ~SameOriginal(w.packet, Again(pkt))
    BY <1>2, <1>3, <2>2, SamePlace
  <2>4. QED
    BY <1>1, <1>3, <2>1, <2>2, <2>3, InnerInvariant
<1>7. CASE IngressMulticast(v)
  <2> DEFINE ports == GroupPorts({v.multicast_group})
             copy == Copy(pkt, v.priority)
  <2>1. /\ queues' = Enqueue(after, ports, copy)
        /\ phase' = "idle" /\ input_buffer' = <<>>
    BY <1>2, <1>7 DEF IngressMulticast, after, pkt
  <2>2. copy \in Located /\ ~copy.intact
    BY <1>2, <1>4, CopyType
  <2> HIDE DEF ports, copy
  <2>3. /\ Enqueue(after, ports, copy) \in [Classes -> Seq(Located)]
        /\ \A c \in Classes : Len(Enqueue(after, ports, copy)[c]) <= QueueBufferSize
    BY <1>3, <2>2, EnqueueType
  <2>4. Queued(Enqueue(after, ports, copy))
    BY <1>3, <2>2, EnqueueExtends, ExtendsQueued
  <2>5. QED
    BY <1>1, <2>1, <2>3, <2>4, InnerInvariant
<1>8. CASE IngressUnicast(v)
  <2> DEFINE ports == {v.egress_port}
             q == [pkt EXCEPT !.priority = v.priority]
  <2>1. /\ queues' = Enqueue(after, ports, q)
        /\ phase' = "idle" /\ input_buffer' = <<>>
    BY <1>2, <1>8 DEF IngressUnicast, after, pkt
  <2>2. /\ q \in Located /\ q.id = pkt.id /\ q.intact = pkt.intact
        /\ q.recirculated = pkt.recirculated
    BY <1>2, <1>4, PriorityType
  <2> HIDE DEF q
  <2>3. Incoming(after, q) /\ \A w \in wire : ~SameOriginal(w.packet, q)
    BY <1>2, <1>3, <2>2, SamePlace
  <2>4. Queued(Enqueue(after, ports, q))
    BY <1>3, <2>2, <2>3, EnqueueOriginal
  <2> HIDE DEF ports
  <2>5. /\ Enqueue(after, ports, q) \in [Classes -> Seq(Located)]
        /\ \A c \in Classes : Len(Enqueue(after, ports, q)[c]) <= QueueBufferSize
    BY <1>3, <2>2, EnqueueType
  <2>6. QED
    BY <1>1, <2>1, <2>4, <2>5, InnerInvariant
<1>9. QED
  BY <1>5, <1>6, <1>7, <1>8

(* A packet handed to the net device. *)
LEMMA SendInvariant ==
  ASSUME IInv, phase = "idle", NEW c \in Classes, NEW pkt \in Located,
         Send(c, pkt), UNCHANGED <<destinations, received>>,
         first_packet' \in BOOLEAN, extra' \in BOOLEAN,
         queues' \in [Classes -> Seq(Located)],
         \A k \in Classes : Len(queues'[k]) <= QueueBufferSize,
         Queued(queues'),
         pkt.intact => pkt.id < received /\ Absent(queues', pkt.id),
         Fresh(pkt) => /\ newest[c] < pkt.id
                       /\ \A n \in DOMAIN queues'[c] :
                            Fresh(queues'[c][n]) => pkt.id < queues'[c][n].id
  PROVE  IInv' /\ newest'[c] >= newest[c]
               /\ \A k \in Classes \ {c} : newest'[k] = newest[k]
<1>1. PICK to \in SentTo(pkt) : wire' = {[packet |-> pkt, port |-> c[1], to |-> to]}
  BY DEF Send
<1>2. /\ newest' = IF Fresh(pkt) THEN [newest EXCEPT ![c] = pkt.id] ELSE newest
      /\ UNCHANGED <<phase, input_buffer>>
  BY DEF Send, Fresh
<1>3. /\ pkt \in Packets /\ pkt.id \in Nat
      /\ newest \in [Classes -> Int] /\ received \in Nat
  BY DEF Located, Packets, IInv, TypeOK
<1>4. /\ to \in Destinations
      /\ pkt.intact /\ Len(destinations) <= AddressIndexes => to = pkt.destination
  <2>1. CASE pkt.intact
    BY <1>1, <2>1 DEF SentTo, Located, IInv, TypeOK
  <2>2. CASE ~pkt.intact
    BY <1>1, <2>2 DEF SentTo
  <2>3. QED
    BY <2>1, <2>2
<1>5. /\ newest' \in [Classes -> Int]
      /\ newest'[c] = IF Fresh(pkt) THEN pkt.id ELSE newest[c]
      /\ \A k \in Classes \ {c} : newest'[k] = newest[k]
      /\ newest'[c] >= newest[c]
  <2>1. CASE Fresh(pkt)
    <3>1. newest' = [newest EXCEPT ![c] = pkt.id]
      BY <1>2, <2>1
    <3>2. pkt.id \in Int /\ newest[c] \in Int /\ newest[c] < pkt.id
      BY <1>3, <2>1
    <3>3. QED
      BY <1>3, <2>1, <3>1, <3>2
  <2>2. CASE ~Fresh(pkt)
    <3>1. newest' = newest
      BY <1>2, <2>2
    <3>2. QED
      BY <1>3, <2>2, <3>1
  <2>3. QED
    BY <2>1, <2>2
<1>6. Located' = Located /\ Located \subseteq Packets
  BY DEF Located
<1>7. queues' \in [Classes -> Seq(Packets)]
  BY <1>6, SeqMonotone
<1>8. wire' \subseteq Wires
  BY <1>1, <1>3, <1>4 DEF Wires, Classes
<1>9. TypeOK'
  BY <1>2, <1>5, <1>7, <1>8 DEF IInv, TypeOK
<1>10. input_buffer = <<>> /\ input_buffer' = <<>> /\ InputDrained'
  BY <1>2 DEF IInv, InputDrained
<1>11. DestinationKept'
  BY <1>1, <1>4 DEF DestinationKept
<1>12. \A k \in Classes : newest'[k] < received'
  <2>1. Fresh(pkt) => pkt.id < received
    BY DEF Fresh
  <2>2. QED
    BY <1>5, <2>1 DEF IInv
<1>13. Queued(queues)'
  <2>1. Distinct(queues)' /\ Ordered(queues)'
    BY DEF Queued, Distinct, Ordered
  <2>2. Numbered(queues)'
    BY <1>5 DEF Queued, Numbered
  <2>3. \A w \in wire' : Outgoing(queues, w.packet)'
    BY <1>1 DEF Outgoing, Absent
  <2>4. QED
    BY <2>1, <2>2, <2>3 DEF Queued
<1>14. QED
  BY <1>2, <1>5, <1>6, <1>9, <1>10, <1>11, <1>12, <1>13 DEF IInv

LEMMA ServeInvariant ==
  ASSUME IInv, NEW c \in Classes, NEW v \in EgressVerdicts, Serve(c, v),
         first_packet' \in BOOLEAN, extra' \in BOOLEAN
  PROVE  IInv' /\ \A k \in Classes : newest'[k] >= newest[k]
<1> PICK pkt : pkt = Head(queues[c])
  OBVIOUS
<1> PICK popped : popped = [queues EXCEPT ![c] = Tail(queues[c])]
  OBVIOUS
<1>1. /\ phase = "idle" /\ queues[c] # <<>>
      /\ queues' = Clones(popped, pkt, v.clone)
      /\ \/ UNCHANGED <<phase, input_buffer, wire, newest>>
         \/ Recirculate(c, pkt)
         \/ Send(c, pkt)
      /\ UNCHANGED <<destinations, received>>
  BY DEF Serve
<1>2. /\ pkt \in Located
      /\ popped \in [Classes -> Seq(Located)]
      /\ \A k \in Classes : Len(popped[k]) <= QueueBufferSize
      /\ Queued(popped)
      /\ pkt.intact => pkt.id < received /\ Absent(popped, pkt.id)
      /\ \A w \in wire : ~SameOriginal(w.packet, pkt)
      /\ Fresh(pkt) => /\ newest[c] < pkt.id
                      /\ \A n \in DOMAIN popped[c] :
                           Fresh(popped[c][n]) => pkt.id < popped[c][n].id
  BY <1>1, PopOriginal
<1>3. /\ queues' \in [Classes -> Seq(Located)]
      /\ \A k \in Classes : Len(queues'[k]) <= QueueBufferSize
      /\ Extends(popped, queues')
  BY <1>1, <1>2, ClonesType
<1>4. Queued(queues')
  BY <1>2, <1>3, ExtendsQueued
<1>5. pkt.intact => pkt.id < received /\ Absent(queues', pkt.id)
  BY <1>2, <1>3 DEF Extends, Absent
<1>6. Fresh(pkt) => \A n \in DOMAIN queues'[c] :
                      Fresh(queues'[c][n]) => pkt.id < queues'[c][n].id
  BY <1>2, <1>3 DEF Extends, Fresh
<1>7. input_buffer = <<>> /\ \A k \in Classes : newest[k] \in Int
  BY <1>1 DEF IInv, InputDrained, TypeOK
<1>8. CASE UNCHANGED <<phase, input_buffer, wire, newest>>
  <2>1. phase' = "idle" /\ input_buffer' = <<>>
    BY <1>1, <1>7, <1>8
  <2>2. IInv'
    BY <1>1, <1>3, <1>4, <1>8, <2>1, InnerInvariant
  <2>3. \A k \in Classes : newest'[k] >= newest[k]
    BY <1>7, <1>8
  <2>4. QED
    BY <2>2, <2>3
<1>9. CASE Recirculate(c, pkt)
  <2>1. Submit(<<>>, Recirculated(pkt)) /\ UNCHANGED <<wire, newest>>
    BY <1>7, <1>9 DEF Recirculate
  <2>2. /\ Recirculated(pkt) \in Located
        /\ Recirculated(pkt).id = pkt.id
        /\ Recirculated(pkt).intact = pkt.intact
        /\ Recirculated(pkt).recirculated
    BY <1>2, RecirculatedType
  <2>3. /\ Incoming(queues', Recirculated(pkt))
        /\ \A w \in wire : ~SameOriginal(w.packet, Recirculated(pkt))
    BY <1>2, <1>5, <2>2 DEF Incoming, Fresh, SameOriginal
  <2>4. IInv'
    BY <1>1, <1>3, <1>4, <2>1, <2>2, <2>3, InnerInvariant
  <2>5. \A k \in Classes : newest'[k] >= newest[k]
    BY <1>7, <2>1
  <2>6. QED
    BY <2>4, <2>5
<1>10. CASE Send(c, pkt)
  <2>1. /\ IInv' /\ newest'[c] >= newest[c]
        /\ \A k \in Classes \ {c} : newest'[k] = newest[k]
    BY <1>1, <1>2, <1>3, <1>4, <1>5, <1>6, <1>10, SendInvariant
  <2>2. \A k \in Classes \ {c} : newest'[k] >= newest[k]
    BY <1>7, <2>1
  <2>3. QED
    BY <2>1, <2>2
<1>11. QED
  BY <1>1, <1>8, <1>9, <1>10

(* A poll that serves nothing, and a stutter. *)
LEMMA IdleInvariant ==
  ASSUME IInv, extra' \in BOOLEAN,
         UNCHANGED <<phase, input_buffer, queues, destinations, first_packet,
                     wire, history>>
  PROVE  IInv'
<1>1. UNCHANGED <<received, newest>> /\ Located' = Located
  BY DEF history, Located
<1>2. TypeOK'
  BY <1>1 DEF IInv, TypeOK
<1>3. DestinationKept' /\ InputDrained'
  BY DEF IInv, DestinationKept, InputDrained
<1>4. Queued(queues)'
  BY <1>1 DEF IInv, Queued, Distinct, Ordered, Numbered, Outgoing, Absent
<1>5. \A i \in DOMAIN input_buffer' :
        /\ Incoming(queues, input_buffer[i])'
        /\ \A w \in wire' : ~SameOriginal(w.packet, input_buffer'[i])
  BY <1>1 DEF IInv, Incoming, Absent
<1>6. QED
  BY <1>1, <1>2, <1>3, <1>4, <1>5 DEF IInv

LEMMA StepInvariant ==
  ASSUME IInv, [Next]_vars
  PROVE  IInv' /\ \A c \in Classes : newest'[c] >= newest[c]
<1>0. ASSUME newest' = newest
      PROVE  \A c \in Classes : newest'[c] >= newest[c]
  <2>1. \A c \in Classes : newest[c] \in Int
    BY DEF IInv, TypeOK
  <2>2. QED
    BY <1>0, <2>1
<1>1. CASE \E d \in Destinations : Receive(d)
  BY <1>0, <1>1, ReceiveInvariant DEF Receive
<1>2. CASE Ingress
  <2>1. newest' = newest
    BY <1>2 DEF Ingress, IngressDrop, IngressResubmit, IngressMulticast,
                IngressUnicast, history
  <2>2. QED
    BY <1>0, <1>2, <2>1, IngressInvariant DEF Ingress
<1>3. CASE EgressServes
  <2>1. first_packet' \in BOOLEAN /\ extra' \in BOOLEAN
    BY <1>3 DEF EgressServes, EgressTimerServes, ExtraPollServes, IInv, TypeOK
  <2>2. \E c \in Classes, v \in EgressVerdicts : Serve(c, v)
    BY <1>3 DEF EgressServes, EgressTimerServes, ExtraPollServes
  <2>3. QED
    BY <2>1, <2>2, ServeInvariant
<1>4. CASE EgressTimerIdles \/ ExtraPollIdles \/ UNCHANGED vars
  <2>1. /\ extra' \in BOOLEAN
        /\ UNCHANGED <<phase, input_buffer, queues, destinations, first_packet,
                       wire, history>>
    BY <1>4 DEF EgressTimerIdles, ExtraPollIdles, vars, timer, IInv, TypeOK
  <2>2. newest' = newest
    BY <2>1 DEF history
  <2>3. QED
    BY <1>0, <2>1, <2>2, IdleInvariant
<1>5. QED
  BY <1>1, <1>2, <1>3, <1>4 DEF Next

-----------------------------------------------------------------------------

(* The inductive invariant holds in every reachable state. *)
THEOREM Invariant == Spec => []IInv
<1>1. IInv /\ [Next]_vars => IInv'
  BY StepInvariant
<1>2. QED
  BY <1>1, InitInvariant, PTL DEF Spec

(* Every variable keeps its type and no class outgrows its capacity. *)
THEOREM TypeCorrect == Spec => []TypeOK
<1>1. IInv => TypeOK
  BY DEF IInv
<1>2. QED
  BY <1>1, Invariant, PTL

(* Between events the input buffer is empty, whatever was cloned,          *)
(* resubmitted or recirculated, and no push waits as long as there is room *)
(* for one packet.                                                         *)
THEOREM InputAlwaysDrained == Spec => []InputDrained
<1>1. IInv => InputDrained
  BY DEF IInv
<1>2. QED
  BY <1>1, Invariant, PTL

(* A packet that is no copy is sent to its own address. *)
THEOREM DestinationAlwaysKept == Spec => []DestinationKept
<1>1. IInv => DestinationKept
  BY DEF IInv
<1>2. QED
  BY <1>1, Invariant, PTL

(* A packet that is no copy is in one place. *)
THEOREM OneOriginalCorrect == Spec => []OneOriginal
<1>1. IInv => OneOriginal
  <2> SUFFICES ASSUME IInv PROVE OneOriginal
    OBVIOUS
  <2>1. Distinct(queues)
    BY DEF IInv, Queued
  <2>2. \A i \in DOMAIN input_buffer, c \in Classes : \A n \in DOMAIN queues[c] :
          ~SameOriginal(input_buffer[i], queues[c][n])
    BY DEF IInv, Incoming, Absent, SameOriginal
  <2>3. ASSUME NEW w \in wire
        PROVE  /\ \A i \in DOMAIN input_buffer : ~SameOriginal(w.packet, input_buffer[i])
               /\ \A c \in Classes : \A n \in DOMAIN queues[c] :
                    ~SameOriginal(w.packet, queues[c][n])
    <3>1. \A c \in Classes : \A n \in DOMAIN queues[c] :
            ~SameOriginal(w.packet, queues[c][n])
      BY DEF IInv, Queued, Outgoing, Absent, SameOriginal
    <3>2. QED
      BY <3>1 DEF IInv
  <2>4. QED
    BY <2>1, <2>2, <2>3 DEF OneOriginal, Distinct
<1>2. QED
  BY <1>1, Invariant, PTL

(* Packets of a class that were neither copied nor recirculated leave in   *)
(* the order they were received.                                           *)
THEOREM SentInOrderCorrect == Spec => SentInOrder
<1>1. IInv /\ [Next]_vars => [\A c \in Classes : newest'[c] >= newest[c]]_vars
  BY StepInvariant
<1>2. QED
  BY <1>1, Invariant, PTL DEF Spec, SentInOrder
=============================================================================
