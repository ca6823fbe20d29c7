---------------------------- MODULE Fabric_proofs ----------------------------
(***************************************************************************)
(* Proofs about Fabric, for every set of well-formed networks, every       *)
(* number of packets and every size of the NIC's buffer.                   *)
(***************************************************************************)
EXTENDS Fabric, FiniteSetTheorems, WellFoundedInduction, TLAPS

-----------------------------------------------------------------------------
(* Induction, over a set of numbers.  It follows from the order of finite  *)
(* sets by inclusion: of the numbers left out none is the least.           *)
LEMMA Induction ==
  ASSUME NEW S, 0 \in S, \A n \in Nat : n \in S => n + 1 \in S
  PROVE  Nat \subseteq S
<1> DEFINE T == {0 .. n : n \in Nat \ S}
<1>1. SUFFICES ASSUME Nat \ S # {} PROVE FALSE
  OBVIOUS
<1>2. T \subseteq FiniteSubsetsOf(Nat) /\ T # {}
  <2>1. \A n \in Nat : IsFiniteSet(0 .. n) /\ 0 .. n \in SUBSET Nat
    BY FS_Interval
  <2>2. QED
    BY <1>1, <2>1 DEF FiniteSubsetsOf
<1>3. PICK t \in T : \A u \in T : <<u, t>> \notin StrictSubsetOrdering(Nat)
  BY <1>2, WFMin, FS_StrictSubsetOrderingWellFounded
<1>4. PICK m \in Nat \ S : t = 0 .. m
  OBVIOUS
<1>5. m # 0 /\ m - 1 \in Nat \ S
  <2>1. m # 0
    OBVIOUS
  <2>2. m - 1 \in Nat /\ (m - 1) + 1 = m
    BY <2>1
  <2>3. QED
    BY <2>1, <2>2
<1>6. <<0 .. m - 1, t>> \in StrictSubsetOrdering(Nat)
  <2>1. m - 1 \in Nat /\ m \in Nat
    BY <1>5
  <2>2. 0 .. m - 1 \in SUBSET Nat /\ 0 .. m \in SUBSET Nat /\ 0 .. m - 1 \subseteq 0 .. m
        /\ m \in 0 .. m /\ m \notin 0 .. m - 1
    BY <2>1
  <2>3. QED
    BY <1>4, <2>2 DEF StrictSubsetOrdering
<1>7. QED
  BY <1>3, <1>5, <1>6

-----------------------------------------------------------------------------
(* Installation.                                                           *)

(* A switch's ports are the devices of its container, in order, and its    *)
(* address is that of the first one.                                       *)
LEMMA AllAdded ==
  ASSUME NEW S, NEW s \in Seq(S), NoAddress \notin S
  PROVE  /\ AddAll(AddPort, s) =
              [ports |-> s, address |-> IF s = <<>> THEN NoAddress ELSE s[1]]
         /\ AddAll(AddBridgePort, s) = AddAll(AddPort, s)
<1> DEFINE K == 0 .. Len(s)
           Turn(f) == [k \in K |-> IF k = 0 THEN NewDevice ELSE AddPort(f[k - 1], s[k])]
           after == CHOOSE f : f = Turn(f)
           So(k) == [ports |-> SubSeq(s, 1, k), address |-> IF k = 0 THEN NoAddress ELSE s[1]]
           closed == [k \in K |-> So(k)]
<1>1. Len(s) \in Nat
  OBVIOUS
<1>2. ASSUME NEW k \in K, k # 0
      PROVE  AddPort(So(k - 1), s[k]) = So(k)
  <2>1. /\ k \in 1 .. Len(s) /\ k - 1 \in 0 .. Len(s) /\ 1 \in 1 .. Len(s)
        /\ s[1] \in S /\ s[k] \in S
    BY <1>1, <1>2
  <2>2. Append(SubSeq(s, 1, k - 1), s[k]) = SubSeq(s, 1, k)
    BY <2>1
  <2>3. CASE k = 1
    BY <2>1, <2>2, <2>3 DEF AddPort
  <2>4. CASE k # 1
    <3>1. k - 1 # 0 /\ s[1] # NoAddress
      BY <2>1, <2>4
    <3>2. So(k - 1) = [ports |-> SubSeq(s, 1, k - 1), address |-> s[1]]
      BY <3>1
    <3>3. So(k) = [ports |-> SubSeq(s, 1, k), address |-> s[1]]
      BY <1>2
    <3> HIDE DEF So
    <3>4. So(k - 1).ports = SubSeq(s, 1, k - 1) /\ So(k - 1).address = s[1]
      BY <3>2
    <3>5. AddPort(So(k - 1), s[k]) = [ports |-> SubSeq(s, 1, k), address |-> s[1]]
      BY <2>2, <3>1, <3>4 DEF AddPort
    <3>6. QED
      BY <3>3, <3>5
  <2>5. QED
    BY <2>3, <2>4
<1>3. So(0) = NewDevice
  <2>1. SubSeq(s, 1, 0) = <<>>
    OBVIOUS
  <2>2. QED
    BY <2>1 DEF NewDevice
<1> HIDE DEF So
<1>4. closed = Turn(closed)
  <2>1. ASSUME NEW k \in K
        PROVE  closed[k] = IF k = 0 THEN NewDevice ELSE AddPort(closed[k - 1], s[k])
    <3>1. CASE k = 0
      BY <1>3, <3>1
    <3>2. CASE k # 0
      <4>1. k - 1 \in K
        BY <1>1, <3>2
      <4>2. QED
        BY <1>2, <3>2, <4>1
    <3>3. QED
      BY <3>1, <3>2
  <2>2. QED
    BY <2>1
<1>5. after = Turn(after)
  BY <1>4
<1> HIDE DEF after
<1>6. \A k \in Nat : k \in K => after[k] = So(k)
  <2> DEFINE Done == {k \in Nat : k \in K => after[k] = So(k)}
  <2>1. 0 \in Done
    BY <1>1, <1>3, <1>5
  <2>2. ASSUME NEW k \in Nat, k \in Done
        PROVE  k + 1 \in Done
    <3>1. SUFFICES ASSUME k + 1 \in K PROVE after[k + 1] = So(k + 1)
      OBVIOUS
    <3>2. k \in K /\ k + 1 # 0 /\ (k + 1) - 1 = k
      BY <1>1, <3>1
    <3>3. after[k + 1] = AddPort(after[k], s[k + 1])
      BY <1>5, <3>1, <3>2
    <3>4. after[k] = So(k)
      BY <2>2, <3>2
    <3>5. AddPort(So(k), s[k + 1]) = So(k + 1)
      BY <1>2, <3>1, <3>2
    <3>6. QED
      BY <3>3, <3>4, <3>5
  <2> HIDE DEF Done
  <2>3. Nat \subseteq Done
    BY <2>1, <2>2, Induction
  <2>4. QED
    BY <2>3 DEF Done
<1>7. after[Len(s)] = [ports |-> s, address |-> IF s = <<>> THEN NoAddress ELSE s[1]]
  <2>1. after[Len(s)] = So(Len(s))
    BY <1>1, <1>6
  <2>2. SubSeq(s, 1, Len(s)) = s /\ (Len(s) = 0 <=> s = <<>>)
    OBVIOUS
  <2>3. QED
    BY <2>1, <2>2 DEF So
<1>8. AddAll(AddPort, s) = after[Len(s)] /\ AddAll(AddBridgePort, s) = after[Len(s)]
  BY DEF AddAll, AddBridgePort, after
<1>9. QED
  BY <1>7, <1>8

(* What the installation has done: the links join the ends they list, the  *)
(* switches have the ports they were given, and the simulation does not    *)
(* start before all are there.                                             *)
Installed ==
  /\ net \in Networks
  /\ DOMAIN peer \subseteq Ends
  /\ \A i \in DOMAIN net.links : \A a, b \in ToSet(net.links[i]) :
       a # b /\ a \in DOMAIN peer => peer[a] = b
  /\ DOMAIN device \subseteq Switches
  /\ \A n \in DOMAIN device :
       /\ device[n].ports = net.added[n]
       /\ net.added[n] # <<>> => device[n].address = net.added[n][1]
  /\ DOMAIN device # {} => DOMAIN peer = Ends
  /\ status # "installing" => DOMAIN peer = Ends /\ DOMAIN device = Switches
  /\ \A port \in managers : port[1] \in DOMAIN device /\ port[2] \in PortsOf(port[1])
  /\ down \subseteq net.managed
  /\ status = "installing" => down = {}

LEMMA AppendTwice ==
  ASSUME NEW a, NEW b
  PROVE  Append(Append(<<>>, a), b) = <<a, b>>
<1>1. <<>> \in Seq({a, b}) /\ <<a>> \in Seq({a, b}) /\ <<a, b>> \in Seq({a, b})
  OBVIOUS
<1>2. Append(<<>>, a) = <<a>>
  BY <1>1
<1>3. Append(<<a>>, b) = <<a, b>>
  <2>1. /\ Append(<<a>>, b) \in Seq({a, b}) /\ Len(Append(<<a>>, b)) = 2
        /\ Append(<<a>>, b)[1] = a /\ Append(<<a>>, b)[2] = b
    BY <1>1
  <2>2. \A t \in Seq({a, b}) : Len(t) = 2 => t = <<t[1], t[2]>>
    OBVIOUS
  <2>3. QED
    BY <2>1, <2>2
<1>4. QED
  BY <1>2, <1>3

LEMMA PairSet ==
  ASSUME NEW l, l = <<l[1], l[2]>>
  PROVE  ToSet(l) = {l[1], l[2]}
<1>1. DOMAIN l = {1, 2}
  OBVIOUS
<1>2. QED
  BY <1>1 DEF ToSet

LEMMA LinksApart ==
  ASSUME net \in Networks
  PROVE  \A i, j \in DOMAIN net.links :
           /\ ToSet(net.links[i]) = {net.links[i][1], net.links[i][2]}
           /\ net.links[i][1] # net.links[i][2]
           /\ ToSet(net.links[i]) \subseteq Ends
           /\ i # j => ToSet(net.links[i]) \cap ToSet(net.links[j]) = {}
<1>1. WellFormed(net)
  BY FabricAssumption
<1>2. \A i \in DOMAIN net.links :
        /\ net.links[i] = <<net.links[i][1], net.links[i][2]>>
        /\ net.links[i][1] # net.links[i][2]
        /\ \A j \in DOMAIN net.links : i # j => ToSet(net.links[i]) \cap ToSet(net.links[j]) = {}
  BY <1>1 DEF WellFormed
<1>3. \A i \in DOMAIN net.links : ToSet(net.links[i]) = {net.links[i][1], net.links[i][2]}
  BY <1>2, PairSet
<1>4. \A i \in DOMAIN net.links : ToSet(net.links[i]) \subseteq Ends
  BY DEF Ends, EndsOf
<1>5. QED
  BY <1>2, <1>3, <1>4

LEMMA InstallLinkInstalls ==
  ASSUME Installed, InstallLink
  PROVE  Installed'
<1>1. /\ status = "installing"
      /\ UNCHANGED <<net, device, managers, down, wire, buffer, got, sent, lossy, status>>
  BY DEF InstallLink
<1>2. PICK i \in DOMAIN net.links :
        /\ ToSet(net.links[i]) \cap DOMAIN peer = {}
        /\ peer' = Extended(peer, Destinations(Attach(Attach(<<>>, net.links[i][1]), net.links[i][2])))
  BY DEF InstallLink
<1> DEFINE l == net.links[i]
<1>3. /\ ToSet(l) = {l[1], l[2]} /\ l[1] # l[2] /\ ToSet(l) \subseteq Ends
  BY LinksApart DEF Installed
<1>4. Destinations(Attach(Attach(<<>>, l[1]), l[2]))
        = [e \in ToSet(l) |-> IF e = l[1] THEN l[2] ELSE l[1]]
  <2>1. Attach(Attach(<<>>, l[1]), l[2]) = <<l[1], l[2]>>
    BY AppendTwice DEF Attach
  <2>2. Len(<<l[1], l[2]>>) = 2 /\ ToSet(<<l[1], l[2]>>) = {l[1], l[2]}
    BY DEF ToSet
  <2>3. QED
    BY <1>3, <2>1, <2>2 DEF Destinations
<1> HIDE DEF l
<1>5. /\ DOMAIN peer' = DOMAIN peer \cup ToSet(l)
      /\ \A e \in DOMAIN peer : peer'[e] = peer[e]
      /\ \A e \in ToSet(l) : peer'[e] = IF e = l[1] THEN l[2] ELSE l[1]
  BY <1>2, <1>4 DEF Extended, l
<1>6. \A j \in DOMAIN net.links : \A a, b \in ToSet(net.links[j]) :
        a # b /\ a \in DOMAIN peer' => peer'[a] = b
  <2> SUFFICES ASSUME NEW j \in DOMAIN net.links,
                      NEW a \in ToSet(net.links[j]), NEW b \in ToSet(net.links[j]),
                      a # b, a \in DOMAIN peer'
               PROVE  peer'[a] = b
    OBVIOUS
  <2>1. CASE a \in DOMAIN peer
    BY <1>5, <2>1 DEF Installed
  <2>2. CASE a \in ToSet(l)
    <3>1. j = i
      BY <2>2, LinksApart DEF Installed, l
    <3>2. b \in ToSet(l)
      BY <3>1 DEF l
    <3>3. QED
      BY <1>3, <1>5, <2>2, <3>2
  <2>3. QED
    BY <1>5, <2>1, <2>2
<1>7. Ends' = Ends /\ Switches' = Switches
  BY <1>1 DEF Ends, Switches
<1>8. DOMAIN peer' \subseteq Ends
  BY <1>3, <1>5 DEF Installed
<1>9. DOMAIN device # {} => DOMAIN peer' = Ends
  BY <1>3, <1>5, <1>8 DEF Installed
<1>10. \A n : PortsOf(n)' = PortsOf(n)
  BY <1>1 DEF PortsOf
<1>11. QED
  BY <1>1, <1>6, <1>7, <1>8, <1>9, <1>10 DEF Installed

LEMMA InstallSwitchInstalls ==
  ASSUME Installed, NEW n \in Switches, InstallDummy(n) \/ InstallP4(n)
  PROVE  Installed'
<1>1. /\ status = "installing" /\ DOMAIN peer = Ends /\ n \in Switches \ DOMAIN device
      /\ UNCHANGED <<net, peer, managers, down, wire, buffer, got, sent, lossy, status>>
  BY DEF InstallDummy, InstallP4, Installable
<1> DEFINE s == net.added[n]
           new == [ports |-> s, address |-> IF s = <<>> THEN NoAddress ELSE s[1]]
           At == {e \in Ends : e[1] = n}
<1>2. device' = Extended(device, [m \in {n} |-> new])
  <2>1. s \in Seq(At) /\ NoAddress \notin At
    <3>1. WellFormed(net) /\ n \in DOMAIN net.kind
      BY <1>1, FabricAssumption DEF Installed, Switches
    <3>2. s \in Seq({e \in EndsOf(net) : e[1] = n}) /\ NoAddress \notin EndsOf(net)
      BY <3>1 DEF WellFormed
    <3>3. QED
      BY <3>2 DEF Ends
  <2> HIDE DEF At
  <2>2. AddAll(AddPort, s) = new /\ AddAll(AddBridgePort, s) = new
    BY <2>1, AllAdded
  <2>3. QED
    BY <2>2 DEF InstallDummy, InstallP4
<1>3. /\ DOMAIN device' = DOMAIN device \cup {n}
      /\ \A m \in DOMAIN device : device'[m] = device[m]
      /\ device'[n] = new
  BY <1>1, <1>2 DEF Extended
<1>4. \A m \in DOMAIN device' :
        /\ device'[m].ports = net.added[m]
        /\ net.added[m] # <<>> => device'[m].address = net.added[m][1]
  BY <1>3 DEF Installed
<1>5. Ends' = Ends /\ Switches' = Switches
  BY <1>1 DEF Ends, Switches
<1>6. \A port \in managers :
        port[1] \in DOMAIN device' /\ port[2] \in PortsOf(port[1])'
  BY <1>3 DEF Installed, PortsOf
<1> HIDE DEF new
<1>7. QED
  BY <1>1, <1>3, <1>4, <1>5, <1>6 DEF Installed

LEMMA SetPortTrafficManagerInstalls ==
  ASSUME Installed, NEW n, NEW i, SetPortTrafficManager(n, i)
  PROVE  Installed'
<1>1. /\ n \in DOMAIN device /\ i \in PortsOf(n)
      /\ managers' = managers \cup {<<n, i>>}
      /\ UNCHANGED <<net, peer, device, down, wire, buffer, got, sent, lossy, status>>
  BY DEF SetPortTrafficManager
<1>2. \A port \in managers' : port[1] \in DOMAIN device /\ port[2] \in PortsOf(port[1])
  BY <1>1 DEF Installed
<1>3. /\ Ends' = Ends /\ Switches' = Switches
      /\ \A m : PortsOf(m)' = PortsOf(m)
  BY <1>1 DEF Ends, Switches, PortsOf
<1>4. QED
  BY <1>1, <1>2, <1>3 DEF Installed

(* A step of a running simulation installs nothing. *)
LEMMA RunningInstalled ==
  ASSUME Installed, UNCHANGED setup, down' \subseteq net.managed,
         DOMAIN peer = Ends, DOMAIN device = Switches, status' # "installing"
  PROVE  Installed'
<1>1. /\ Ends' = Ends /\ Switches' = Switches
      /\ \A n : PortsOf(n)' = PortsOf(n)
      /\ UNCHANGED <<net, peer, device, managers>>
  BY DEF setup, Ends, Switches, PortsOf
<1>2. QED
  BY <1>1 DEF Installed

-----------------------------------------------------------------------------
(* The packets under way: what they carry is not looked at, only that each *)
(* of them is one of those sent.                                           *)
Carried(S) ==
  /\ wire \in [Ends -> Seq(S)]
  /\ buffer \in [Switches -> Seq(S)]
  /\ got \in [Nodes -> Seq(S)]
Known(S) == \A p \in S : p.id \in 1 .. Len(sent)

NicBounded == \A n \in Switches : net.kind[n] = "pna" => Len(buffer[n]) <= PnaCapacity

TInv ==
  /\ Installed
  /\ \E S : Carried(S) /\ Known(S)
  /\ \E R : sent \in Seq(R)
  /\ Len(sent) <= MaxFrames
  /\ NicBounded
  /\ lossy \in BOOLEAN
  /\ status \in {"installing", "running", "crashed", "hung"}

LEMMA AppendType ==
  ASSUME NEW S, NEW s \in Seq(S), NEW x \in S
  PROVE  Append(s, x) \in Seq(S) /\ Len(Append(s, x)) = Len(s) + 1 /\ Len(s) \in Nat
OBVIOUS

LEMMA SeqMonotone ==
  ASSUME NEW S, NEW T, S \subseteq T, NEW s \in Seq(S)
  PROVE  s \in Seq(T)
OBVIOUS

LEMMA TailType ==
  ASSUME NEW S, NEW s \in Seq(S), s # <<>>
  PROVE  /\ Head(s) \in S /\ Tail(s) \in Seq(S)
         /\ Len(Tail(s)) <= Len(s) /\ Len(s) \in Nat /\ Len(Tail(s)) \in Nat
OBVIOUS

LEMMA RemoveAtType ==
  ASSUME NEW S, NEW s \in Seq(S), NEW i \in DOMAIN s
  PROVE  RemoveAt(s, i) \in Seq(S)
<1>1. i \in 1 .. Len(s) /\ Len(s) \in Nat
  OBVIOUS
<1>2. SubSeq(s, 1, i - 1) \in Seq(S) /\ SubSeq(s, i + 1, Len(s)) \in Seq(S)
  BY <1>1
<1>3. QED
  BY <1>2 DEF RemoveAt

LEMMA TransmitType ==
  ASSUME NEW S, NEW w \in [Ends -> Seq(S)], NEW devices, NEW frame \in S
  PROVE  Transmit(w, devices, frame) \in [Ends -> Seq(S)]
<1>1. \A e \in Ends : w[e] \in Seq(S) /\ Append(w[e], frame) \in Seq(S)
  BY AppendType
<1>2. QED
  BY <1>1 DEF Transmit

LEMMA RecordType ==
  ASSUME NEW S, NEW g \in [Nodes -> Seq(S)], NEW n \in Nodes, NEW frame, NEW o,
         [id |-> frame.id, packet |-> o.packet, type |-> o.type] \in S
  PROVE  Record(g, n, frame, o) \in [Nodes -> Seq(S)]
<1>1. Append(g[n], [id |-> frame.id, packet |-> o.packet, type |-> o.type]) \in Seq(S)
  BY AppendType
<1>2. QED
  BY <1>1 DEF Record

LEMMA PassedResults ==
  ASSUME NEW e, NEW frame, NEW o \in Passed(e, frame)
  PROVE  o.result \in {"hangs", "stops", "lost", "received"}
<1>1. \A m \in Misread : m.result \in {"hangs", "stops", "lost"}
  BY DEF Misread
<1>2. \A dev, p : \A r \in RestoreHeaders(dev, p) : r.result \in {"hangs", "stops", "lost", "received"}
  <2> SUFFICES ASSUME NEW dev, NEW p, NEW r \in RestoreHeaders(dev, p)
               PROVE  r.result \in {"hangs", "stops", "lost", "received"}
    OBVIOUS
  <2>1. \/ r \in Misread
        \/ r = [result |-> "hangs", packet |-> p, type |-> 0]
        \/ \E packet : r = [result |-> "received", packet |-> packet, type |-> IPv4]
    BY DEF RestoreHeaders
  <2>2. QED
    BY <1>1, <2>1
<1>3. \A dev, p : \A r \in ProcessHeader(dev, p) : r.result \in {"hangs", "stops", "lost", "received"}
  BY <1>2 DEF ProcessHeader
<1>4. QED
  BY <1>3 DEF Passed

LEMMA SendNs3PacketType ==
  ASSUME NEW S, NEW w \in [Ends -> Seq(S)], NEW n, NEW q, NEW ports,
         Frame(q.id, q.dst, IF Head(q.packet).kind = "eth" THEN q.packet ELSE <<Eth(0), Garbage>>) \in S,
         SendNs3Packet(w, n, q, ports), status = "running"
  PROVE  wire' \in [Ends -> Seq(S)] /\ status' \in {"running", "crashed"}
BY TransmitType DEF SendNs3Packet

(* Steps of a running simulation: it is enough that what they leave under  *)
(* way are packets that were sent.                                         *)
LEMMA RunningTyped ==
  ASSUME TInv, status = "running", UNCHANGED setup, down' \subseteq net.managed,
         \E R : sent' \in Seq(R), Len(sent') <= MaxFrames, Len(sent) <= Len(sent'),
         NEW S, wire' \in [Ends -> Seq(S)], buffer' \in [Switches -> Seq(S)],
         got' \in [Nodes -> Seq(S)], \A p \in S : p.id \in 1 .. Len(sent'),
         NicBounded', lossy' \in BOOLEAN, status' \in {"running", "crashed", "hung"}
  PROVE  TInv'
<1>1. Installed'
  BY RunningInstalled DEF TInv, Installed
<1>2. Ends' = Ends /\ Switches' = Switches /\ Nodes' = Nodes
  BY DEF setup, Ends, Switches, Nodes
<1>3. Carried(S)' /\ Known(S)'
  BY <1>2 DEF Carried, Known
<1>4. QED
  BY <1>1, <1>3 DEF TInv

(* A packet sent is one more. *)
LEMMA SendTyped ==
  ASSUME TInv, status = "running", UNCHANGED <<setup, down, buffer, got, lossy, status>>,
         Len(sent) < MaxFrames, NEW x, sent' = Append(sent, x),
         NEW devices, NEW dst, NEW packet,
         wire' = Transmit(wire, devices, Frame(Len(sent'), dst, packet))
  PROVE  TInv'
<1>1. PICK S : Carried(S) /\ Known(S)
  BY DEF TInv
<1>2. PICK R : sent \in Seq(R)
  BY DEF TInv
<1>3. /\ sent' \in Seq(R \cup {x}) /\ Len(sent') = Len(sent) + 1 /\ Len(sent) \in Nat
  <2>1. sent \in Seq(R \cup {x})
    BY <1>2, SeqMonotone
  <2>2. QED
    BY <2>1, AppendType
<1>4. PICK frame : frame = Frame(Len(sent'), dst, packet)
  OBVIOUS
<1>5. frame.id = Len(sent')
  BY <1>4 DEF Frame
<1> DEFINE T == S \cup {frame}
<1>6. /\ wire \in [Ends -> Seq(T)] /\ buffer \in [Switches -> Seq(T)]
      /\ got \in [Nodes -> Seq(T)]
  BY <1>1, SeqMonotone DEF Carried
<1>7. wire' \in [Ends -> Seq(T)]
  BY <1>4, <1>6, TransmitType
<1>8. \A p \in T : p.id \in 1 .. Len(sent')
  BY <1>1, <1>3, <1>5 DEF Known
<1>9. down \subseteq net.managed
  BY DEF TInv, Installed
<1>10. NicBounded'
  BY DEF TInv, NicBounded, setup, Switches
<1>11. Len(sent') <= MaxFrames
  BY <1>3, FabricAssumption
<1>12. \E Q : sent' \in Seq(Q)
  BY <1>3
<1> HIDE DEF T
<1>13. /\ UNCHANGED setup /\ down' \subseteq net.managed
       /\ buffer' \in [Switches -> Seq(T)] /\ got' \in [Nodes -> Seq(T)]
       /\ lossy' \in BOOLEAN /\ status' \in {"running", "crashed", "hung"}
       /\ Len(sent) <= Len(sent')
  BY <1>3, <1>6, <1>9 DEF TInv
<1>14. QED
  BY <1>7, <1>8, <1>10, <1>11, <1>12, <1>13, RunningTyped

LEMMA DeliverTyped ==
  ASSUME TInv, NEW e \in Ends, Deliver(e)
  PROVE  TInv'
<1> DEFINE frame == Head(wire[e])
           w == [wire EXCEPT ![e] = Tail(wire[e])]
           n == e[1]
           dst == Destination(e, frame)
<1>1. /\ status = "running" /\ wire[e] # <<>>
      /\ UNCHANGED <<setup, down, sent, lossy>>
  BY DEF Deliver
<1>2. PICK o \in Passed(e, Head(wire[e])) :
        CASE o.result = "hangs" -> status' = "hung" /\ wire' = w /\ UNCHANGED <<buffer, got>>
          [] o.result = "stops" -> status' = "crashed" /\ wire' = w /\ UNCHANGED <<buffer, got>>
          [] o.result = "lost" -> wire' = w /\ UNCHANGED <<buffer, got, status>>
          [] o.result = "received" /\ e[1] \in net.hosts -> HostReceive(e, frame, o, w)
          [] o.result = "received" /\ e[1] \in Switches ->
               IF net.kind[e[1]] = "dummy" THEN ReceiveFromPort(e, frame, o, w)
               ELSE ReceiveFromDevice(e, frame, o, w)
  BY DEF Deliver
<1>3. PICK S : Carried(S) /\ Known(S)
  BY DEF TInv
<1> DEFINE r == [id |-> frame.id, packet |-> o.packet, type |-> o.type]
           flood == Frame(frame.id, dst, AddEthernetHeader(o.packet, o.type))
           q == [id |-> frame.id, dst |-> dst, in |-> GetPortNumber(e),
                 packet |-> Reconstructed(o.packet, o.type)]
           out == Frame(q.id, q.dst, IF Head(q.packet).kind = "eth" THEN q.packet
                                     ELSE <<Eth(0), Garbage>>)
           T == S \cup {r, flood, q, out}
<1>4. frame \in S /\ Tail(wire[e]) \in Seq(S)
  <2>1. wire[e] \in Seq(S)
    BY <1>3 DEF Carried
  <2>2. QED
    BY <1>1, <2>1, TailType
<1>5. \A p \in T : p.id \in 1 .. Len(sent)
  <2>1. frame.id \in 1 .. Len(sent)
    BY <1>3, <1>4 DEF Known
  <2>2. /\ r.id = frame.id /\ flood.id = frame.id
        /\ q.id = frame.id /\ out.id = frame.id
    BY DEF Frame
  <2> HIDE DEF r, flood, q, out
  <2>3. QED
    BY <1>3, <2>1, <2>2 DEF Known
<1>6. r \in T /\ flood \in T /\ q \in T /\ out \in T /\ S \subseteq T
  OBVIOUS
<1>7. /\ w \in [Ends -> Seq(T)] /\ buffer \in [Switches -> Seq(T)]
      /\ got \in [Nodes -> Seq(T)]
  <2> HIDE DEF T
  <2>1. wire \in [Ends -> Seq(T)] /\ buffer \in [Switches -> Seq(T)] /\ got \in [Nodes -> Seq(T)]
    BY <1>3, <1>6, SeqMonotone DEF Carried
  <2>2. Tail(wire[e]) \in Seq(T)
    BY <1>4, <1>6, SeqMonotone
  <2>3. QED
    BY <2>1, <2>2
<1>8. n \in Nodes /\ (n \in net.hosts <=> n \notin Switches)
  BY FabricAssumption DEF TInv, Installed, WellFormed, Ends, Nodes, NodesOf, Switches
<1>9. NicBounded
  BY DEF TInv
<1> DEFINE Fine == /\ wire' \in [Ends -> Seq(T)] /\ buffer' \in [Switches -> Seq(T)]
                   /\ got' \in [Nodes -> Seq(T)] /\ status' \in {"running", "crashed", "hung"}
                   /\ \A m \in Switches : net.kind[m] = "pna" => Len(buffer'[m]) <= PnaCapacity
<1>10. ASSUME UNCHANGED buffer
       PROVE  \A m \in Switches : net.kind[m] = "pna" => Len(buffer'[m]) <= PnaCapacity
  BY <1>9, <1>10 DEF NicBounded
<1>11. got' = Record(got, n, frame, o) => got' \in [Nodes -> Seq(T)]
  <2>1. [id |-> frame.id, packet |-> o.packet, type |-> o.type] \in T
    BY <1>6
  <2> HIDE DEF T, frame
  <2>2. Record(got, n, frame, o) \in [Nodes -> Seq(T)]
    BY <1>7, <1>8, <2>1, RecordType
  <2>3. QED
    BY <2>2
<1> HIDE DEF T
<1>12. ASSUME o.result \in {"hangs", "stops", "lost"} PROVE Fine
  <2>1. wire' = w /\ UNCHANGED <<buffer, got>> /\ status' \in {"running", "crashed", "hung"}
    BY <1>1, <1>2, <1>12
  <2>2. Fine
    BY <1>7, <1>10, <2>1
  <2>3. QED
    BY <2>2
<1>13. ASSUME o.result = "received", n \in net.hosts PROVE Fine
  <2>1. HostReceive(e, frame, o, w)
    BY <1>2, <1>8, <1>13
  <2>2. /\ wire' = w /\ UNCHANGED <<buffer, status>>
        /\ got' = Record(got, n, frame, o) \/ got' = got
    BY <2>1 DEF HostReceive
  <2>3. QED
    BY <1>1, <1>7, <1>10, <1>11, <2>2
<1>14. ASSUME o.result = "received", n \in Switches, net.kind[n] = "dummy" PROVE Fine
  <2>1. ReceiveFromPort(e, frame, o, w)
    BY <1>2, <1>8, <1>14
  <2>2. /\ UNCHANGED <<buffer, status>>
        /\ \/ wire' = w /\ got' = Record(got, n, frame, o)
           \/ /\ \E devices : wire' = Transmit(w, devices, flood)
              /\ got' = got
    BY <2>1 DEF ReceiveFromPort
  <2>3. wire' \in [Ends -> Seq(T)]
    <3>1. flood \in T /\ w \in [Ends -> Seq(T)]
      BY <1>6, <1>7
    <3> HIDE DEF flood, w
    <3>2. CASE wire' = w
      BY <3>1, <3>2
    <3>3. ASSUME NEW devices, wire' = Transmit(w, devices, flood)
          PROVE  wire' \in [Ends -> Seq(T)]
      BY <3>1, <3>3, TransmitType
    <3>4. QED
      BY <2>2, <3>2, <3>3
  <2>4. QED
    BY <1>1, <1>7, <1>10, <1>11, <2>2, <2>3
<1>15. ASSUME o.result = "received", n \in Switches, net.kind[n] # "dummy" PROVE Fine
  <2>1. ReceiveFromDevice(e, frame, o, w)
    BY <1>2, <1>8, <1>15
  <2>2. /\ got' = Record(got, n, frame, o) \/ got' = got
        /\ \/ net.kind[n] = "pipeline" /\ Pipeline(w, n, q)
           \/ net.kind[n] = "pna" /\ PushPna(n, q) /\ wire' = w
           \/ /\ net.kind[n] = "queued"
              /\ buffer' = [buffer EXCEPT ![n] = Append(@, q)] /\ wire' = w /\ UNCHANGED status
    <3>1. net.kind[n] \in {"pipeline", "queued", "pna"}
      BY <1>15, FabricAssumption DEF TInv, Installed, WellFormed, Switches
    <3>2. QED
      BY <2>1, <3>1 DEF ReceiveFromDevice
  <2>3. got' \in [Nodes -> Seq(T)]
    BY <1>7, <1>11, <2>2
  <2>4. CASE net.kind[n] = "pipeline" /\ Pipeline(w, n, q)
    <3>1. SendNs3Packet(w, n, q, net.program[n][q.in]) /\ UNCHANGED buffer
      BY <2>4 DEF Pipeline
    <3> HIDE DEF w, q
    <3>2. wire' \in [Ends -> Seq(T)] /\ status' \in {"running", "crashed"}
      BY <1>1, <1>6, <1>7, <3>1, SendNs3PacketType
    <3>3. QED
      BY <1>7, <1>10, <2>3, <3>1, <3>2
  <2>5. CASE net.kind[n] = "pna" /\ PushPna(n, q) /\ wire' = w
    <3>1. CASE /\ Len(buffer[n]) < PnaCapacity
               /\ buffer' = [buffer EXCEPT ![n] = Append(@, q)] /\ UNCHANGED status
      <4> HIDE DEF q, w
      <4>1. /\ Append(buffer[n], q) \in Seq(T) /\ Len(Append(buffer[n], q)) = Len(buffer[n]) + 1
            /\ Len(buffer[n]) \in Nat
        BY <1>6, <1>7, <1>15, AppendType
      <4>2. Len(Append(buffer[n], q)) <= PnaCapacity
        BY <3>1, <4>1, FabricAssumption
      <4>3. QED
        BY <1>1, <1>7, <1>9, <2>3, <2>5, <3>1, <4>1, <4>2 DEF NicBounded
    <3>2. CASE status' = "hung" /\ UNCHANGED buffer
      BY <1>7, <1>10, <2>3, <2>5, <3>2
    <3>3. QED
      BY <2>5, <3>1, <3>2 DEF PushPna
  <2>6. CASE /\ net.kind[n] = "queued"
             /\ buffer' = [buffer EXCEPT ![n] = Append(@, q)] /\ wire' = w /\ UNCHANGED status
    <3> HIDE DEF q, w
    <3>1. Append(buffer[n], q) \in Seq(T)
      BY <1>6, <1>7, <1>15, AppendType
    <3>2. QED
      BY <1>1, <1>7, <1>9, <2>3, <2>6, <3>1 DEF NicBounded
  <2>7. QED
    BY <2>2, <2>4, <2>5, <2>6
<1>16. Fine
  BY <1>2, <1>8, <1>12, <1>13, <1>14, <1>15, PassedResults
<1>17. /\ UNCHANGED setup /\ down' \subseteq net.managed /\ lossy' \in BOOLEAN
       /\ \E R : sent' \in Seq(R)
       /\ Len(sent') <= MaxFrames /\ Len(sent) <= Len(sent')
  <2>1. Len(sent) \in Nat
    BY DEF TInv
  <2>2. QED
    BY <1>1, <2>1 DEF TInv, Installed
<1>18. NicBounded'
  BY <1>1, <1>16 DEF NicBounded, Switches, setup
<1>19. \A p \in T : p.id \in 1 .. Len(sent')
  BY <1>1, <1>5
<1>20. QED
  BY <1>1, <1>16, <1>17, <1>18, <1>19, RunningTyped

LEMMA CoreSendsTyped ==
  ASSUME TInv, NEW n \in Switches, CoreSends(n)
  PROVE  TInv'
<1>1. /\ status = "running" /\ net.kind[n] = "queued"
      /\ UNCHANGED <<setup, down, got, sent, lossy>>
  BY DEF CoreSends
<1>2. PICK i \in DOMAIN buffer[n] :
        /\ buffer' = [buffer EXCEPT ![n] = RemoveAt(buffer[n], i)]
        /\ SendNs3Packet(wire, n, buffer[n][i], net.program[n][buffer[n][i].in])
  BY DEF CoreSends
<1>3. PICK S : Carried(S) /\ Known(S)
  BY DEF TInv
<1> DEFINE q == buffer[n][i]
           out == Frame(q.id, q.dst, IF Head(q.packet).kind = "eth" THEN q.packet
                                     ELSE <<Eth(0), Garbage>>)
           T == S \cup {out}
<1>4. q.id \in 1 .. Len(sent) /\ buffer[n] \in Seq(S)
  BY <1>3 DEF Carried, Known
<1>5. \A p \in T : p.id \in 1 .. Len(sent)
  <2>1. out.id = q.id
    BY DEF Frame
  <2> HIDE DEF out, q
  <2>2. QED
    BY <1>3, <1>4, <2>1 DEF Known
<1>6. out \in T /\ S \subseteq T
  OBVIOUS
<1> HIDE DEF T
<1>7. wire \in [Ends -> Seq(T)] /\ buffer \in [Switches -> Seq(T)] /\ got \in [Nodes -> Seq(T)]
  BY <1>3, <1>6, SeqMonotone DEF Carried
<1>8. wire' \in [Ends -> Seq(T)] /\ status' \in {"running", "crashed"}
  BY <1>1, <1>2, <1>6, <1>7, SendNs3PacketType
<1>9. RemoveAt(buffer[n], i) \in Seq(T)
  BY <1>7, RemoveAtType
<1>10. buffer' \in [Switches -> Seq(T)]
  BY <1>2, <1>7, <1>9
<1>11. NicBounded'
  BY <1>1, <1>2, <1>7 DEF TInv, NicBounded, Switches, setup
<1>12. /\ UNCHANGED setup /\ down' \subseteq net.managed /\ lossy' \in BOOLEAN
       /\ \E R : sent' \in Seq(R)
       /\ Len(sent') <= MaxFrames /\ Len(sent) <= Len(sent')
       /\ got' \in [Nodes -> Seq(T)]
  <2>1. Len(sent) \in Nat
    BY DEF TInv
  <2>2. QED
    BY <1>1, <1>7, <2>1 DEF TInv, Installed
<1>13. \A p \in T : p.id \in 1 .. Len(sent')
  BY <1>1, <1>5
<1>14. QED
  BY <1>1, <1>8, <1>10, <1>11, <1>12, <1>13, RunningTyped

LEMMA SetPortUpTyped ==
  ASSUME TInv, NEW n, NEW i, NEW isUp \in BOOLEAN, SetPortUp(n, i, isUp)
  PROVE  TInv'
<1>1. /\ status = "running" /\ <<n, i>> \in net.managed
      /\ down' = down \ {<<n, i>>} \/ down' = down \cup {<<n, i>>}
      /\ lossy' = (lossy \/ ~isUp)
      /\ UNCHANGED <<setup, wire, buffer, got, sent, status>>
  BY DEF SetPortUp
<1>2. PICK S : Carried(S) /\ Known(S)
  BY DEF TInv
<1>3. down' \subseteq net.managed /\ lossy' \in BOOLEAN
  BY <1>1 DEF TInv, Installed
<1>4. NicBounded'
  BY <1>1 DEF TInv, NicBounded, Switches, setup
<1>5. /\ \E R : sent' \in Seq(R)
      /\ Len(sent') <= MaxFrames /\ Len(sent) <= Len(sent')
  <2>1. Len(sent) \in Nat
    BY DEF TInv
  <2>2. QED
    BY <1>1, <2>1 DEF TInv
<1>6. /\ wire' \in [Ends -> Seq(S)] /\ buffer' \in [Switches -> Seq(S)]
      /\ got' \in [Nodes -> Seq(S)] /\ \A p \in S : p.id \in 1 .. Len(sent')
  BY <1>1, <1>2 DEF Carried, Known
<1>7. QED
  BY <1>1, <1>3, <1>4, <1>5, <1>6, RunningTyped

(* The steps of the installation, and a stutter. *)
LEMMA InstallingTyped ==
  ASSUME TInv, Installed', UNCHANGED <<net, wire, buffer, got, sent, lossy>>,
         status' \in {"installing", "running", "crashed", "hung"}
  PROVE  TInv'
<1>1. Ends' = Ends /\ Switches' = Switches /\ Nodes' = Nodes
  BY DEF Ends, Switches, Nodes
<1>2. PICK S : Carried(S) /\ Known(S)
  BY DEF TInv
<1>3. Carried(S)' /\ Known(S)'
  BY <1>1, <1>2 DEF Carried, Known
<1>4. NicBounded'
  BY <1>1 DEF TInv, NicBounded
<1>5. QED
  BY <1>3, <1>4 DEF TInv

LEMMA InitTyped == Init => TInv
<1> SUFFICES ASSUME Init PROVE TInv
  OBVIOUS
<1>1. Installed
  BY DEF Init, Installed
<1>2. Carried({}) /\ Known({})
  <2>1. <<>> \in Seq({})
    OBVIOUS
  <2>2. QED
    BY <2>1 DEF Init, Carried, Known
<1>3. sent \in Seq({}) /\ Len(sent) <= MaxFrames
  BY FabricAssumption DEF Init
<1>4. NicBounded
  BY FabricAssumption DEF Init, NicBounded
<1>5. QED
  BY <1>1, <1>2, <1>3, <1>4 DEF Init, TInv

LEMMA NextTyped ==
  ASSUME TInv, [Next]_vars
  PROVE  TInv'
<1>1. CASE InstallLink
  BY <1>1, InstallLinkInstalls, InstallingTyped DEF TInv, InstallLink
<1>2. CASE \E n \in Switches : InstallDummy(n) \/ InstallP4(n)
  <2>1. Installed'
    BY <1>2, InstallSwitchInstalls DEF TInv
  <2>2. UNCHANGED <<net, wire, buffer, got, sent, lossy, status>>
    BY <1>2 DEF InstallDummy, InstallP4
  <2>3. QED
    BY <2>1, <2>2, InstallingTyped DEF TInv
<1>3. CASE \E port \in net.queued : SetPortTrafficManager(port[1], port[2])
  <2>1. Installed'
    BY <1>3, SetPortTrafficManagerInstalls DEF TInv
  <2>2. UNCHANGED <<net, wire, buffer, got, sent, lossy, status>>
    BY <1>3 DEF SetPortTrafficManager
  <2>3. QED
    BY <2>1, <2>2, InstallingTyped DEF TInv
<1>4. CASE Run
  <2>1. /\ DOMAIN peer = Ends /\ DOMAIN device = Switches /\ status' = "running"
        /\ UNCHANGED <<setup, down, wire, buffer, got, sent, lossy>>
    BY <1>4 DEF Run
  <2>2. Installed'
    BY <2>1, RunningInstalled DEF TInv, Installed
  <2>3. QED
    BY <2>1, <2>2, InstallingTyped DEF setup
<1>5. CASE \E e \in Ends : Deliver(e)
  BY <1>5, DeliverTyped
<1>6. CASE \E n \in Switches : CoreSends(n)
  BY <1>6, CoreSendsTyped
<1>7. CASE \E port \in net.managed, isUp \in BOOLEAN : SetPortUp(port[1], port[2], isUp)
  BY <1>7, SetPortUpTyped
<1>8. CASE \E packet \in net.packets, dst \in net.dsts :
             \/ \E h \in net.hosts : HostSend(h, packet, dst)
             \/ \E n \in Switches : DummySend(n, packet, dst) \/ SendFrom(n, packet, dst)
  <2>1. PICK packet \in net.packets, dst \in net.dsts :
             \/ \E h \in net.hosts : HostSend(h, packet, dst)
             \/ \E n \in Switches : DummySend(n, packet, dst) \/ SendFrom(n, packet, dst)
    BY <1>8
  <2>2. ASSUME NEW n, Originate(n, packet, dst) PROVE TInv'
    BY <2>2, SendTyped DEF Originate
  <2>3. ASSUME NEW h, HostSend(h, packet, dst) PROVE TInv'
    BY <2>3, SendTyped DEF HostSend
  <2>4. QED
    BY <2>1, <2>2, <2>3 DEF DummySend, SendFrom
<1>9. CASE UNCHANGED vars
  <2>1. Installed'
    BY <1>9 DEF TInv, Installed, vars, setup, Ends, Switches, PortsOf
  <2>2. QED
    BY <1>9, <2>1, InstallingTyped DEF TInv, vars, setup
<1>10. QED
  BY <1>1, <1>2, <1>3, <1>4, <1>5, <1>6, <1>7, <1>8, <1>9 DEF Next

THEOREM Invariant == Spec => []TInv
  BY InitTyped, NextTyped, PTL DEF Spec

(* A frame, a queued and a received packet are of those sent, the NIC's    *)
(* buffer keeps to its size, a switch's address is one of its own devices  *)
(* and no port is named that does not exist, in every network.             *)
THEOREM TypeCorrect == Spec => []TypeOK
<1>1. TInv => TypeOK
  <2> SUFFICES ASSUME TInv PROVE TypeOK
    OBVIOUS
  <2>1. PICK S : Carried(S) /\ Known(S)
    BY DEF TInv
  <2>2. \A s \in Seq(S) : \A i \in DOMAIN s : s[i].id \in 1 .. Len(sent)
    BY <2>1 DEF Known
  <2>3. /\ \A e \in Ends : \A i \in DOMAIN wire[e] : wire[e][i].id \in 1 .. Len(sent)
        /\ \A n \in Switches : \A i \in DOMAIN buffer[n] : buffer[n][i].id \in 1 .. Len(sent)
        /\ \A n \in Nodes : \A i \in DOMAIN got[n] : got[n][i].id \in 1 .. Len(sent)
    BY <2>1, <2>2 DEF Carried
  <2>4. ASSUME NEW n \in DOMAIN device, device[n].ports # <<>>
        PROVE  device[n].address \in ToSet(device[n].ports)
    <3>1. net.added[n] # <<>> /\ device[n].ports = net.added[n] /\ device[n].address = net.added[n][1]
      BY <2>4 DEF TInv, Installed
    <3>2. 1 \in DOMAIN net.added[n]
      <4>1. WellFormed(net) /\ n \in DOMAIN net.kind
        BY FabricAssumption DEF TInv, Installed, Switches
      <4>2. net.added[n] \in Seq({e \in EndsOf(net) : e[1] = n})
        BY <4>1 DEF WellFormed
      <4>3. QED
        BY <3>1, <4>2
    <3>3. QED
      BY <3>1, <3>2 DEF ToSet
  <2>5. ASSUME NEW port \in down \cup managers
        PROVE  port[2] \in PortsOf(port[1])
    <3>1. CASE port \in managers
      BY <3>1 DEF TInv, Installed
    <3>2. CASE port \in down
      <4>1. port \in net.managed /\ port[1] \in Switches /\ port[2] \in 0 .. Len(net.added[port[1]]) - 1
        BY <3>2, FabricAssumption DEF TInv, Installed, WellFormed, Switches
      <4>2. status # "installing"
        BY <3>2 DEF TInv, Installed
      <4>3. QED
        BY <4>1, <4>2 DEF TInv, Installed, PortsOf
    <3>3. QED
      BY <3>1, <3>2
  <2>6. QED
    BY <2>3, <2>4, <2>5 DEF TypeOK, TInv, NicBounded
<1>2. QED
  BY <1>1, Invariant, PTL

-----------------------------------------------------------------------------
(* Flooding.  Under a division of the network into what lies beyond each   *)
(* end, the copies of a packet on their way have nothing in common to      *)
(* reach, nor what they have not reached yet with who received or sent it. *)
Holds(s, id) == \E i \in DOMAIN s : s[i].id = id
Apart(s) == \A i, j \in DOMAIN s : s[i].id = s[j].id => i = j

Clear(beyond, id, e) ==
  /\ sent[id].origin \notin beyond[peer[e]]
  /\ \A f \in Ends : e # f /\ Holds(wire[f], id) => beyond[peer[e]] \cap beyond[peer[f]] = {}
  /\ \A n \in Nodes : Holds(got[n], id) => n \notin beyond[peer[e]]
Spread(beyond) ==
  /\ \A e \in Ends : Apart(wire[e])
  /\ \A n \in Nodes : Apart(got[n])
  /\ \A id \in Nat : \A e \in Ends : Holds(wire[e], id) => Clear(beyond, id, e)
  /\ \A id \in Nat : \A n \in Nodes : Holds(got[n], id) => sent[id].origin # n

Quiet == (\A e \in Ends : wire[e] = <<>>) /\ (\A n \in Nodes : got[n] = <<>>)

FInv ==
  /\ TInv
  /\ DOMAIN peer # Ends => Quiet
  /\ AllDummies => \E beyond : Divides(net, beyond) /\ Spread(beyond)

LEMMA HoldsAppend ==
  ASSUME NEW S, NEW s \in Seq(S), NEW y
  PROVE  /\ \A id : Holds(Append(s, y), id) <=> Holds(s, id) \/ id = y.id
         /\ Apart(s) /\ ~Holds(s, y.id) => Apart(Append(s, y))
<1>1. /\ Len(s) \in Nat /\ DOMAIN s = 1 .. Len(s)
      /\ DOMAIN Append(s, y) = 1 .. Len(s) + 1
      /\ Append(s, y)[Len(s) + 1] = y
      /\ \A i \in 1 .. Len(s) : Append(s, y)[i] = s[i]
  OBVIOUS
<1>2. DOMAIN Append(s, y) = DOMAIN s \cup {Len(s) + 1} /\ Len(s) + 1 \notin DOMAIN s
  BY <1>1
<1> HIDE DEF Apart
<1>3. ASSUME NEW id PROVE Holds(Append(s, y), id) <=> Holds(s, id) \/ id = y.id
  BY <1>1, <1>2 DEF Holds
<1>4. ASSUME Apart(s), ~Holds(s, y.id) PROVE Apart(Append(s, y))
  <2> SUFFICES ASSUME NEW i \in DOMAIN Append(s, y), NEW j \in DOMAIN Append(s, y),
                      Append(s, y)[i].id = Append(s, y)[j].id
               PROVE  i = j
    BY DEF Apart
  <2>1. CASE i \in DOMAIN s /\ j \in DOMAIN s
    BY <1>1, <1>4, <2>1 DEF Apart
  <2>2. CASE i = Len(s) + 1 /\ j \in DOMAIN s
    BY <1>1, <1>4, <2>2 DEF Holds
  <2>3. CASE i \in DOMAIN s /\ j = Len(s) + 1
    BY <1>1, <1>4, <2>3 DEF Holds
  <2>4. QED
    BY <1>2, <2>1, <2>2, <2>3
<1>5. QED
  BY <1>3, <1>4

LEMMA HoldsTail ==
  ASSUME NEW S, NEW s \in Seq(S), s # <<>>, Apart(s)
  PROVE  /\ \A id : Holds(Tail(s), id) <=> Holds(s, id) /\ id # Head(s).id
         /\ Apart(Tail(s)) /\ Holds(s, Head(s).id)
<1>1. /\ Len(s) \in Nat \ {0} /\ DOMAIN s = 1 .. Len(s) /\ Head(s) = s[1]
      /\ DOMAIN Tail(s) = 1 .. Len(s) - 1
      /\ \A i \in 1 .. Len(s) - 1 : Tail(s)[i] = s[i + 1]
  OBVIOUS
<1>2. \A i \in DOMAIN s : i # 1 => i - 1 \in DOMAIN Tail(s) /\ Tail(s)[i - 1] = s[i]
  <2> SUFFICES ASSUME NEW i \in DOMAIN s, i # 1
               PROVE  i - 1 \in DOMAIN Tail(s) /\ Tail(s)[i - 1] = s[i]
    OBVIOUS
  <2>1. i - 1 \in 1 .. Len(s) - 1 /\ (i - 1) + 1 = i
    BY <1>1
  <2>2. QED
    BY <1>1, <2>1
<1>3. \A i \in DOMAIN Tail(s) : i + 1 \in DOMAIN s /\ i + 1 # 1 /\ i + 1 \in Int
  BY <1>1
<1>4. 1 \in DOMAIN s
  BY <1>1
<1>5. ASSUME NEW id PROVE Holds(Tail(s), id) <=> Holds(s, id) /\ id # Head(s).id
  <2>1. ASSUME Holds(Tail(s), id) PROVE Holds(s, id) /\ id # Head(s).id
    <3>1. PICK i \in DOMAIN Tail(s) : Tail(s)[i].id = id
      BY <2>1 DEF Holds
    <3>2. i + 1 \in DOMAIN s /\ i + 1 # 1 /\ s[i + 1].id = id
      BY <1>1, <1>3, <3>1
    <3>3. QED
      BY <1>1, <1>4, <3>2 DEF Holds, Apart
  <2>2. ASSUME Holds(s, id), id # Head(s).id PROVE Holds(Tail(s), id)
    BY <1>1, <1>2, <2>2 DEF Holds
  <2>3. QED
    BY <2>1, <2>2
<1>6. Apart(Tail(s))
  <2> SUFFICES ASSUME NEW i \in DOMAIN Tail(s), NEW j \in DOMAIN Tail(s),
                      Tail(s)[i].id = Tail(s)[j].id
               PROVE  i = j
    BY DEF Apart
  <2>1. /\ i + 1 \in DOMAIN s /\ j + 1 \in DOMAIN s /\ s[i + 1].id = s[j + 1].id
    BY <1>1, <1>3
  <2>2. i + 1 = j + 1
    BY <2>1 DEF Apart
  <2>3. QED
    BY <1>1, <2>2
<1>7. Holds(s, Head(s).id)
  BY <1>1, <1>4 DEF Holds
<1>8. QED
  BY <1>5, <1>6, <1>7

(* Every end is joined to another one, and by a division the nodes beyond  *)
(* the ends of a node are apart, and nearer by one link than before.       *)
LEMMA Joined ==
  ASSUME Installed, DOMAIN peer = Ends, NEW beyond, Divides(net, beyond)
  PROVE  /\ \A e \in Ends :
              /\ peer[e] \in Ends /\ peer[e] # e /\ peer[peer[e]] = e
              /\ e[1] \in beyond[peer[e]] /\ peer[e][1] \notin beyond[peer[e]]
              /\ \A f \in Ends : f # e /\ f[1] = e[1] => beyond[f] \subseteq beyond[peer[e]]
         /\ \A e, f \in Ends : e # f /\ e[1] = f[1] => beyond[e] \cap beyond[f] = {}
<1>1. net \in Networks
  BY DEF Installed
<1>2. ASSUME NEW e \in Ends
      PROVE  \E i \in DOMAIN net.links : \E b \in ToSet(net.links[i]) :
               e \in ToSet(net.links[i]) /\ b # e /\ b \in Ends /\ peer[e] = b /\ peer[b] = e
  <2>1. PICK i \in DOMAIN net.links : e \in ToSet(net.links[i])
    BY DEF Ends, EndsOf
  <2>2. PICK b \in ToSet(net.links[i]) : b # e
    <3>1. /\ ToSet(net.links[i]) = {net.links[i][1], net.links[i][2]}
          /\ net.links[i][1] # net.links[i][2]
      BY <1>1, LinksApart
    <3>2. QED
      BY <3>1
  <2>3. b \in Ends
    BY DEF Ends, EndsOf
  <2>4. peer[e] = b /\ peer[b] = e
    BY <2>1, <2>2, <2>3 DEF Installed
  <2>5. QED
    BY <2>1, <2>2, <2>3, <2>4
<1>3. ASSUME NEW e \in Ends
      PROVE  /\ peer[e] \in Ends /\ peer[e] # e /\ peer[peer[e]] = e
             /\ e[1] \in beyond[peer[e]] /\ peer[e][1] \notin beyond[peer[e]]
             /\ \A f \in Ends : f # e /\ f[1] = e[1] => beyond[f] \subseteq beyond[peer[e]]
  <2>1. PICK i \in DOMAIN net.links : \E b \in ToSet(net.links[i]) :
             e \in ToSet(net.links[i]) /\ b # e /\ b \in Ends /\ peer[e] = b /\ peer[b] = e
    BY <1>2
  <2>2. PICK b \in ToSet(net.links[i]) :
             e \in ToSet(net.links[i]) /\ b # e /\ b \in Ends /\ peer[e] = b /\ peer[b] = e
    BY <2>1
  <2>3. /\ e[1] \in beyond[b] /\ b[1] \notin beyond[b]
        /\ \A f \in Ends : f # e /\ f[1] = e[1] => beyond[f] \subseteq beyond[b]
    BY <2>2 DEF Divides, Ends
  <2>4. QED
    BY <2>2, <2>3
<1>4. \A e, f \in Ends : e # f /\ e[1] = f[1] => beyond[e] \cap beyond[f] = {}
  BY DEF Divides, Ends
<1>5. QED
  BY <1>3, <1>4

(* Steps that leave the frames and what was received alone. *)
LEMMA SpreadUnchanged ==
  ASSUME NEW beyond, Spread(beyond), UNCHANGED <<net, peer, wire, got, sent>>
  PROVE  Spread(beyond)'
BY DEF Spread, Clear, Ends, Nodes

(* A node sends a new packet through some of its devices. *)
LEMMA SpreadSent ==
  ASSUME TInv, DOMAIN peer = Ends, NEW beyond, Divides(net, beyond), Spread(beyond),
         UNCHANGED <<net, peer, got>>, NEW n, NEW x, x.origin = n, sent' = Append(sent, x),
         NEW devices, \A d \in devices : d[1] = n,
         NEW y, y.id = Len(sent'), wire' = Transmit(wire, devices, y)
  PROVE  Spread(beyond)'
<1>1. Ends' = Ends /\ Nodes' = Nodes
  BY DEF Ends, Nodes
<1>2. PICK S : Carried(S) /\ Known(S)
  BY DEF TInv
<1>3. PICK R : sent \in Seq(R)
  BY DEF TInv
<1>4. /\ Len(sent) \in Nat /\ Len(sent') = Len(sent) + 1 /\ y.id = Len(sent) + 1
      /\ sent'[Len(sent) + 1] = x
      /\ \A id \in 1 .. Len(sent) : sent'[id] = sent[id]
  BY <1>3
<1>5. /\ \A e \in Ends : wire[e] \in Seq(S)
      /\ \A n1 \in Nodes : got[n1] \in Seq(S)
  BY <1>2 DEF Carried
<1>6. \A s \in Seq(S) : \A id : Holds(s, id) => id \in 1 .. Len(sent)
  BY <1>2 DEF Holds, Known
<1>7. /\ \A e \in Ends : \A id : Holds(wire[e], id) => id \in 1 .. Len(sent)
      /\ \A m \in Nodes : \A id : Holds(got[m], id) => id \in 1 .. Len(sent)
  BY <1>5, <1>6
<1>8. ~(y.id \in 1 .. Len(sent))
  BY <1>4
<1>9. ASSUME NEW e \in Ends
      PROVE  /\ Apart(wire'[e])
             /\ \A id : Holds(wire'[e], id) <=> Holds(wire[e], id) \/ (id = y.id /\ peer[e] \in devices)
  <2>1. Apart(wire[e]) /\ ~Holds(wire[e], y.id)
    BY <1>7, <1>8 DEF Spread
  <2>2. CASE peer[e] \in devices
    <3>1. wire'[e] = Append(wire[e], y)
      BY <2>2 DEF Transmit
    <3>2. /\ \A id : Holds(Append(wire[e], y), id) <=> Holds(wire[e], id) \/ id = y.id
          /\ Apart(Append(wire[e], y))
      BY <1>5, <2>1, HoldsAppend
    <3>3. QED
      BY <2>2, <3>1, <3>2
  <2>3. CASE peer[e] \notin devices
    <3>1. wire'[e] = wire[e]
      BY <2>3 DEF Transmit
    <3>2. Apart(wire'[e])
      BY <2>1, <3>1
    <3>3. \A id : Holds(wire'[e], id) <=> Holds(wire[e], id)
      BY <3>1
    <3>4. QED
      BY <2>3, <3>2, <3>3
  <2>4. QED
    BY <2>2, <2>3
<1>10. ASSUME NEW e \in Ends, peer[e] \in devices
       PROVE  /\ n \notin beyond[peer[e]]
              /\ \A f \in Ends : e # f /\ peer[f] \in devices => beyond[peer[e]] \cap beyond[peer[f]] = {}
  <2>1. n \notin beyond[peer[e]]
    BY <1>10, Joined DEF TInv
  <2>2. ASSUME NEW f \in Ends, e # f, peer[f] \in devices
        PROVE  beyond[peer[e]] \cap beyond[peer[f]] = {}
    <3>1. /\ peer[e] \in Ends /\ peer[f] \in Ends
          /\ peer[peer[e]] = e /\ peer[peer[f]] = f
      BY Joined DEF TInv
    <3>2. peer[e] # peer[f]
      BY <2>2, <3>1
    <3>3. QED
      BY <1>10, <2>2, <3>1, <3>2, Joined DEF TInv
  <2>3. QED
    BY <2>1, <2>2
<1>11. /\ \A e \in Ends : Apart(wire[e])
       /\ \A m \in Nodes : Apart(got[m])
       /\ \A id \in Nat : \A e \in Ends : Holds(wire[e], id) =>
            /\ sent[id].origin \notin beyond[peer[e]]
            /\ \A f \in Ends : e # f /\ Holds(wire[f], id) => beyond[peer[e]] \cap beyond[peer[f]] = {}
            /\ \A m \in Nodes : Holds(got[m], id) => m \notin beyond[peer[e]]
       /\ \A id \in Nat : \A m \in Nodes : Holds(got[m], id) => sent[id].origin # m
  BY DEF Spread, Clear
<1>12. ASSUME NEW id \in Nat, NEW e \in Ends, Holds(wire'[e], id)
       PROVE  /\ sent'[id].origin \notin beyond[peer[e]]
              /\ \A f \in Ends : e # f /\ Holds(wire'[f], id) => beyond[peer[e]] \cap beyond[peer[f]] = {}
              /\ \A m \in Nodes : Holds(got[m], id) => m \notin beyond[peer[e]]
  <2>1. CASE id = y.id
    <3>1. /\ peer[e] \in devices /\ sent'[id].origin = n
          /\ \A f \in Ends : Holds(wire'[f], id) => peer[f] \in devices
          /\ \A m \in Nodes : ~Holds(got[m], id)
      BY <1>4, <1>7, <1>8, <1>9, <1>12, <2>1
    <3>2. QED
      BY <1>10, <3>1
  <2>2. CASE id # y.id
    <3>1. /\ Holds(wire[e], id) /\ id \in 1 .. Len(sent)
          /\ \A f \in Ends : Holds(wire'[f], id) => Holds(wire[f], id)
      BY <1>7, <1>9, <1>12, <2>2
    <3>2. sent'[id] = sent[id]
      BY <1>4, <3>1
    <3>3. QED
      BY <1>11, <3>1, <3>2
  <2>3. QED
    BY <2>1, <2>2
<1>13. \A id \in Nat : \A m \in Nodes : Holds(got[m], id) => sent'[id].origin # m
  BY <1>4, <1>7, <1>11
<1>14. \A id \in Nat : \A e \in Ends : Holds(wire'[e], id) => Clear(beyond, id, e)'
  BY <1>1, <1>12 DEF Clear
<1>15. \A e \in Ends : Apart(wire'[e])
  BY <1>9
<1>16. QED
  BY <1>1, <1>11, <1>13, <1>14, <1>15 DEF Spread

(* A frame is taken off its link: its copies are sent on through other     *)
(* devices of the node, or nothing comes of it.                            *)
LEMMA SpreadForwarded ==
  ASSUME TInv, DOMAIN peer = Ends, NEW beyond, Divides(net, beyond), Spread(beyond),
         UNCHANGED <<net, peer, sent, got>>, NEW e \in Ends, wire[e] # <<>>,
         NEW devices, \A d \in devices : d[1] = e[1] /\ d # e,
         NEW y, y.id = Head(wire[e]).id,
         wire' = Transmit([wire EXCEPT ![e] = Tail(wire[e])], devices, y)
  PROVE  Spread(beyond)'
<1>1. Ends' = Ends /\ Nodes' = Nodes
  BY DEF Ends, Nodes
<1>2. PICK S : Carried(S) /\ Known(S)
  BY DEF TInv
<1>3. \A f \in Ends : wire[f] \in Seq(S)
  BY <1>2 DEF Carried
<1>4. /\ \A f \in Ends : Apart(wire[f])
      /\ \A m \in Nodes : Apart(got[m])
      /\ \A id \in Nat : \A f \in Ends : Holds(wire[f], id) =>
           /\ sent[id].origin \notin beyond[peer[f]]
           /\ \A g \in Ends : f # g /\ Holds(wire[g], id) => beyond[peer[f]] \cap beyond[peer[g]] = {}
           /\ \A m \in Nodes : Holds(got[m], id) => m \notin beyond[peer[f]]
      /\ \A id \in Nat : \A m \in Nodes : Holds(got[m], id) => sent[id].origin # m
  BY DEF Spread, Clear
<1>5. /\ Apart(Tail(wire[e])) /\ Holds(wire[e], y.id)
      /\ \A id : Holds(Tail(wire[e]), id) <=> Holds(wire[e], id) /\ id # y.id
  BY <1>3, <1>4, HoldsTail
<1>6. y.id \in Nat
  <2>1. Head(wire[e]) \in S
    BY <1>3, TailType
  <2>2. QED
    BY <1>2, <2>1 DEF Known
<1>7. PICK w : w = [wire EXCEPT ![e] = Tail(wire[e])]
  OBVIOUS
<1>8. ASSUME NEW f \in Ends, peer[f] \in devices
      PROVE  /\ f[1] \in beyond[peer[f]] /\ beyond[peer[f]] \subseteq beyond[peer[e]]
             /\ \A g \in Ends : f # g /\ peer[g] \in devices => beyond[peer[f]] \cap beyond[peer[g]] = {}
  <2>1. /\ peer[f] \in Ends /\ peer[f] # e /\ peer[f][1] = e[1] /\ peer[peer[f]] = f
    BY <1>8, Joined DEF TInv
  <2>2. f[1] \in beyond[peer[f]] /\ beyond[peer[f]] \subseteq beyond[peer[e]]
    BY <2>1, Joined DEF TInv
  <2>3. ASSUME NEW g \in Ends, f # g, peer[g] \in devices
        PROVE  beyond[peer[f]] \cap beyond[peer[g]] = {}
    <3>1. peer[g] \in Ends /\ peer[g][1] = peer[f][1] /\ peer[peer[g]] = g
      BY <2>1, <2>3, Joined DEF TInv
    <3>2. peer[f] # peer[g]
      BY <2>1, <2>3, <3>1
    <3>3. QED
      BY <2>1, <3>1, <3>2, Joined DEF TInv
  <2>4. QED
    BY <2>2, <2>3
<1>9. ASSUME NEW f \in Ends
      PROVE  /\ w[f] \in Seq(S) /\ Apart(w[f])
             /\ \A id : Holds(w[f], id) <=> Holds(wire[f], id) /\ ~(f = e /\ id = y.id)
  <2>1. CASE f = e
    <3>1. w[f] = Tail(wire[e])
      BY <1>2, <1>7, <2>1 DEF Carried
    <3>2. Tail(wire[e]) \in Seq(S)
      BY <1>3, TailType
    <3>3. QED
      BY <1>5, <2>1, <3>1, <3>2
  <2>2. CASE f # e
    <3>1. w[f] = wire[f]
      BY <1>2, <1>7, <2>2 DEF Carried
    <3>2. QED
      BY <1>3, <1>4, <2>2, <3>1
  <2>3. QED
    BY <2>1, <2>2
<1>10. ASSUME NEW f \in Ends
       PROVE  /\ Apart(wire'[f])
              /\ \A id : Holds(wire'[f], id) =>
                   \/ Holds(wire[f], id) /\ ~(f = e /\ id = y.id)
                   \/ id = y.id /\ peer[f] \in devices
  <2>1. CASE peer[f] \in devices
    <3>1. wire'[f] = Append(w[f], y)
      BY <1>7, <2>1 DEF Transmit
    <3>2. ~Holds(w[f], y.id)
      <4>1. SUFFICES ASSUME f # e, Holds(wire[f], y.id) PROVE FALSE
        BY <1>9
      <4>2. beyond[peer[e]] \cap beyond[peer[f]] = {}
        BY <1>4, <1>5, <1>6, <4>1
      <4>3. QED
        BY <1>8, <2>1, <4>2
    <3>3. /\ \A id : Holds(Append(w[f], y), id) <=> Holds(w[f], id) \/ id = y.id
          /\ Apart(Append(w[f], y))
      BY <1>9, <3>2, HoldsAppend
    <3>4. \A id : Holds(w[f], id) <=> Holds(wire[f], id) /\ ~(f = e /\ id = y.id)
      BY <1>9
    <3>5. QED
      BY <2>1, <3>1, <3>3, <3>4
  <2>2. CASE peer[f] \notin devices
    <3>1. wire'[f] = w[f]
      BY <1>7, <2>2 DEF Transmit
    <3>2. QED
      BY <1>9, <3>1
  <2>3. QED
    BY <2>1, <2>2
<1>11. ASSUME NEW id \in Nat, NEW f \in Ends, Holds(wire'[f], id)
       PROVE  /\ sent[id].origin \notin beyond[peer[f]]
              /\ \A g \in Ends : f # g /\ Holds(wire'[g], id) => beyond[peer[f]] \cap beyond[peer[g]] = {}
              /\ \A m \in Nodes : Holds(got[m], id) => m \notin beyond[peer[f]]
  <2>1. CASE id # y.id
    <3>1. \A g \in Ends : Holds(wire'[g], id) => Holds(wire[g], id)
      BY <1>10, <2>1
    <3>2. QED
      BY <1>4, <1>11, <3>1
  <2>2. CASE id = y.id
    <3>1. /\ sent[id].origin \notin beyond[peer[e]]
          /\ \A g \in Ends : g # e /\ Holds(wire[g], id) => beyond[peer[e]] \cap beyond[peer[g]] = {}
          /\ \A m \in Nodes : Holds(got[m], id) => m \notin beyond[peer[e]]
      BY <1>4, <1>5, <2>2
    <3>2. \A g \in Ends : Holds(wire'[g], id) =>
            \/ Holds(wire[g], id) /\ g # e
            \/ peer[g] \in devices /\ beyond[peer[g]] \subseteq beyond[peer[e]]
      BY <1>8, <1>10, <2>2
    <3>3. CASE Holds(wire[f], id) /\ f # e
      <4>1. ASSUME NEW g \in Ends, f # g, Holds(wire'[g], id)
            PROVE  beyond[peer[f]] \cap beyond[peer[g]] = {}
        <5>1. CASE Holds(wire[g], id)
          BY <1>4, <3>3, <4>1, <5>1
        <5>2. CASE beyond[peer[g]] \subseteq beyond[peer[e]]
          BY <3>1, <3>3, <5>2
        <5>3. QED
          BY <3>2, <4>1, <5>1, <5>2
      <4>2. QED
        BY <1>4, <3>3, <4>1
    <3>4. CASE peer[f] \in devices /\ beyond[peer[f]] \subseteq beyond[peer[e]]
      <4>1. ASSUME NEW g \in Ends, f # g, Holds(wire'[g], id)
            PROVE  beyond[peer[f]] \cap beyond[peer[g]] = {}
        <5>1. CASE Holds(wire[g], id) /\ g # e
          BY <3>1, <3>4, <5>1
        <5>2. CASE peer[g] \in devices
          BY <1>8, <3>4, <4>1, <5>2
        <5>3. QED
          BY <3>2, <4>1, <5>1, <5>2
      <4>2. QED
        BY <3>1, <3>4, <4>1
    <3>5. QED
      BY <1>11, <3>2, <3>3, <3>4
  <2>3. QED
    BY <2>1, <2>2
<1>12. /\ \A f \in Ends : Apart(wire'[f])
       /\ \A m \in Nodes : Apart(got[m])
       /\ \A id \in Nat : \A m \in Nodes : Holds(got[m], id) => sent[id].origin # m
  BY <1>4, <1>10
<1>13. \A id \in Nat : \A f \in Ends : Holds(wire'[f], id) => Clear(beyond, id, f)'
  BY <1>1, <1>11 DEF Clear
<1>14. QED
  BY <1>1, <1>12, <1>13 DEF Spread

(* A frame is taken off its link and received where it arrives. *)
LEMMA SpreadReceived ==
  ASSUME TInv, DOMAIN peer = Ends, NEW beyond, Divides(net, beyond), Spread(beyond),
         UNCHANGED <<net, peer, sent>>, NEW e \in Ends, e[1] \in Nodes, wire[e] # <<>>,
         wire' = [wire EXCEPT ![e] = Tail(wire[e])],
         NEW r, r.id = Head(wire[e]).id, got' = [got EXCEPT ![e[1]] = Append(got[e[1]], r)]
  PROVE  Spread(beyond)'
<1>1. Ends' = Ends /\ Nodes' = Nodes
  BY DEF Ends, Nodes
<1>2. PICK S : Carried(S) /\ Known(S)
  BY DEF TInv
<1>3. /\ \A f \in Ends : wire[f] \in Seq(S)
      /\ \A m \in Nodes : got[m] \in Seq(S)
  BY <1>2 DEF Carried
<1>4. /\ \A f \in Ends : Apart(wire[f])
      /\ \A m \in Nodes : Apart(got[m])
      /\ \A id \in Nat : \A f \in Ends : Holds(wire[f], id) =>
           /\ sent[id].origin \notin beyond[peer[f]]
           /\ \A g \in Ends : f # g /\ Holds(wire[g], id) => beyond[peer[f]] \cap beyond[peer[g]] = {}
           /\ \A m \in Nodes : Holds(got[m], id) => m \notin beyond[peer[f]]
      /\ \A id \in Nat : \A m \in Nodes : Holds(got[m], id) => sent[id].origin # m
  BY DEF Spread, Clear
<1>5. /\ Apart(Tail(wire[e])) /\ Holds(wire[e], r.id)
      /\ \A id : Holds(Tail(wire[e]), id) <=> Holds(wire[e], id) /\ id # r.id
  BY <1>3, <1>4, HoldsTail
<1>6. r.id \in Nat
  <2>1. Head(wire[e]) \in S
    BY <1>3, TailType
  <2>2. QED
    BY <1>2, <2>1 DEF Known
<1>7. e[1] \in beyond[peer[e]]
  BY Joined DEF TInv
<1>8. \A f \in Ends : /\ Apart(wire'[f])
                      /\ \A id : Holds(wire'[f], id) => Holds(wire[f], id) /\ ~(f = e /\ id = r.id)
  BY <1>2, <1>4, <1>5 DEF Carried
<1>9. ASSUME NEW m \in Nodes
      PROVE  /\ Apart(got'[m])
             /\ \A id : Holds(got'[m], id) => Holds(got[m], id) \/ (m = e[1] /\ id = r.id)
  <2>1. CASE m = e[1]
    <3>1. got'[m] = Append(got[m], r)
      BY <1>2, <2>1 DEF Carried
    <3>2. ~Holds(got[m], r.id)
      BY <1>4, <1>5, <1>6, <1>7, <2>1
    <3>3. QED
      BY <1>3, <1>4, <2>1, <3>1, <3>2, HoldsAppend
  <2>2. CASE m # e[1]
    <3>1. got'[m] = got[m]
      BY <1>2, <2>2 DEF Carried
    <3>2. QED
      BY <1>4, <3>1
  <2>3. QED
    BY <2>1, <2>2
<1>10. ASSUME NEW id \in Nat, NEW f \in Ends, Holds(wire'[f], id), NEW m \in Nodes, Holds(got'[m], id)
       PROVE  m \notin beyond[peer[f]]
  <2>1. CASE Holds(got[m], id)
    BY <1>4, <1>8, <1>10, <2>1
  <2>2. CASE m = e[1] /\ id = r.id
    <3>1. Holds(wire[f], id) /\ f # e
      BY <1>8, <1>10, <2>2
    <3>2. beyond[peer[e]] \cap beyond[peer[f]] = {}
      BY <1>4, <1>5, <2>2, <3>1
    <3>3. QED
      BY <1>7, <2>2, <3>2
  <2>3. QED
    BY <1>9, <1>10, <2>1, <2>2
<1>11. ASSUME NEW id \in Nat, NEW m \in Nodes, Holds(got'[m], id)
       PROVE  sent[id].origin # m
  <2>1. CASE Holds(got[m], id)
    BY <1>4, <2>1
  <2>2. CASE m = e[1] /\ id = r.id
    <3>1. sent[id].origin \notin beyond[peer[e]]
      BY <1>4, <1>5, <2>2
    <3>2. QED
      BY <1>7, <2>2, <3>1
  <2>3. QED
    BY <1>9, <1>11, <2>1, <2>2
<1>12. ASSUME NEW id \in Nat, NEW f \in Ends, Holds(wire'[f], id)
       PROVE  Clear(beyond, id, f)'
  <2>1. sent[id].origin \notin beyond[peer[f]]
    BY <1>4, <1>8, <1>12
  <2>2. \A g \in Ends : f # g /\ Holds(wire'[g], id) => beyond[peer[f]] \cap beyond[peer[g]] = {}
    BY <1>4, <1>8, <1>12
  <2>3. QED
    BY <1>1, <1>10, <1>12, <2>1, <2>2 DEF Clear
<1>13. /\ \A f \in Ends : Apart(wire'[f])
       /\ \A m \in Nodes : Apart(got'[m])
  BY <1>8, <1>9
<1>14. QED
  BY <1>1, <1>11, <1>12, <1>13 DEF Spread

(* The ports a dummy switch floods a packet to lead away from it, to other *)
(* links than the one it came from.                                        *)
LEMMA FloodedAway ==
  ASSUME Installed, DOMAIN device = Switches, NEW e \in Ends, e[1] \in Switches,
         NEW d \in Devices(e[1], FloodPorts(e[1], GetPortIdForDevice(e[1], e)))
  PROVE  d[1] = e[1] /\ d # e
<1> DEFINE n == e[1]
           s == net.added[n]
           inPort == GetPortIdForDevice(n, e)
<1>1. /\ s \in Seq({f \in Ends : f[1] = n}) /\ e \in ToSet(s)
      /\ \A i, j \in DOMAIN s : i # j => s[i] # s[j]
  <2>1. WellFormed(net) /\ n \in DOMAIN net.kind
    BY FabricAssumption DEF Installed, Switches
  <2>2. /\ s \in Seq({f \in EndsOf(net) : f[1] = n})
        /\ \A f \in EndsOf(net) : f[1] = n => f \in ToSet(s)
        /\ \A i, j \in DOMAIN s : i # j => s[i] # s[j]
    BY <2>1 DEF WellFormed
  <2>3. QED
    BY <2>2 DEF Ends
<1>2. device[n].ports = s /\ PortsOf(n) = 0 .. Len(s) - 1
  BY DEF Installed, PortsOf
<1>3. /\ Len(s) \in Nat /\ DOMAIN s = 1 .. Len(s)
      /\ \A i \in DOMAIN s : s[i][1] = n
  BY <1>1
<1>4. \A i \in PortsOf(n) : i \in Int /\ i + 1 \in DOMAIN s
  BY <1>2, <1>3
<1>5. inPort \in PortsOf(n) /\ s[inPort + 1] = e
  <2>1. PICK i \in DOMAIN s : s[i] = e
    BY <1>1 DEF ToSet
  <2>2. i - 1 \in PortsOf(n) /\ (i - 1) + 1 = i
    BY <1>2, <1>3
  <2>3. \E j \in PortsOf(n) : s[j + 1] = e
    BY <2>1, <2>2
  <2>4. QED
    BY <1>2, <2>3 DEF GetPortIdForDevice
<1> HIDE DEF s, inPort
<1>6. PICK i \in FloodPorts(n, inPort) : d = s[i + 1]
  BY <1>2 DEF Devices, inPort
<1>7. i \in PortsOf(n) /\ i # inPort
  BY <1>6 DEF FloodPorts
<1>8. /\ i \in Int /\ inPort \in Int /\ i + 1 # inPort + 1
      /\ i + 1 \in DOMAIN s /\ inPort + 1 \in DOMAIN s
  BY <1>4, <1>5, <1>7
<1>9. s[i + 1] # s[inPort + 1]
  BY <1>1, <1>8
<1>10. QED
  BY <1>3, <1>5, <1>6, <1>8, <1>9

LEMMA SpreadDelivered ==
  ASSUME TInv, AllDummies, NEW beyond, Divides(net, beyond), Spread(beyond),
         NEW e \in Ends, Deliver(e)
  PROVE  Spread(beyond)'
<1> DEFINE frame == Head(wire[e])
           w == [wire EXCEPT ![e] = Tail(wire[e])]
           n == e[1]
           flood(o) == Frame(frame.id, Destination(e, frame), AddEthernetHeader(o.packet, o.type))
<1>1. /\ status = "running" /\ wire[e] # <<>>
      /\ UNCHANGED <<setup, down, sent, lossy>>
  BY DEF Deliver
<1>2. PICK o \in Passed(e, Head(wire[e])) :
        CASE o.result = "hangs" -> status' = "hung" /\ wire' = w /\ UNCHANGED <<buffer, got>>
          [] o.result = "stops" -> status' = "crashed" /\ wire' = w /\ UNCHANGED <<buffer, got>>
          [] o.result = "lost" -> wire' = w /\ UNCHANGED <<buffer, got, status>>
          [] o.result = "received" /\ e[1] \in net.hosts -> HostReceive(e, frame, o, w)
          [] o.result = "received" /\ e[1] \in Switches ->
               IF net.kind[e[1]] = "dummy" THEN ReceiveFromPort(e, frame, o, w)
               ELSE ReceiveFromDevice(e, frame, o, w)
  BY DEF Deliver
<1>3. DOMAIN peer = Ends /\ DOMAIN device = Switches /\ UNCHANGED <<net, peer, sent>>
  BY <1>1 DEF TInv, Installed, setup
<1>4. n \in Nodes /\ (n \in net.hosts <=> n \notin Switches)
  BY FabricAssumption DEF TInv, Installed, WellFormed, Ends, Nodes, NodesOf, Switches
<1>5. PICK y : y = flood(o)
  OBVIOUS
<1>6. y.id = Head(wire[e]).id
  BY <1>5 DEF Frame
<1>7. ASSUME wire' = w, got' = got PROVE Spread(beyond)'
  <2>1. w = Transmit(w, {}, y)
    <3>1. PICK S : wire \in [Ends -> Seq(S)]
      BY DEF TInv, Carried
    <3>2. QED
      BY <3>1 DEF Transmit
  <2> HIDE DEF w
  <2>2. wire' = Transmit(w, {}, y)
    BY <1>7, <2>1
  <2>3. QED
    BY <1>1, <1>3, <1>6, <1>7, <2>2, SpreadForwarded DEF w
<1>8. ASSUME wire' = w, got' = Record(got, n, frame, o) PROVE Spread(beyond)'
  <2>1. PICK r : r = [id |-> frame.id, packet |-> o.packet, type |-> o.type]
    OBVIOUS
  <2>2. r.id = Head(wire[e]).id
    BY <2>1
  <2>3. got' = [got EXCEPT ![e[1]] = Append(got[e[1]], r)]
    BY <1>8, <2>1 DEF Record
  <2>4. QED
    BY <1>1, <1>3, <1>4, <1>8, <2>2, <2>3, SpreadReceived
<1>9. CASE o.result \in {"hangs", "stops", "lost"}
  BY <1>2, <1>7, <1>9
<1>10. CASE o.result = "received" /\ n \in net.hosts
  <2>1. HostReceive(e, frame, o, w)
    BY <1>2, <1>4, <1>10
  <2>2. /\ wire' = w
        /\ got' = Record(got, n, frame, o) \/ got' = got
    BY <2>1 DEF HostReceive
  <2>3. QED
    BY <1>7, <1>8, <2>2
<1>11. CASE o.result = "received" /\ n \in Switches
  <2>1. ReceiveFromPort(e, frame, o, w)
    BY <1>2, <1>4, <1>11 DEF AllDummies
  <2> DEFINE devices == Devices(n, FloodPorts(n, GetPortIdForDevice(n, e)))
  <2>2. \/ wire' = w /\ got' = Record(got, n, frame, o)
        \/ wire' = Transmit(w, devices, y) /\ got' = got
    BY <1>5, <2>1 DEF ReceiveFromPort
  <2>3. \A d \in devices : d[1] = e[1] /\ d # e
    BY <1>3, <1>11, FloodedAway DEF TInv
  <2> HIDE DEF devices
  <2>4. CASE wire' = Transmit(w, devices, y) /\ got' = got
    BY <1>1, <1>3, <1>6, <2>3, <2>4, SpreadForwarded
  <2>5. QED
    BY <1>8, <2>2, <2>4
<1>12. QED
  BY <1>4, <1>9, <1>10, <1>11, PassedResults

LEMMA FloodStarts ==
  ASSUME \A n \in Networks : (\A s \in DOMAIN n.kind : n.kind[s] = "dummy") => Forest(n), Init
  PROVE  FInv
<1>1. TInv /\ Quiet
  BY InitTyped DEF Init, Quiet
<1>2. ASSUME AllDummies PROVE \E beyond : Divides(net, beyond) /\ Spread(beyond)
  <2>1. net \in Networks /\ \A s \in DOMAIN net.kind : net.kind[s] = "dummy"
    BY <1>2 DEF Init, AllDummies, Switches
  <2>2. PICK beyond : Divides(net, beyond)
    BY <2>1 DEF Forest
  <2>3. \A id : ~Holds(<<>>, id)
    BY DEF Holds
  <2>4. Apart(<<>>)
    BY DEF Apart
  <2>5. Spread(beyond)
    BY <1>1, <2>3, <2>4 DEF Quiet, Spread
  <2>6. QED
    BY <2>2, <2>5
<1>3. QED
  BY <1>1, <1>2 DEF FInv

(* Steps that move no frame. *)
LEMMA StillFlood ==
  ASSUME FInv, TInv', UNCHANGED <<net, peer, wire, got, sent>>
  PROVE  FInv'
<1>1. Ends' = Ends /\ Nodes' = Nodes /\ (AllDummies' <=> AllDummies)
  BY DEF Ends, Nodes, AllDummies, Switches
<1>2. (DOMAIN peer # Ends => Quiet)'
  BY <1>1 DEF FInv, Quiet
<1>3. ASSUME AllDummies PROVE (\E beyond : Divides(net, beyond) /\ Spread(beyond))'
  <2>1. PICK beyond : Divides(net, beyond) /\ Spread(beyond)
    BY <1>3 DEF FInv
  <2>2. Spread(beyond)'
    BY <2>1, SpreadUnchanged
  <2>3. QED
    BY <2>1, <2>2
<1>4. QED
  BY <1>1, <1>2, <1>3 DEF FInv

(* Steps of a running simulation. *)
LEMMA RunningFlood ==
  ASSUME FInv, TInv', status = "running", UNCHANGED setup,
         AllDummies => \A beyond : Divides(net, beyond) /\ Spread(beyond) => Spread(beyond)'
  PROVE  FInv'
<1>1. Ends' = Ends /\ (AllDummies' <=> AllDummies) /\ UNCHANGED <<net, peer>>
  BY DEF setup, Ends, AllDummies, Switches
<1>2. DOMAIN peer' = Ends'
  BY <1>1 DEF FInv, TInv, Installed
<1>3. ASSUME AllDummies PROVE (\E beyond : Divides(net, beyond) /\ Spread(beyond))'
  <2>1. PICK beyond : Divides(net, beyond) /\ Spread(beyond)
    BY <1>3 DEF FInv
  <2>2. Spread(beyond)' /\ Divides(net', beyond)
    BY <1>1, <1>3, <2>1
  <2>3. QED
    BY <2>2
<1>4. QED
  BY <1>1, <1>2, <1>3 DEF FInv

LEMMA SpreadOriginated ==
  ASSUME TInv, NEW beyond, Divides(net, beyond), Spread(beyond),
         NEW n \in Switches, NEW packet, NEW dst, Originate(n, packet, dst)
  PROVE  Spread(beyond)'
<1>1. /\ status = "running" /\ UNCHANGED <<net, peer, got>>
      /\ DOMAIN peer = Ends /\ DOMAIN device = Switches
  BY DEF Originate, setup, TInv, Installed
<1>2. \A d \in Devices(n, PortsOf(n)) : d[1] = n
  <2>1. net.added[n] \in Seq({f \in EndsOf(net) : f[1] = n})
    <3>1. WellFormed(net) /\ n \in DOMAIN net.kind
      BY FabricAssumption DEF TInv, Installed, Switches
    <3>2. QED
      BY <3>1 DEF WellFormed
  <2>2. device[n].ports = net.added[n]
    BY <1>1 DEF TInv, Installed
  <2>3. \A i \in PortsOf(n) : i + 1 \in DOMAIN net.added[n]
    BY <2>1, <2>2 DEF PortsOf
  <2>4. \A j \in DOMAIN net.added[n] : net.added[n][j][1] = n
    BY <2>1
  <2>5. QED
    BY <2>2, <2>3, <2>4 DEF Devices
<1>3. PICK x : x = [origin |-> n, dst |-> dst, packet |-> packet]
  OBVIOUS
<1>4. PICK y : y = Frame(Len(sent'), dst, AddEthernetHeader(packet, EtherType(packet)))
  OBVIOUS
<1>5. /\ x.origin = n /\ y.id = Len(sent') /\ sent' = Append(sent, x)
      /\ wire' = Transmit(wire, Devices(n, PortsOf(n)), y)
  BY <1>3, <1>4 DEF Originate, Frame
<1>6. QED
  BY <1>1, <1>2, <1>5, SpreadSent

LEMMA SpreadHostSent ==
  ASSUME TInv, NEW beyond, Divides(net, beyond), Spread(beyond),
         NEW h, NEW packet, NEW dst, HostSend(h, packet, dst)
  PROVE  Spread(beyond)'
<1>1. /\ status = "running" /\ UNCHANGED <<net, peer, got>> /\ DOMAIN peer = Ends
  BY DEF HostSend, setup, TInv, Installed
<1>2. PICK x : x = [origin |-> h, dst |-> dst, packet |-> packet]
  OBVIOUS
<1>3. PICK y : y = Frame(Len(sent'), dst,
                 IF net.medium = "csma" THEN AddEthernetHeader(packet, EtherType(packet))
                 ELSE OnWire(net.device[h], packet, EtherType(packet)))
  OBVIOUS
<1>4. /\ x.origin = h /\ y.id = Len(sent') /\ sent' = Append(sent, x)
      /\ wire' = Transmit(wire, {<<h, 0>>}, y)
  BY <1>2, <1>3 DEF HostSend, Frame
<1>5. \A d \in {<<h, 0>>} : d[1] = h
  OBVIOUS
<1>6. QED
  BY <1>1, <1>4, <1>5, SpreadSent

LEMMA FloodStep ==
  ASSUME FInv, [Next]_vars
  PROVE  FInv'
<1>1. TInv /\ TInv'
  BY NextTyped DEF FInv
<1>2. CASE InstallLink
  <2>1. DOMAIN peer # Ends
    <3>1. PICK i \in DOMAIN net.links : ToSet(net.links[i]) \cap DOMAIN peer = {}
      BY <1>2 DEF InstallLink
    <3>2. net.links[i][1] \in ToSet(net.links[i]) /\ ToSet(net.links[i]) \subseteq Ends
      <4>1. net \in Networks
        BY <1>1 DEF TInv, Installed
      <4>2. ToSet(net.links[i]) = {net.links[i][1], net.links[i][2]} /\ ToSet(net.links[i]) \subseteq Ends
        BY <4>1, LinksApart
      <4>3. QED
        BY <4>2
    <3>3. QED
      BY <3>1, <3>2
  <2>2. Ends' = Ends /\ Nodes' = Nodes /\ (AllDummies' <=> AllDummies) /\ UNCHANGED <<net, wire, got>>
    BY <1>2 DEF InstallLink, Ends, Nodes, AllDummies, Switches
  <2>3. Quiet'
    BY <2>1, <2>2 DEF FInv, Quiet
  <2>4. \A beyond : Spread(beyond)'
    <3>1. (\A id : ~Holds(<<>>, id)) /\ Apart(<<>>)
      BY DEF Holds, Apart
    <3>2. QED
      BY <2>3, <3>1 DEF Quiet, Spread
  <2>5. QED
    BY <1>1, <2>2, <2>3, <2>4 DEF FInv
<1>3. CASE \/ Run
           \/ \E n \in Switches : InstallDummy(n) \/ InstallP4(n)
           \/ \E port \in net.queued : SetPortTrafficManager(port[1], port[2])
           \/ \E port \in net.managed, isUp \in BOOLEAN : SetPortUp(port[1], port[2], isUp)
           \/ UNCHANGED vars
  <2>1. UNCHANGED <<net, peer, wire, got, sent>>
    BY <1>3 DEF Run, InstallDummy, InstallP4, SetPortTrafficManager, SetPortUp, vars, setup
  <2>2. QED
    BY <1>1, <2>1, StillFlood
<1>4. CASE \E e \in Ends : Deliver(e)
  <2>1. PICK e \in Ends : Deliver(e)
    BY <1>4
  <2>2. status = "running" /\ UNCHANGED setup
    BY <2>1 DEF Deliver
  <2>3. AllDummies => \A beyond : Divides(net, beyond) /\ Spread(beyond) => Spread(beyond)'
    BY <1>1, <2>1, SpreadDelivered
  <2>4. QED
    BY <1>1, <2>2, <2>3, RunningFlood
<1>5. CASE \E n \in Switches : CoreSends(n)
  <2>1. PICK n \in Switches : CoreSends(n)
    BY <1>5
  <2>2. status = "running" /\ UNCHANGED setup /\ ~AllDummies
    BY <2>1 DEF CoreSends, AllDummies
  <2>3. QED
    BY <1>1, <2>2, RunningFlood
<1>6. CASE \E packet \in net.packets, dst \in net.dsts :
             \/ \E h \in net.hosts : HostSend(h, packet, dst)
             \/ \E n \in Switches : DummySend(n, packet, dst) \/ SendFrom(n, packet, dst)
  <2>1. PICK packet \in net.packets, dst \in net.dsts :
             \/ \E h \in net.hosts : HostSend(h, packet, dst)
             \/ \E n \in Switches : DummySend(n, packet, dst) \/ SendFrom(n, packet, dst)
    BY <1>6
  <2>2. ASSUME NEW n \in Switches, Originate(n, packet, dst) PROVE FInv'
    <3>1. status = "running" /\ UNCHANGED setup
      BY <2>2 DEF Originate
    <3>2. \A beyond : Divides(net, beyond) /\ Spread(beyond) => Spread(beyond)'
      BY <1>1, <2>2, SpreadOriginated
    <3>3. QED
      BY <1>1, <3>1, <3>2, RunningFlood
  <2>3. ASSUME NEW h, HostSend(h, packet, dst) PROVE FInv'
    <3>1. status = "running" /\ UNCHANGED setup
      BY <2>3 DEF HostSend
    <3>2. \A beyond : Divides(net, beyond) /\ Spread(beyond) => Spread(beyond)'
      BY <1>1, <2>3, SpreadHostSent
    <3>3. QED
      BY <1>1, <3>1, <3>2, RunningFlood
  <2>4. QED
    BY <2>1, <2>2, <2>3 DEF DummySend, SendFrom
<1>7. QED
  BY <1>2, <1>3, <1>4, <1>5, <1>6 DEF Next

(* Flooding among dummy switches that form no cycle never duplicates: no   *)
(* node gets a packet twice, and none its own, whatever else is under way  *)
(* and whichever ports go down and up.                                     *)
THEOREM FloodOnceCorrect ==
  ASSUME \A n \in Networks : (\A s \in DOMAIN n.kind : n.kind[s] = "dummy") => Forest(n)
  PROVE  Spec => []FloodOnce
<1>1. Init => FInv
  BY FloodStarts
<1>2. FInv /\ [Next]_vars => FInv'
  BY FloodStep
<1>3. FInv => FloodOnce
  <2> SUFFICES ASSUME FInv, AllDummies, NEW id \in DOMAIN sent, NEW n \in Nodes
               PROVE  Cardinality(Copies(n, id)) <= (IF n = sent[id].origin THEN 0 ELSE 1)
    BY DEF FloodOnce
  <2>1. PICK beyond : Spread(beyond)
    BY DEF FInv
  <2>2. id \in Nat
    <3>1. PICK R : sent \in Seq(R)
      BY DEF FInv, TInv
    <3>2. QED
      BY <3>1
  <2>3. Apart(got[n]) /\ (Holds(got[n], id) => sent[id].origin # n)
    BY <2>1, <2>2 DEF Spread
  <2>4. CASE Copies(n, id) = {}
    BY <2>4, FS_EmptySet
  <2>5. CASE Copies(n, id) # {}
    <3>1. PICK i : i \in Copies(n, id)
      BY <2>5
    <3>2. Copies(n, id) = {i} /\ sent[id].origin # n
      BY <2>3, <3>1 DEF Copies, Apart, Holds
    <3>3. Cardinality(Copies(n, id)) = 1
      BY <3>2, FS_Singleton
    <3>4. QED
      BY <3>2, <3>3
  <2>6. QED
    BY <2>4, <2>5
<1>4. QED
  BY <1>1, <1>2, <1>3, PTL DEF Spec

-----------------------------------------------------------------------------
(* Headers.  Where the property promises something, a frame carries what   *)
(* its sender put on the wire, a queued packet too, and what a host got is *)
(* what was sent.                                                          *)
Form(id) ==
  LET x == sent[id]
  IN IF x.origin \in net.hosts /\ net.medium = "p2p"
     THEN OnWire(net.device[x.origin], x.packet, EtherType(x.packet))
     ELSE AddEthernetHeader(x.packet, EtherType(x.packet))

FrameIntact(f) == f.id \in DOMAIN sent /\ (Faithful(net) => f.packet = Form(f.id))
QueuedIntact(q) == FrameIntact(q) /\ q.in = 0
RecordIntact(r) ==
  r.id \in DOMAIN sent /\ (Faithful(net) => /\ r.packet = sent[r.id].packet
                                            /\ r.type = EtherType(sent[r.id].packet))

Laden(W, Q, G) ==
  /\ wire \in [Ends -> Seq(W)] /\ \A f \in W : FrameIntact(f)
  /\ buffer \in [Switches -> Seq(Q)] /\ \A q \in Q : QueuedIntact(q)
  /\ \A h \in net.hosts : got[h] \in Seq(G)
  /\ \A r \in G : RecordIntact(r)

HInv ==
  /\ TInv
  /\ \A id \in DOMAIN sent : sent[id].packet \in net.packets
  /\ \E W, Q, G : Laden(W, Q, G)
  /\ StopsExplained

(* The networks the proof is about: where there are custom headers, to be  *)
(* restored, the devices' settings match.                                  *)
AllMatching ==
  \A n \in Networks :
    n.medium = "p2p" /\ Faithful(n) /\ (\E h \in n.hosts : n.device[h].custom) => Matching(n)

LEMMA Ethernet ==
  ASSUME NEW p, p \in Seq(ToSet(p)), NEW type
  PROVE  LET f == AddEthernetHeader(p, type)
         IN Head(f) = Eth(type) /\ Tail(f) = p
<1>1. PICK S : S = ToSet(p) \cup {Eth(type)}
  OBVIOUS
<1>2. p \in Seq(S) /\ <<Eth(type)>> \in Seq(S)
  BY <1>1
<1>3. PICK x : x = Eth(type)
  OBVIOUS
<1>4. Head(<<x>> \o p) = x /\ Tail(<<x>> \o p) = p
  <2>1. <<x>> \in Seq(S) /\ Len(<<x>>) = 1 /\ <<x>>[1] = x
    BY <1>2, <1>3
  <2>2. <<x>> \o p \in Seq(S) /\ Len(<<x>> \o p) = 1 + Len(p) /\ Len(p) \in Nat
    BY <1>2, <2>1
  <2>3. (<<x>> \o p)[1] = x /\ \A i \in 1 .. Len(p) : (<<x>> \o p)[i + 1] = p[i]
    BY <1>2, <2>1
  <2>4. Tail(<<x>> \o p) \in Seq(S) /\ Len(Tail(<<x>> \o p)) = Len(p)
        /\ \A i \in 1 .. Len(p) : Tail(<<x>> \o p)[i] = p[i]
    BY <2>2, <2>3
  <2>5. Tail(<<x>> \o p) = p
    BY <1>2, <2>4
  <2>6. QED
    BY <2>2, <2>3, <2>5
<1>5. QED
  BY <1>3, <1>4 DEF AddEthernetHeader

(* Devices without custom headers always match. *)
LEMMA PlainMatching ==
  ASSUME AllMatching, NEW n \in Networks, n.medium = "p2p", Faithful(n)
  PROVE  Matching(n)
<1>1. CASE \E h \in n.hosts : n.device[h].custom
  BY <1>1 DEF AllMatching
<1>2. CASE \A h \in n.hosts : ~n.device[h].custom
  <2> SUFFICES ASSUME NEW p \in n.packets, NEW h \in n.hosts, NEW g \in n.hosts
               PROVE  LET f == OnWire(n.device[h], p, EtherType(p))
                          plain == AddEthernetHeader(p, EtherType(p))
                      IN /\ Head(f).kind = "eth" /\ f = AddEthernetHeader(Tail(f), Head(f).value)
                         /\ \A o \in ProcessHeader(n.device[g], f) \cup ProcessHeader(n.device[g], plain) :
                              /\ o.result = "received" => o.packet = p /\ o.type = EtherType(p)
                              /\ o.result = "stops" => HasHeader(p, "arp")
                              /\ o.result = "hangs" => HasHeader(p, "icmp")
    BY DEF Matching
  <2>1. PICK f : f = AddEthernetHeader(p, EtherType(p))
    OBVIOUS
  <2>2. OnWire(n.device[h], p, EtherType(p)) = f
    BY <1>2, <2>1 DEF OnWire
  <2>3. Head(f).kind = "eth" /\ Head(f).value = EtherType(p) /\ Tail(f) = p
    <3>1. p \in Seq(ToSet(p))
      BY FabricAssumption DEF WellFormed
    <3>2. Head(f) = Eth(EtherType(p)) /\ Tail(f) = p
      BY <2>1, <3>1, Ethernet
    <3>3. QED
      BY <3>2 DEF Eth
  <2>4. ProcessHeader(n.device[g], f) = {[result |-> "received", packet |-> p, type |-> EtherType(p)]}
    BY <1>2, <2>3 DEF ProcessHeader
  <2>5. \A o \in ProcessHeader(n.device[g], f) :
          o.result = "received" /\ o.packet = p /\ o.type = EtherType(p)
    BY <2>4
  <2>6. QED
    BY <2>1, <2>2, <2>3, <2>5
<1>3. QED
  BY <1>1, <1>2

(* A frame of either form starts with an Ethernet header. *)
LEMMA FormSplit ==
  ASSUME AllMatching, HInv, Faithful(net), NEW id \in DOMAIN sent
  PROVE  Head(Form(id)).kind = "eth" /\ Form(id) = AddEthernetHeader(Tail(Form(id)), Head(Form(id)).value)
<1> DEFINE x == sent[id]
           plain == AddEthernetHeader(x.packet, EtherType(x.packet))
<1>1. x.packet \in net.packets /\ net \in Networks
  BY DEF HInv, TInv, Installed
<1>2. x.packet \in Seq(ToSet(x.packet))
  <2>1. WellFormed(net)
    BY <1>1, FabricAssumption
  <2>2. QED
    BY <1>1, <2>1 DEF WellFormed
<1>3. Head(plain).kind = "eth" /\ plain = AddEthernetHeader(Tail(plain), Head(plain).value)
  <2>1. Head(plain) = Eth(EtherType(x.packet)) /\ Tail(plain) = x.packet
    BY <1>2, Ethernet
  <2>2. \A t : Eth(t).kind = "eth" /\ Eth(t).value = t
    BY DEF Eth
  <2>3. plain = AddEthernetHeader(x.packet, EtherType(x.packet))
    OBVIOUS
  <2> HIDE DEF plain
  <2>4. QED
    BY <2>1, <2>2, <2>3
<1>4. CASE x.origin \in net.hosts /\ net.medium = "p2p"
  <2>1. Matching(net)
    BY <1>1, <1>4, PlainMatching
  <2>2. Form(id) = OnWire(net.device[x.origin], x.packet, EtherType(x.packet))
    BY <1>4 DEF Form
  <2>3. QED
    BY <1>1, <1>4, <2>1, <2>2 DEF Matching
<1>5. CASE ~(x.origin \in net.hosts /\ net.medium = "p2p")
  <2>1. Form(id) = plain
    BY <1>5 DEF Form
  <2>2. QED
    BY <1>3, <2>1
<1>6. QED
  BY <1>4, <1>5

(* What a device makes of a frame: a switch's takes off the Ethernet       *)
(* header, a host's restores the packet, or ARP or ICMP stop it.           *)
LEMMA PassedIntact ==
  ASSUME AllMatching, HInv, NEW e \in Ends, NEW f, FrameIntact(f), NEW o \in Passed(e, f)
  PROVE  /\ ~(net.medium = "p2p" /\ e[1] \in net.hosts /\ net.device[e[1]].custom) =>
              o.result = "received"
         /\ Faithful(net) /\ e[1] \notin net.hosts =>
              o.packet = Tail(Form(f.id)) /\ o.type = Head(Form(f.id)).value
         /\ Faithful(net) /\ e[1] \in net.hosts /\ o.result = "received" =>
              o.packet = sent[f.id].packet /\ o.type = EtherType(sent[f.id].packet)
         /\ Faithful(net) /\ o.result = "stops" => HasHeader(sent[f.id].packet, "arp")
         /\ Faithful(net) /\ o.result = "hangs" => HasHeader(sent[f.id].packet, "icmp")
<1> DEFINE p == sent[f.id].packet
           plain == AddEthernetHeader(p, EtherType(p))
<1>1. p \in net.packets /\ net \in Networks /\ f.id \in DOMAIN sent
  BY DEF HInv, TInv, Installed, FrameIntact
<1>2. p \in Seq(ToSet(p))
  <2>1. WellFormed(net)
    BY <1>1, FabricAssumption
  <2>2. QED
    BY <1>1, <2>1 DEF WellFormed
<1>3. Head(plain).kind = "eth" /\ Head(plain).value = EtherType(p) /\ Tail(plain) = p
  <2>1. Head(plain) = Eth(EtherType(p)) /\ Tail(plain) = p
    BY <1>2, Ethernet
  <2> HIDE DEF plain
  <2>2. QED
    BY <2>1 DEF Eth
<1>4. \A dev : ~dev.custom => \A r \in ProcessHeader(dev, f.packet) :
        /\ r.result = "received"
        /\ Head(f.packet).kind = "eth" =>
             r.packet = Tail(f.packet) /\ r.type = Head(f.packet).value
  <2> SUFFICES ASSUME NEW dev, ~dev.custom, NEW r \in ProcessHeader(dev, f.packet)
               PROVE  /\ r.result = "received"
                      /\ Head(f.packet).kind = "eth" =>
                           r.packet = Tail(f.packet) /\ r.type = Head(f.packet).value
    OBVIOUS
  <2>1. CASE Head(f.packet).kind = "eth"
    <3>1. r = [result |-> "received", packet |-> Tail(f.packet), type |-> Head(f.packet).value]
      BY <2>1 DEF ProcessHeader
    <3>2. QED
      BY <3>1
  <2>2. CASE Head(f.packet).kind # "eth"
    <3>1. r = [result |-> "received", packet |-> <<Garbage>>, type |-> 0]
      BY <2>2 DEF ProcessHeader
    <3>2. QED
      BY <2>2, <3>1
  <2>3. QED
    BY <2>1, <2>2
<1>5. ASSUME Faithful(net)
      PROVE  Head(f.packet).kind = "eth" /\ f.packet = Form(f.id)
  BY <1>1, <1>5, FormSplit DEF FrameIntact
<1>6. CASE net.medium = "p2p" /\ e[1] \in net.hosts
  <2>1. o \in ProcessHeader(net.device[e[1]], f.packet)
    BY <1>6 DEF Passed
  <2>2. ~net.device[e[1]].custom => o.result = "received"
    BY <1>4, <2>1
  <2>3. ASSUME Faithful(net)
        PROVE  /\ o.result = "received" => o.packet = p /\ o.type = EtherType(p)
               /\ o.result = "stops" => HasHeader(p, "arp")
               /\ o.result = "hangs" => HasHeader(p, "icmp")
    <3>1. \E h \in net.hosts : f.packet \in {OnWire(net.device[h], p, EtherType(p)), plain}
      BY <1>5, <1>6, <2>3 DEF Form
    <3>2. PICK h \in net.hosts : o \in ProcessHeader(net.device[e[1]], OnWire(net.device[h], p, EtherType(p)))
                                       \cup ProcessHeader(net.device[e[1]], plain)
      BY <2>1, <3>1
    <3>3. Matching(net)
      BY <1>1, <1>6, <2>3, PlainMatching
    <3>4. QED
      BY <1>1, <1>6, <3>2, <3>3 DEF Matching
  <2>4. QED
    BY <1>6, <2>2, <2>3
<1>7. CASE ~(net.medium = "p2p" /\ e[1] \in net.hosts)
  <2>1. o \in ProcessHeader([custom |-> FALSE], f.packet)
    BY <1>7 DEF Passed
  <2>2. /\ o.result = "received"
        /\ Head(f.packet).kind = "eth" =>
             o.packet = Tail(f.packet) /\ o.type = Head(f.packet).value
    BY <1>4, <2>1
  <2>3. ASSUME Faithful(net), e[1] \in net.hosts
        PROVE  o.packet = p /\ o.type = EtherType(p)
    <3>1. f.packet = plain
      BY <1>5, <1>7, <2>3 DEF Form
    <3> HIDE DEF p, plain
    <3>2. QED
      BY <1>3, <2>2, <3>1
  <2>4. ASSUME Faithful(net)
        PROVE  o.packet = Tail(Form(f.id)) /\ o.type = Head(Form(f.id)).value
    BY <1>5, <2>2, <2>4
  <2>5. QED
    BY <1>7, <2>2, <2>3, <2>4
<1>8. QED
  BY <1>6, <1>7

LEMMA StillIntact ==
  ASSUME UNCHANGED net, DOMAIN sent \subseteq DOMAIN sent', \A id \in DOMAIN sent : sent'[id] = sent[id]
  PROVE  /\ \A f : FrameIntact(f) => FrameIntact(f)'
         /\ \A q : QueuedIntact(q) => QueuedIntact(q)'
         /\ \A r : RecordIntact(r) => RecordIntact(r)'
<1>1. \A f : FrameIntact(f) => FrameIntact(f)'
  BY DEF FrameIntact, Form
<1>2. \A q : QueuedIntact(q) => QueuedIntact(q)'
  BY <1>1 DEF QueuedIntact
<1>3. \A r : RecordIntact(r) => RecordIntact(r)'
  BY DEF RecordIntact
<1>4. QED
  BY <1>1, <1>2, <1>3

(* A step that moves packets about. *)
LEMMA LadenIntact ==
  ASSUME HInv, TInv', UNCHANGED <<net, sent>>, StopsExplained',
         NEW W, wire' \in [Ends -> Seq(W)], \A f \in W : FrameIntact(f),
         NEW Q, buffer' \in [Switches -> Seq(Q)], \A q \in Q : QueuedIntact(q),
         NEW G, \A h \in net.hosts : got'[h] \in Seq(G), \A r \in G : RecordIntact(r)
  PROVE  HInv'
<1>1. Ends' = Ends /\ Switches' = Switches
  BY DEF Ends, Switches
<1>2. /\ \A f : FrameIntact(f) => FrameIntact(f)'
      /\ \A q : QueuedIntact(q) => QueuedIntact(q)'
      /\ \A r : RecordIntact(r) => RecordIntact(r)'
  BY StillIntact
<1>3. Laden(W, Q, G)'
  BY <1>1, <1>2 DEF Laden
<1>4. QED
  BY <1>3 DEF HInv

(* A step that moves none, and does not stop the simulation. *)
LEMMA StillHeaders ==
  ASSUME HInv, TInv', UNCHANGED <<net, wire, buffer, got, sent>>,
         status' = status \/ status' \notin {"crashed", "hung"}
  PROVE  HInv'
<1>1. PICK W, Q, G : Laden(W, Q, G)
  BY DEF HInv
<1>2. StopsExplained'
  BY DEF HInv, StopsExplained, UsesBadPort, UsesCustom, Sends, Misreads, Switches
<1>3. QED
  BY <1>1, <1>2, LadenIntact DEF Laden

(* A packet is sent in the form that is expected of its sender. *)
LEMMA SentIntact ==
  ASSUME HInv, TInv', UNCHANGED <<net, buffer, got, status>>, status = "running",
         NEW x, x.packet \in net.packets, sent' = Append(sent, x), NEW devices,
         NEW id, id = Len(sent'), NEW y, y.id = id, y.packet = Form(id)',
         wire' = Transmit(wire, devices, y)
  PROVE  HInv'
<1>1. PICK W, Q, G : Laden(W, Q, G)
  BY DEF HInv
<1>2. PICK R : sent \in Seq(R)
  BY DEF HInv, TInv
<1>3. /\ Len(sent) \in Nat /\ Len(sent') = Len(sent) + 1
      /\ DOMAIN sent = 1 .. Len(sent) /\ DOMAIN sent' = 1 .. Len(sent) + 1
      /\ sent'[Len(sent) + 1] = x
      /\ \A i \in 1 .. Len(sent) : sent'[i] = sent[i]
  BY <1>2
<1>4. /\ DOMAIN sent \subseteq DOMAIN sent' /\ \A i \in DOMAIN sent : sent'[i] = sent[i]
      /\ \A i \in DOMAIN sent' : i \in DOMAIN sent \/ i = Len(sent) + 1
      /\ id \in DOMAIN sent'
  BY <1>3
<1>5. /\ \A f : FrameIntact(f) => FrameIntact(f)'
      /\ \A q : QueuedIntact(q) => QueuedIntact(q)'
      /\ \A r : RecordIntact(r) => RecordIntact(r)'
  BY <1>4, StillIntact
<1>6. FrameIntact(y)'
  BY <1>4 DEF FrameIntact
<1>7. wire' \in [Ends -> Seq(W \cup {y})]
  <2>1. wire \in [Ends -> Seq(W \cup {y})]
    BY <1>1, SeqMonotone DEF Laden
  <2>2. QED
    BY <2>1, TransmitType
<1>8. Laden(W \cup {y}, Q, G)'
  <2>1. Ends' = Ends /\ Switches' = Switches
    BY DEF Ends, Switches
  <2>2. QED
    BY <1>1, <1>5, <1>6, <1>7, <2>1 DEF Laden
<1>9. \A i \in DOMAIN sent' : sent'[i].packet \in net.packets
  BY <1>3, <1>4 DEF HInv
<1>10. StopsExplained'
  BY DEF StopsExplained
<1>11. QED
  BY <1>8, <1>9, <1>10 DEF HInv

(* What a core sends is what it was given, and it stops the simulation     *)
(* only for a port that does not exist.                                    *)
LEMMA SendIntact ==
  ASSUME AllMatching, HInv, status = "running", NEW n \in Switches, net.kind[n] # "dummy",
         NEW q, QueuedIntact(q), NEW W, \A f \in W : FrameIntact(f),
         NEW w, w \in [Ends -> Seq(W)], SendNs3Packet(w, n, q, net.program[n][q.in])
  PROVE  /\ \E V : wire' \in [Ends -> Seq(V)] /\ \A f \in V : FrameIntact(f)
         /\ status' # status => status' = "crashed" /\ UsesBadPort(n)
<1> DEFINE packet == IF Head(q.packet).kind = "eth" THEN q.packet ELSE <<Eth(0), Garbage>>
           ports == net.program[n][q.in]
<1>1. PICK y : y = Frame(q.id, q.dst, packet)
  OBVIOUS
<1>2. FrameIntact(y)
  <2>1. y.id = q.id /\ y.packet = packet
    BY <1>1 DEF Frame
  <2>2. q.id \in DOMAIN sent
    BY DEF QueuedIntact, FrameIntact
  <2>3. ASSUME Faithful(net) PROVE packet = Form(q.id)
    <3>1. q.packet = Form(q.id) /\ Head(q.packet).kind = "eth"
      BY <2>2, <2>3, FormSplit DEF QueuedIntact, FrameIntact
    <3>2. QED
      BY <3>1
  <2> HIDE DEF packet
  <2>4. QED
    BY <2>1, <2>2, <2>3 DEF FrameIntact
<1>3. \/ \E devices : wire' = Transmit(w, devices, y) /\ status' = status
      \/ ~(ports \ {DROP_PORT} \subseteq PortsOf(n)) /\ wire' = w /\ status' = "crashed"
  BY <1>1 DEF SendNs3Packet
<1>4. \E V : wire' \in [Ends -> Seq(V)] /\ \A f \in V : FrameIntact(f)
  <2>1. CASE wire' = w
    BY <2>1
  <2>2. ASSUME NEW devices, wire' = Transmit(w, devices, y)
        PROVE  wire' \in [Ends -> Seq(W \cup {y})]
    <3>1. w \in [Ends -> Seq(W \cup {y})]
      BY SeqMonotone
    <3>2. QED
      BY <2>2, <3>1, TransmitType
  <2>3. \A f \in W \cup {y} : FrameIntact(f)
    BY <1>2
  <2>4. QED
    BY <1>3, <2>1, <2>2, <2>3
<1>5. ASSUME ~(ports \ {DROP_PORT} \subseteq PortsOf(n)) PROVE UsesBadPort(n)
  <2>1. WellFormed(net) /\ n \in DOMAIN net.kind /\ DOMAIN device = Switches
    BY FabricAssumption DEF HInv, TInv, Installed, Switches
  <2>2. q.in \in DOMAIN net.program[n] /\ ports \subseteq Nat
    BY <2>1 DEF WellFormed, QueuedIntact
  <2>3. net.added[n] \in Seq({f \in EndsOf(net) : f[1] = n})
    BY <2>1 DEF WellFormed
  <2>4. PortsOf(n) = 0 .. Len(net.added[n]) - 1 /\ Len(net.added[n]) \in Nat
    BY <2>1, <2>3 DEF PortsOf, HInv, TInv, Installed
  <2> HIDE DEF ports
  <2>5. PICK port \in ports \ {DROP_PORT} : port \notin PortsOf(n)
    BY <1>5
  <2>6. port >= Len(net.added[n])
    BY <2>2, <2>4, <2>5
  <2>7. QED
    BY <2>2, <2>5, <2>6 DEF UsesBadPort, ports
<1>6. QED
  BY <1>3, <1>4, <1>5

LEMMA DeliverIntact ==
  ASSUME AllMatching, HInv, TInv', NEW e \in Ends, Deliver(e)
  PROVE  HInv'
<1> DEFINE frame == Head(wire[e])
           w == [wire EXCEPT ![e] = Tail(wire[e])]
           n == e[1]
<1>1. /\ status = "running" /\ wire[e] # <<>>
      /\ UNCHANGED <<setup, down, sent, lossy>> /\ UNCHANGED net
  BY DEF Deliver, setup
<1>2. PICK o \in Passed(e, Head(wire[e])) :
        CASE o.result = "hangs" -> status' = "hung" /\ wire' = w /\ UNCHANGED <<buffer, got>>
          [] o.result = "stops" -> status' = "crashed" /\ wire' = w /\ UNCHANGED <<buffer, got>>
          [] o.result = "lost" -> wire' = w /\ UNCHANGED <<buffer, got, status>>
          [] o.result = "received" /\ e[1] \in net.hosts -> HostReceive(e, frame, o, w)
          [] o.result = "received" /\ e[1] \in Switches ->
               IF net.kind[e[1]] = "dummy" THEN ReceiveFromPort(e, frame, o, w)
               ELSE ReceiveFromDevice(e, frame, o, w)
  BY DEF Deliver
<1>3. PICK W, Q, G : Laden(W, Q, G)
  BY DEF HInv
<1>4. n \in Nodes /\ (n \in net.hosts <=> n \notin Switches)
  BY FabricAssumption DEF HInv, TInv, Installed, WellFormed, Ends, Nodes, NodesOf, Switches
<1>5. /\ frame \in W /\ FrameIntact(frame) /\ w \in [Ends -> Seq(W)]
  <2>1. wire[e] \in Seq(W)
    BY <1>3 DEF Laden
  <2>2. frame \in W /\ Tail(wire[e]) \in Seq(W)
    BY <1>1, <2>1, TailType
  <2>3. QED
    BY <1>3, <2>2 DEF Laden
<1>6. /\ ~(net.medium = "p2p" /\ n \in net.hosts /\ net.device[n].custom) => o.result = "received"
      /\ Faithful(net) /\ n \notin net.hosts =>
           o.packet = Tail(Form(frame.id)) /\ o.type = Head(Form(frame.id)).value
      /\ Faithful(net) /\ n \in net.hosts /\ o.result = "received" =>
           o.packet = sent[frame.id].packet /\ o.type = EtherType(sent[frame.id].packet)
      /\ Faithful(net) /\ o.result = "stops" => HasHeader(sent[frame.id].packet, "arp")
      /\ Faithful(net) /\ o.result = "hangs" => HasHeader(sent[frame.id].packet, "icmp")
  BY <1>5, PassedIntact
<1>7. /\ \A f \in W : FrameIntact(f)
      /\ \A q \in Q : QueuedIntact(q)
      /\ \A r \in G : RecordIntact(r)
      /\ buffer \in [Switches -> Seq(Q)] /\ \A h \in net.hosts : got[h] \in Seq(G)
  BY <1>3 DEF Laden
<1>8. ASSUME Faithful(net), n \notin net.hosts
      PROVE  AddEthernetHeader(o.packet, o.type) = Form(frame.id)
  BY <1>5, <1>6, <1>8, FormSplit DEF FrameIntact
<1>9. ASSUME status' # "crashed", status' # "hung" PROVE StopsExplained'
  BY <1>9 DEF StopsExplained
<1> HIDE DEF frame, w
<1>10. CASE o.result \in {"hangs", "stops", "lost"}
  <2>1. /\ wire' = w /\ UNCHANGED <<buffer, got>>
        /\ status' = "crashed" => o.result = "stops"
        /\ status' = "hung" => o.result = "hangs"
    BY <1>1, <1>2, <1>10
  <2>2. UsesCustom /\ ~Misreads => Faithful(net)
    BY DEF Misreads
  <2>3. UsesCustom
    BY <1>6, <1>10 DEF UsesCustom
  <2>4. /\ o.result = "stops" => (UsesCustom /\ Sends("arp")) \/ Misreads
        /\ o.result = "hangs" => (UsesCustom /\ Sends("icmp")) \/ Misreads
    BY <1>5, <1>6, <2>2, <2>3 DEF Sends, FrameIntact
  <2>5. (UsesCustom' <=> UsesCustom) /\ (Misreads' <=> Misreads) /\ \A kind : Sends(kind)' <=> Sends(kind)
    BY <1>1 DEF UsesCustom, Misreads, Sends
  <2>6. StopsExplained'
    BY <2>1, <2>4, <2>5 DEF StopsExplained
  <2>7. QED
    BY <1>1, <1>5, <1>7, <2>1, <2>6, LadenIntact
<1>11. CASE o.result = "received" /\ n \in net.hosts
  <2>1. HostReceive(e, frame, o, w)
    BY <1>2, <1>4, <1>11
  <2>2. /\ wire' = w /\ UNCHANGED <<buffer, status>>
        /\ got' = Record(got, n, frame, o) \/ got' = got
    BY <2>1 DEF HostReceive
  <2>3. PICK r : r = [id |-> frame.id, packet |-> o.packet, type |-> o.type]
    OBVIOUS
  <2>4. RecordIntact(r)
    BY <1>5, <1>6, <1>11, <2>3 DEF RecordIntact, FrameIntact
  <2>5. \A h \in net.hosts : got'[h] \in Seq(G \cup {r})
    <3>1. \A h \in net.hosts : got[h] \in Seq(G \cup {r})
      BY <1>7, SeqMonotone
    <3>2. CASE got' = Record(got, n, frame, o)
      <4>1. got' = [got EXCEPT ![n] = Append(got[n], r)]
        BY <2>3, <3>2 DEF Record
      <4>2. Append(got[n], r) \in Seq(G \cup {r})
        BY <1>11, <3>1, AppendType
      <4>3. \E S : got \in [Nodes -> S]
        BY DEF HInv, TInv, Carried
      <4>4. QED
        BY <1>4, <3>1, <4>1, <4>2, <4>3 DEF Nodes, NodesOf
    <3>3. QED
      BY <2>2, <3>1, <3>2
  <2>6. StopsExplained'
    BY <1>1, <1>9, <2>2
  <2>7. \A x \in G \cup {r} : RecordIntact(x)
    BY <1>7, <2>4
  <2>8. QED
    BY <1>1, <1>5, <1>7, <2>2, <2>5, <2>6, <2>7, LadenIntact
<1>12. ASSUME o.result = "received", n \in Switches,
              got' = Record(got, n, frame, o) \/ got' = got
       PROVE  \A h \in net.hosts : got'[h] \in Seq(G)
  <2>1. \E S : got \in [Nodes -> S]
    BY DEF HInv, TInv, Carried
  <2>2. \A h \in net.hosts : h # n /\ h \in Nodes
    BY <1>4, <1>12 DEF Nodes, NodesOf
  <2>3. \A h \in net.hosts : got'[h] = got[h]
    BY <1>12, <2>1, <2>2 DEF Record
  <2>4. QED
    BY <1>7, <2>3
<1>13. CASE o.result = "received" /\ n \in Switches /\ net.kind[n] = "dummy"
  <2>1. ReceiveFromPort(e, frame, o, w)
    BY <1>2, <1>4, <1>13
  <2>2. PICK y : y = Frame(frame.id, Destination(e, frame), AddEthernetHeader(o.packet, o.type))
    OBVIOUS
  <2>3. /\ UNCHANGED <<buffer, status>>
        /\ got' = Record(got, n, frame, o) \/ got' = got
        /\ \/ wire' = w
           \/ \E devices : wire' = Transmit(w, devices, y)
    BY <2>1, <2>2 DEF ReceiveFromPort
  <2>4. FrameIntact(y)
    <3>1. y.id = frame.id /\ y.packet = AddEthernetHeader(o.packet, o.type)
      BY <2>2 DEF Frame
    <3>2. QED
      BY <1>4, <1>5, <1>8, <1>13, <3>1 DEF FrameIntact
  <2>5. wire' \in [Ends -> Seq(W \cup {y})]
    <3>1. w \in [Ends -> Seq(W \cup {y})]
      BY <1>5, SeqMonotone
    <3>2. ASSUME NEW devices, wire' = Transmit(w, devices, y)
          PROVE  wire' \in [Ends -> Seq(W \cup {y})]
      BY <3>1, <3>2, TransmitType
    <3>3. QED
      BY <2>3, <3>1, <3>2
  <2>6. StopsExplained'
    BY <1>1, <1>9, <2>3
  <2>7. \A f \in W \cup {y} : FrameIntact(f)
    BY <1>7, <2>4
  <2>8. \A h \in net.hosts : got'[h] \in Seq(G)
    BY <1>12, <1>13, <2>3
  <2>9. QED
    BY <1>1, <1>7, <2>3, <2>5, <2>6, <2>7, <2>8, LadenIntact
<1>14. CASE o.result = "received" /\ n \in Switches /\ net.kind[n] # "dummy"
  <2>1. ReceiveFromDevice(e, frame, o, w)
    BY <1>2, <1>4, <1>14
  <2>2. PICK q : q = [id |-> frame.id, dst |-> Destination(e, frame), in |-> GetPortNumber(e),
                      packet |-> Reconstructed(o.packet, o.type)]
    OBVIOUS
  <2>3. /\ got' = Record(got, n, frame, o) \/ got' = got
        /\ \/ net.kind[n] = "pipeline" /\ Pipeline(w, n, q)
           \/ net.kind[n] = "pna" /\ PushPna(n, q) /\ wire' = w
           \/ /\ net.kind[n] = "queued"
              /\ buffer' = [buffer EXCEPT ![n] = Append(@, q)] /\ wire' = w /\ UNCHANGED status
    <3>1. net.kind[n] \in {"pipeline", "queued", "pna"}
      BY <1>14, FabricAssumption DEF HInv, TInv, Installed, WellFormed, Switches
    <3>2. QED
      BY <2>1, <2>2, <3>1 DEF ReceiveFromDevice
  <2>4. QueuedIntact(q)
    <3>1. /\ q.id = frame.id /\ q.in = 0
          /\ Faithful(net) => q.packet = AddEthernetHeader(o.packet, o.type)
      BY <2>2 DEF GetPortNumber, Reconstructed, Faithful
    <3>2. QED
      BY <1>4, <1>5, <1>8, <1>14, <3>1 DEF QueuedIntact, FrameIntact
  <2>5. \A h \in net.hosts : got'[h] \in Seq(G)
    BY <1>12, <1>14, <2>3
  <2>6. buffer \in [Switches -> Seq(Q \cup {q})] /\ Append(buffer[n], q) \in Seq(Q \cup {q})
    <3>1. buffer \in [Switches -> Seq(Q \cup {q})]
      BY <1>7, SeqMonotone
    <3>2. QED
      BY <1>14, <3>1, AppendType
  <2>7. \A p \in Q \cup {q} : QueuedIntact(p)
    BY <1>7, <2>4
  <2>8. CASE net.kind[n] = "pipeline" /\ Pipeline(w, n, q)
    <3>1. SendNs3Packet(w, n, q, net.program[n][q.in]) /\ UNCHANGED buffer
      BY <2>8 DEF Pipeline
    <3>2. /\ \E V : wire' \in [Ends -> Seq(V)] /\ \A f \in V : FrameIntact(f)
          /\ status' # status => status' = "crashed" /\ UsesBadPort(n)
      BY <1>1, <1>5, <1>7, <1>14, <2>4, <3>1, SendIntact
    <3>3. PICK V : wire' \in [Ends -> Seq(V)] /\ \A f \in V : FrameIntact(f)
      BY <3>2
    <3>4. StopsExplained'
      BY <1>1, <1>14, <3>2 DEF StopsExplained, UsesBadPort, Switches
    <3>5. QED
      BY <1>1, <1>7, <2>5, <3>1, <3>3, <3>4, LadenIntact
  <2>9. CASE net.kind[n] = "pna" /\ PushPna(n, q) /\ wire' = w
    <3>1. CASE Len(buffer[n]) < PnaCapacity
      <4>1. buffer' = [buffer EXCEPT ![n] = Append(buffer[n], q)] /\ UNCHANGED status
        BY <2>9, <3>1 DEF PushPna
      <4>2. buffer' \in [Switches -> Seq(Q \cup {q})] /\ StopsExplained'
        BY <1>1, <1>9, <2>6, <4>1
      <4>3. QED
        BY <1>1, <1>5, <1>7, <2>5, <2>7, <2>9, <4>2, LadenIntact
    <3>2. CASE ~(Len(buffer[n]) < PnaCapacity)
      <4>1. status' = "hung" /\ UNCHANGED buffer
        BY <2>9, <3>2 DEF PushPna
      <4>2. Len(buffer[n]) = PnaCapacity
        <5>1. Len(buffer[n]) \in Nat /\ Len(buffer[n]) <= PnaCapacity
          BY <1>7, <1>14, <2>9 DEF HInv, TInv, NicBounded
        <5>2. QED
          BY <3>2, <5>1, FabricAssumption
      <4>3. StopsExplained'
        BY <1>1, <1>14, <2>9, <4>1, <4>2 DEF StopsExplained, Switches
      <4>4. QED
        BY <1>1, <1>5, <1>7, <2>5, <2>9, <4>1, <4>3, LadenIntact
    <3>3. QED
      BY <3>1, <3>2
  <2>10. CASE /\ net.kind[n] = "queued"
              /\ buffer' = [buffer EXCEPT ![n] = Append(@, q)] /\ wire' = w /\ UNCHANGED status
    <3>1. buffer' \in [Switches -> Seq(Q \cup {q})] /\ StopsExplained'
      BY <1>1, <1>9, <2>6, <2>10
    <3>2. QED
      BY <1>1, <1>5, <1>7, <2>5, <2>7, <2>10, <3>1, LadenIntact
  <2>11. QED
    BY <2>3, <2>8, <2>9, <2>10
<1>15. QED
  BY <1>4, <1>10, <1>11, <1>13, <1>14, PassedResults

LEMMA CoreSendsIntact ==
  ASSUME AllMatching, HInv, TInv', NEW n \in Switches, CoreSends(n)
  PROVE  HInv'
<1>1. /\ status = "running" /\ net.kind[n] = "queued"
      /\ UNCHANGED <<setup, down, got, sent, lossy>> /\ UNCHANGED net
  BY DEF CoreSends, setup
<1>2. PICK i \in DOMAIN buffer[n] :
        /\ buffer' = [buffer EXCEPT ![n] = RemoveAt(buffer[n], i)]
        /\ SendNs3Packet(wire, n, buffer[n][i], net.program[n][buffer[n][i].in])
  BY DEF CoreSends
<1>3. PICK W, Q, G : Laden(W, Q, G)
  BY DEF HInv
<1>4. PICK q : q = buffer[n][i]
  OBVIOUS
<1>5. QueuedIntact(q) /\ RemoveAt(buffer[n], i) \in Seq(Q)
  <2>1. buffer[n] \in Seq(Q)
    BY <1>3 DEF Laden
  <2>2. q \in Q
    BY <1>4, <2>1
  <2>3. QED
    BY <1>3, <2>1, <2>2, RemoveAtType DEF Laden
<1>6. buffer' \in [Switches -> Seq(Q)]
  BY <1>2, <1>3, <1>5 DEF Laden
<1>7. /\ \E V : wire' \in [Ends -> Seq(V)] /\ \A f \in V : FrameIntact(f)
      /\ status' # status => status' = "crashed" /\ UsesBadPort(n)
  BY <1>1, <1>2, <1>3, <1>4, <1>5, SendIntact DEF Laden
<1>8. PICK V : wire' \in [Ends -> Seq(V)] /\ \A f \in V : FrameIntact(f)
  BY <1>7
<1>9. StopsExplained'
  BY <1>1, <1>7 DEF StopsExplained, UsesBadPort, Switches
<1>10. QED
  BY <1>1, <1>3, <1>6, <1>8, <1>9, LadenIntact DEF Laden

LEMMA OriginateIntact ==
  ASSUME HInv, TInv', NEW n \in Switches, NEW packet \in net.packets, NEW dst,
         Originate(n, packet, dst)
  PROVE  HInv'
<1>1. status = "running" /\ UNCHANGED <<net, buffer, got, status>>
  BY DEF Originate, setup
<1>2. n \notin net.hosts
  BY FabricAssumption DEF HInv, TInv, Installed, WellFormed, Switches
<1>3. PICK x : x = [origin |-> n, dst |-> dst, packet |-> packet]
  OBVIOUS
<1>4. PICK id : id = Len(sent')
  OBVIOUS
<1>5. PICK y : y = Frame(id, dst, AddEthernetHeader(packet, EtherType(packet)))
  OBVIOUS
<1>6. /\ sent' = Append(sent, x) /\ wire' = Transmit(wire, Devices(n, PortsOf(n)), y)
      /\ x.packet = packet /\ x.origin = n
  BY <1>3, <1>4, <1>5 DEF Originate
<1>7. sent'[id] = x
  BY <1>4, <1>6 DEF HInv, TInv
<1>8. y.id = id /\ y.packet = Form(id)'
  BY <1>1, <1>2, <1>5, <1>6, <1>7 DEF Form, Frame
<1>9. QED
  BY <1>1, <1>4, <1>6, <1>8, SentIntact

LEMMA HostSendIntact ==
  ASSUME HInv, TInv', NEW h \in net.hosts, NEW packet \in net.packets, NEW dst,
         HostSend(h, packet, dst)
  PROVE  HInv'
<1>1. status = "running" /\ UNCHANGED <<net, buffer, got, status>>
  BY DEF HostSend, setup
<1>2. net.medium \in {"csma", "p2p"}
  BY FabricAssumption DEF HInv, TInv, Installed, WellFormed
<1>3. PICK x : x = [origin |-> h, dst |-> dst, packet |-> packet]
  OBVIOUS
<1>4. PICK id : id = Len(sent')
  OBVIOUS
<1>5. PICK y : y = Frame(id, dst,
                 IF net.medium = "csma" THEN AddEthernetHeader(packet, EtherType(packet))
                 ELSE OnWire(net.device[h], packet, EtherType(packet)))
  OBVIOUS
<1>6. /\ sent' = Append(sent, x) /\ wire' = Transmit(wire, {<<h, 0>>}, y)
      /\ x.packet = packet /\ x.origin = h
  BY <1>3, <1>4, <1>5 DEF HostSend
<1>7. sent'[id] = x
  BY <1>4, <1>6 DEF HInv, TInv
<1>8. y.id = id /\ y.packet = Form(id)'
  BY <1>1, <1>2, <1>5, <1>6, <1>7 DEF Form, Frame
<1>9. QED
  BY <1>1, <1>4, <1>6, <1>8, SentIntact

LEMMA HeadersStart == Init => HInv
<1> SUFFICES ASSUME Init PROVE HInv
  OBVIOUS
<1>1. TInv
  BY InitTyped
<1>2. Laden({}, {}, {})
  <2>1. <<>> \in Seq({}) /\ \A h \in net.hosts : h \in Nodes
    BY DEF Nodes, NodesOf
  <2>2. QED
    BY <2>1 DEF Init, Laden
<1>3. StopsExplained /\ DOMAIN sent = {}
  BY DEF Init, StopsExplained
<1>4. QED
  BY <1>1, <1>2, <1>3 DEF HInv

LEMMA HeadersStep ==
  ASSUME AllMatching, HInv, [Next]_vars
  PROVE  HInv'
<1>1. TInv'
  BY NextTyped DEF HInv
<1>2. CASE \/ InstallLink \/ Run
           \/ \E n \in Switches : InstallDummy(n) \/ InstallP4(n)
           \/ \E port \in net.queued : SetPortTrafficManager(port[1], port[2])
           \/ \E port \in net.managed, isUp \in BOOLEAN : SetPortUp(port[1], port[2], isUp)
           \/ UNCHANGED vars
  <2>1. /\ UNCHANGED <<net, wire, buffer, got, sent>>
        /\ status' = status \/ status' \notin {"crashed", "hung"}
    BY <1>2 DEF InstallLink, Run, InstallDummy, InstallP4, SetPortTrafficManager, SetPortUp, vars, setup
  <2>2. QED
    BY <1>1, <2>1, StillHeaders
<1>3. CASE \E e \in Ends : Deliver(e)
  BY <1>1, <1>3, DeliverIntact
<1>4. CASE \E n \in Switches : CoreSends(n)
  BY <1>1, <1>4, CoreSendsIntact
<1>5. CASE \E packet \in net.packets, dst \in net.dsts :
             \/ \E h \in net.hosts : HostSend(h, packet, dst)
             \/ \E n \in Switches : DummySend(n, packet, dst) \/ SendFrom(n, packet, dst)
  <2>1. PICK packet \in net.packets, dst \in net.dsts :
             \/ \E h \in net.hosts : HostSend(h, packet, dst)
             \/ \E n \in Switches : DummySend(n, packet, dst) \/ SendFrom(n, packet, dst)
    BY <1>5
  <2>2. QED
    BY <1>1, <2>1, OriginateIntact, HostSendIntact DEF DummySend, SendFrom
<1>6. QED
  BY <1>2, <1>3, <1>4, <1>5 DEF Next

LEMMA HeadersInvariant ==
  ASSUME AllMatching
  PROVE  Spec => []HInv
<1>1. Init => HInv
  BY HeadersStart
<1>2. HInv /\ [Next]_vars => HInv'
  BY HeadersStep
<1>3. QED
  BY <1>1, <1>2, PTL DEF Spec

(* With matching settings what a host's protocols receive is what was      *)
(* sent, header for header, over any number of links and switches of any   *)
(* kind: a switch that takes the Ethernet header off and puts one on, and  *)
(* a core that reads it from the packet, change nothing.                   *)
THEOREM HeadersRestoredCorrect ==
  ASSUME AllMatching
  PROVE  Spec => []HeadersRestored
<1>1. HInv => HeadersRestored
  <2> SUFFICES ASSUME HInv, Faithful(net), NEW h \in net.hosts, NEW i \in DOMAIN got[h]
               PROVE  /\ got[h][i].packet = sent[got[h][i].id].packet
                      /\ got[h][i].type = EtherType(got[h][i].packet)
    BY DEF HeadersRestored
  <2>1. PICK W, Q, G : Laden(W, Q, G)
    BY DEF HInv
  <2>2. got[h] \in Seq(G) /\ \A r \in G : RecordIntact(r)
    BY <2>1 DEF Laden
  <2>3. RecordIntact(got[h][i])
    BY <2>2
  <2>4. QED
    BY <2>3 DEF RecordIntact
<1>2. QED
  BY <1>1, HeadersInvariant, PTL

(* With matching settings the simulation crashes and hangs for the reasons *)
(* the property lists, and for no other.                                   *)
THEOREM StopsExplainedCorrect ==
  ASSUME AllMatching
  PROVE  Spec => []StopsExplained
<1>1. HInv => StopsExplained
  BY DEF HInv
<1>2. QED
  BY <1>1, HeadersInvariant, PTL
=============================================================================
