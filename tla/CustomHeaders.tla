--------------------------- MODULE CustomHeaders ---------------------------
(***************************************************************************)
(* What CustomP2PNetDevice (model/custom-p2p-net-device.cc) does to the    *)
(* headers of a packet it sends or receives, and the bits of a             *)
(* CustomHeader (model/custom-header.cc).                                  *)
(*                                                                         *)
(* A packet is the sequence of its headers, outermost first, and ends with *)
(* its data.  Of a header only the field the devices read is kept: the     *)
(* type of the next header, the destination port of a transport header,    *)
(* the bytes of a custom one.  A device is a record of its settings:       *)
(*   custom         m_NeedProcessHeader                                    *)
(*   layer, op      where the custom header goes                           *)
(*   fields         the fields of m_header: their widths and values        *)
(*   min, max       CustomDstPortMin, CustomDstPortMax                     *)
(***************************************************************************)
EXTENDS Naturals, Sequences, SequencesExt

IPv4 == 2048      \* 0x0800
ARP == 2054       \* 0x0806
P4Protocol == 220 \* m_p4ProtocolNumber, 0xDC
UDP == 17
TCP == 6
Sentinel == 1     \* 0x1, ``Ethernet (Assume in p4sim)''

(* The kind of header each protocol number announces. *)
Announces(kind) ==
  CASE kind = "ip" -> {IPv4}
    [] kind = "arp" -> {ARP}
    [] kind = "udp" -> {UDP}
    [] kind = "tcp" -> {TCP}
    [] kind = "custom" -> {P4Protocol}
    [] OTHER -> {}
Parsed == {IPv4, ARP, UDP, TCP, P4Protocol}

Eth(type) == [kind |-> "eth", value |-> type]
Data == [kind |-> "data", value |-> 0]
(* Bytes parsed as a header they are not. *)
Garbage == [kind |-> "garbage", value |-> 0]

-----------------------------------------------------------------------------
(* The custom header: its fields, most significant bit first, one after    *)
(* the other, padded to a byte.                                            *)

Bits(field) ==
  [i \in 1 .. field.width |-> (field.value \div 2^(field.width - i)) % 2]

Width(fields) == FoldLeft(LAMBDA w, f : w + f.width, 0, fields)
GetSerializedSize(fields) == (Width(fields) + 7) \div 8

Serialize(fields) ==
  LET bits == FlattenSeq([i \in DOMAIN fields |-> Bits(fields[i])])
      At(i) == IF i \in DOMAIN bits THEN bits[i] ELSE 0
  IN [k \in 1 .. GetSerializedSize(fields) |->
       FoldLeft(LAMBDA byte, j : 2 * byte + At(8 * (k - 1) + j), 0, <<1, 2, 3, 4, 5, 6, 7, 8>>)]

(* The receiver reads the bytes with the widths of its own m_header. *)
Deserialize(bytes, fields) ==
  LET Bit(i) == (bytes[1 + ((i - 1) \div 8)] \div 2^(7 - ((i - 1) % 8))) % 2
      First(i) == Width(SubSeq(fields, 1, i - 1))
  IN [i \in DOMAIN fields |-> [fields[i] EXCEPT !.value =
       FoldLeft(LAMBDA v, j : 2 * v + Bit(First(i) + j), 0, [j \in 1 .. fields[i].width |-> j])]]

(* The devices set m_protocol_index to a protocol number; a number that is *)
(* no index of a field changes nothing, and index 0 stays.                 *)
GetProtocolNumber(fields) == IF fields = <<>> THEN 0 ELSE Head(fields).value

Custom(dev) == [kind |-> "custom", value |-> Serialize(dev.fields)]

-----------------------------------------------------------------------------
(* Sending.                                                                *)

GetDstPort(p) ==
  IF Head(p).kind = "ip" /\ Head(p).value \in {UDP, TCP} THEN p[2].value ELSE 0

HandleLayer2(dev, p, type) ==
  CASE dev.op = "ADD_BEFORE" -> <<Custom(dev), Eth(type)>> \o p
    [] dev.op = "ADD_AFTER" -> <<Eth(P4Protocol), Custom(dev)>> \o p
    [] dev.op = "REPLACE" -> <<Custom(dev)>> \o p

(* Only an IPv4 packet has a header to go after or to be replaced. *)
HandleLayer3(dev, p, type) ==
  CASE dev.op = "ADD_BEFORE" -> <<Eth(P4Protocol), Custom(dev)>> \o p
    [] dev.op # "ADD_BEFORE" /\ Head(p).kind # "ip" -> p
    [] dev.op = "ADD_AFTER" /\ Head(p).kind = "ip" ->
         <<Eth(type), [Head(p) EXCEPT !.value = P4Protocol], Custom(dev)>> \o Tail(p)
    [] dev.op = "REPLACE" /\ Head(p).kind = "ip" -> <<Eth(P4Protocol), Custom(dev)>> \o Tail(p)

(* The custom header and, in front of it, a transport header fresh from   *)
(* its constructor (the packet's own stays behind), or in its place.       *)
HandleTransportLayerHeader(dev, p, protocol, removeHeader) ==
  IF protocol \notin {UDP, TCP} THEN p
  ELSE IF removeHeader THEN <<Custom(dev)>> \o Tail(p)
  ELSE <<[Head(p) EXCEPT !.value = 0], Custom(dev)>> \o p

HandleLayer4(dev, p, type) ==
  LET ip == Head(p)
      rest == Tail(p)
      under(header, inner) == <<Eth(type), header>> \o inner
  IN CASE ip.kind # "ip" -> p
       [] ip.kind = "ip" /\ dev.op = "ADD_BEFORE" ->
            under([ip EXCEPT !.value = P4Protocol], <<Custom(dev)>> \o rest)
       [] ip.kind = "ip" /\ dev.op # "ADD_BEFORE" ->
            under(ip, HandleTransportLayerHeader(dev, rest, ip.value, dev.op = "REPLACE"))

AddEthernetHeader(p, type) == <<Eth(type)>> \o p

AddHeader(dev, p, type) ==
  IF GetDstPort(p) \notin dev.min .. dev.max THEN AddEthernetHeader(p, type)
  ELSE CASE dev.layer = 2 -> HandleLayer2(dev, p, type)
         [] dev.layer = 3 -> HandleLayer3(dev, p, type)
         [] dev.layer = 4 -> HandleLayer4(dev, p, type)
         [] OTHER -> p

(* CustomP2PNetDevice::SendFrom. *)
OnWire(dev, p, type) ==
  IF dev.custom THEN AddHeader(dev, p, type) ELSE AddEthernetHeader(p, type)

-----------------------------------------------------------------------------
(* Receiving.                                                              *)

(* The number that follows a header: none (0) after ARP and a transport    *)
(* header, except that a device that puts its header behind the transport  *)
(* header always expects one there.                                        *)
NextProtocol(dev, h) ==
  CASE h.kind = "ip" -> h.value
    [] h.kind = "custom" -> GetProtocolNumber(Deserialize(h.value, dev.fields))
    [] h.kind \in {"udp", "tcp"} /\ dev.layer = 4 /\ dev.op = "ADD_AFTER" -> P4Protocol
    [] OTHER -> 0

(* One header of the packet met by the parser, which is about to read      *)
(* `protocol'.  Once it has stopped the rest is left alone.  The sentinel  *)
(* number is the one it neither consumes nor stops at.                     *)
ParseHeader(dev, acc, h) ==
  CASE acc.loops -> acc
    [] ~acc.loops /\ acc.protocol \notin Parsed \cup {Sentinel} ->
         [acc EXCEPT !.protocol = 0, !.rest = Append(@, h)]
    [] ~acc.loops /\ acc.protocol = Sentinel -> [acc EXCEPT !.loops = TRUE]
    [] ~acc.loops /\ acc.protocol \in Parsed /\ acc.protocol \in Announces(h.kind) ->
         [acc EXCEPT !.protocol = NextProtocol(dev, h), !.path = Append(@, h)]
    [] ~acc.loops /\ acc.protocol \in Parsed /\ acc.protocol \notin Announces(h.kind) ->
         [acc EXCEPT !.protocol = 0, !.rest = <<Garbage>>]

Parse(dev, p) ==
  FoldLeft(LAMBDA acc, h : ParseHeader(dev, acc, h),
           [protocol |-> Head(p).value, path |-> <<>>, rest |-> <<>>, loops |-> FALSE], Tail(p))

(* What the reverse traversal puts back: not the custom headers, and not   *)
(* ARP either.  There is one variable per kind of header, so of two parsed *)
(* headers of a kind the last one is put back twice.                       *)
Rebuild(path) ==
  LET back == SelectSeq(path, LAMBDA h : h.kind \in {"ip", "udp", "tcp"})
      Same(i) == {j \in DOMAIN back : back[j].kind = back[i].kind}
  IN [i \in DOMAIN back |-> back[CHOOSE j \in Same(i) : \A k \in Same(i) : k <= j]]

(* The outcomes of reading bytes as headers they are not: the parser runs  *)
(* for ever, reads past the end of the packet (an assertion in a debug     *)
(* build), or leaves something no protocol takes.                          *)
Misread == [result : {"hangs", "stops", "lost"}, packet : {<<Data>>}, type : {0}]

RestoreHeaders(dev, p) ==
  LET parsed == Parse(dev, p)
      packet == Rebuild(parsed.path) \o parsed.rest
  IN IF Head(p).kind # "eth" \/ Head(parsed.rest \o <<Data>>).kind = "garbage" THEN Misread
     ELSE IF parsed.loops THEN {[result |-> "hangs", packet |-> p, type |-> 0]}
     ELSE IF packet # <<>> /\ Head(packet).kind = "ip"
          THEN {[result |-> "received", packet |-> packet, type |-> IPv4]}
     ELSE {o \in Misread : o.result # "hangs"}

(* ProcessHeader: the outcomes of a received packet. *)
ProcessHeader(dev, p) ==
  IF dev.custom THEN RestoreHeaders(dev, p)
  ELSE IF Head(p).kind = "eth"
       THEN {[result |-> "received", packet |-> Tail(p), type |-> Head(p).value]}
  ELSE {[result |-> "received", packet |-> <<Garbage>>, type |-> 0]}
=============================================================================
