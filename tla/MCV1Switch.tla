----------------------------- MODULE MCV1Switch -----------------------------
(* The v1model switch on a small instance: port 1 is polled, port 8 is the *)
(* first that is not; two priorities are in range and 2 is not.            *)
EXTENDS V1Switch, TLC

CONSTANTS d1, d2

MCDestinations == {d1, d2}
OneDestination == {d1}
MCPorts == {1, 8}
MCGroups == 1 :> {1, 8}
MCSessions == (1 :> [mgids |-> {}, ports |-> {1}])
           @@ (2 :> [mgids |-> {1}, ports |-> {8}])

Forward(port, priority) ==
  [egress_spec |-> port, priority |-> priority, mcast_grp |-> 0, clone |-> 0,
   clone_priority |-> 0, resubmit |-> FALSE]
Drop == Forward(DropPort, 0)
Multicast(group) == [Forward(1, 0) EXCEPT !.mcast_grp = group]
Send == [drop |-> FALSE, clone |-> 0, clone_priority |-> 0,
         recirculate |-> FALSE]

(* What the primitives in the tree can make the core see. *)
PlainIngress ==
  {Forward(port, pri) : port \in MCPorts, pri \in 0 .. 2}
    \cup {Drop, Multicast(1), Multicast(2)}
PlainEgress == {Send, [Send EXCEPT !.drop = TRUE]}

(* What primitives that write the packet registers could make it see; 3 is *)
(* a session nobody configured, 2 multicasts the clone.  Five packets are  *)
(* the fewest that fill a queue_lo of two: a packet may be copied once, so *)
(* the second to be recirculated is the one stranded by the first.         *)
CopyingIngress ==
  {Forward(1, 0)}
    \cup {[Forward(1, 0) EXCEPT !.clone = s, !.clone_priority = 1] : s \in 2 .. 3}
    \cup {[Forward(1, 0) EXCEPT !.resubmit = TRUE],
          [Forward(1, 0) EXCEPT !.resubmit = TRUE, !.clone = 1]}
CopyingEgress ==
  PlainEgress
    \cup {[Send EXCEPT !.recirculate = TRUE],
          [Send EXCEPT !.clone = 1, !.drop = TRUE]}
=============================================================================
