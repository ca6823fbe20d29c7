---------------------------- MODULE MCPsaSwitch ----------------------------
(* The PSA switch on a small instance: port 1 is polled, port 9 is the     *)
(* recirculation port; two priorities are in range and 2 is not.           *)
EXTENDS PsaSwitch, TLC

CONSTANTS d1, d2

MCDestinations == {d1, d2}
MCPorts == {1, 9}
MCGroups == 1 :> {1, 9}
MCSessions == (0 :> [mgids |-> {}, ports |-> {1}])
           @@ (1 :> [mgids |-> {1}, ports |-> {}])

Default == [clone |-> {}, drop |-> TRUE, resubmit |-> FALSE,
            multicast_group |-> 0, egress_port |-> 1, priority |-> 0]
Forward(port, priority) ==
  [Default EXCEPT !.drop = FALSE, !.egress_port = port, !.priority = priority]

(* Session 2 and group 2 are not configured. *)
MCIngress ==
  {Default, [Default EXCEPT !.clone = {1}]}
    \cup {Forward(1, 0), Forward(1, 1), Forward(1, 2), Forward(9, 0)}
    \cup {[Forward(1, 0) EXCEPT !.multicast_group = g] : g \in 1 .. 2}
    \cup {[Forward(1, 0) EXCEPT !.resubmit = TRUE],
          [Forward(1, 0) EXCEPT !.clone = {0}]}
MCEgress == {[clone |-> s, drop |-> b] : s \in {{}, {0}}, b \in BOOLEAN}
              \cup {[clone |-> {2}, drop |-> FALSE]}
=============================================================================
