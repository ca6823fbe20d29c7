--------------------------- MODULE MCEgressBuffer ---------------------------
(* The egress buffer on a small instance: ticks of half a millisecond, so  *)
(* that 1000 pps (and rate 0) is a packet every two ticks and 2000 pps one *)
(* every tick.                                                             *)
EXTENDS EgressBuffer, TLC

CONSTANTS p1, p2

MCPorts == {p1, p2}
MCRates == {2000}
MCCapacities == {1}
PortSymmetry == Permutations(MCPorts)
=============================================================================
