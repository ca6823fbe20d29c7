----------------------------- MODULE MCP2PLink -----------------------------
(* The link on a small instance. *)
EXTENDS P2PLink

CONSTANTS a, b

MCDevices == {a, b}
MCSizes == {1, 2}
MCByteTimes == {0, 1}
MCGaps == {0, 1}
=============================================================================
