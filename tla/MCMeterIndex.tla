---------------------------- MODULE MCMeterIndex ----------------------------
(* The three meter calls on a v1model switch and one of another            *)
(* architecture, a meter of two cells and an index past them.              *)
EXTENDS MeterIndex, TLC

CONSTANTS v1, pna, k1, h1, none, only

MCSwitches == {v1, pna}
MCV1Switches == {v1}
MCKeys == {k1}
MCHandles == {h1}
MCConfigs == {only}
MCMax == [f \in {"arrays"} |-> 2]
=============================================================================
