---------------------------- MODULE MCController ----------------------------
(* Two v1model switches, of which one may swap programs, and a switch of   *)
(* another architecture; ids 2^15 - 1 and 2^15 bound the mirroring range.  *)
EXTENDS Controller, TLC

CONSTANTS v1, v2, pna, k1, k2, h1, h2, none, old, new

MCSwitches == {v1, v2, pna}
MCV1Switches == {v1, v2}
MCSwapEnabled == {v2}
MCKeys == {k1, k2}
MCHandles == {h1, h2}
MCConfigs == {old, new}
Symmetry ==
  Permutations(MCKeys) \cup Permutations(MCHandles) \cup Permutations(MCConfigs)
(* Five calls are a member, a group that holds it, an entry that refers to *)
(* the group, and two more with handles in use or stale; the other tables  *)
(* and the arrays have no chain of references.                             *)
MCMaxRegistered == ("indirect" :> 1) @@ [f \in {"flow", "arrays", "state"} |-> 2]
MCMaxCalls == ("indirect" :> 5) @@ ("state" :> 4) @@ [f \in {"flow", "arrays"} |-> 3]
MCSessions == {2^15 - 1, 2^15}
=============================================================================
