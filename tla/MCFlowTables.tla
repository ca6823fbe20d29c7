---------------------------- MODULE MCFlowTables ----------------------------
(* The programs of examples/; fat trees of two and of four pods with every  *)
(* draw of the core switches; and files written by hand: trees, rings and   *)
(* islands with their links in either direction and a line that is none,    *)
(* and files that lack lines or nodes.                                      *)
EXTENDS FlowTables, ExamplePrograms

NoTable(f) == "forward" :> [s \in SwitchesOf(f) |-> [h \in HostsOf(f) |-> {}]]

Built(f, podNum, starts, buildType, pairs) ==
  [file |-> f, podNum |-> podNum, starts |-> starts, buildType |-> buildType, tables |-> NoTable(f),
   arp |-> "forward", flows |-> {Flow(p[1], p[2], "forward") : p \in pairs}, route |-> <<>>, foreign |-> FALSE]

Fattree(podNum, starts, pairs) ==
  Built(FattreeFile(podNum, starts), podNum, starts, "fattree", pairs)

(* Between hosts of two pods, which every draw of the core switches may     *)
(* send another way; of an edge switch and of a pod, which no core switch   *)
(* sees; and two flows that meet in their tables.                           *)
FarPair == {<<9, 4>>}
NearPairs == {{<<0, 1>>}, {<<1, 3>>}}
MeetingPairs == {<<0, 15>>, <<1, 15>>}
MixedStarts == (0 :> 0) @@ (1 :> 1) @@ (2 :> 1) @@ (3 :> 1)

(* Two switches with two hosts each; three in a row or in a ring with a     *)
(* host each.                                                               *)
Dumbbell ==
  <<Link(2, "h", 0, "s"), Link(0, "s", 3, "h"), BadLine, Link(0, "s", 1, "s"),
    Link(1, "s", 4, "h"), Link(5, "h", 1, "s")>>
Row == <<Link(3, "h", 0, "s"), Link(0, "s", 1, "s"), Link(1, "s", 2, "s"),
         Link(4, "h", 1, "s"), Link(2, "s", 5, "h")>>
Ring == Row \o <<Link(2, "s", 0, "s")>>

(* Four switches, all joined to all but one pair, with a host each. *)
Mesh ==
  [i \in 1 .. 4 |-> Link(i - 1, "s", i + 3, "h")]
    \o <<Link(2, "s", 0, "s"), Link(1, "s", 2, "s"), Link(3, "s", 0, "s"), Link(0, "s", 1, "s"), Link(2, "s", 3, "s")>>

(* A row of two switches, and a third switch that no switch is joined to;  *)
(* the row's link comes second or, for the misses to circle on it, first.  *)
Islands == SubSeq(Row, 1, 2) \o SubSeq(Row, 4, 5)
IslandsLinkFirst == SubSeq(Row, 2, 2) \o SubSeq(Row, 1, 1) \o SubSeq(Row, 4, 5)

ByHand(f, buildType) ==
  Built(f, 0, <<>>, buildType, {<<i, j>> \in HostsOf(f) \X HostsOf(f) : i # j})

(* Stored tables for the islands: a miss drops. *)
StoredIslands ==
  Stored(File(3, 3, 4, Islands \o NetworkFunctions(3), TRUE),
         "ipv4" :> Rows(<<<<{0}, {1}, {}>>, <<{0}, {1}, {}>>, <<{}, {}, {0}>>>>),
         "ipv4", {Flow(i, j, "ipv4") : i \in 0 .. 1, j \in 1 .. 2})

Whole ==
  {ByHand(File(2, 4, 6, Dumbbell \o NetworkFunctions(2), TRUE), buildType) : buildType \in {"default", "silkroad"}}
    \cup {ByHand(File(3, 3, 5, Row \o NetworkFunctions(3), FALSE), "default"),
          ByHand(File(3, 3, 6, Ring \o NetworkFunctions(3), TRUE), "default"),
          ByHand(File(4, 4, 9, Mesh \o NetworkFunctions(4), TRUE), "default"),
          ByHand(File(3, 3, 4, Islands \o NetworkFunctions(3), TRUE), "default"),
          StoredIslands,
          ByHand(File(3, 3, 4, IslandsLinkFirst \o NetworkFunctions(3), TRUE), "default")}

(* Network functions are missing; a host too few or too many; a number of  *)
(* links that is not that of the lines; a link between hosts.              *)
Broken ==
  {ByHand(File(3, 3, 5, Row \o NetworkFunctions(k), newline), "default") : k \in 0 .. 2, newline \in BOOLEAN}
    \cup {ByHand(File(3, h, 5, Row \o NetworkFunctions(3), TRUE), "default") : h \in {2, 4}}
    \cup {ByHand(File(3, 3, d, Row \o NetworkFunctions(k), TRUE), "default") : d \in {0, 3, 4, 6}, k \in {0, 3}}
    \cup {ByHand(File(3, 3, 6, Row \o <<Link(3, "h", 4, "h")>> \o NetworkFunctions(3), TRUE), "default")}

MCPrograms ==
  {Fattree(2, (0 :> 0), {<<0, 1>>, <<1, 0>>})}
    \cup {Fattree(4, starts, FarPair) : starts \in [0 .. 3 -> {0, 1}]}
    \cup {Fattree(4, MixedStarts, pairs) : pairs \in NearPairs \cup {MeetingPairs}}
    \cup Whole \cup Broken \cup Examples
=============================================================================
