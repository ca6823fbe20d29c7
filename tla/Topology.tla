------------------------------ MODULE Topology ------------------------------
(***************************************************************************)
(* Topologies: the fat tree that FattreeTopoHelper                         *)
(* (utils/fattree-topo-helper.cc) writes, the file P4TopologyReader        *)
(* (model/p4-topology-reader.cc) reads, and the ports that the links get   *)
(* when a program installs them (examples/p4-topo-fattree.cc).             *)
(*                                                                         *)
(* A file is a record: the numbers of its first line (switches, hosts and  *)
(* declared, the number of links), its other lines, and whether the last   *)
(* of them ends with a newline.  A line is a link, a network function of a *)
(* switch, or neither.  Switches are 0 .. switches - 1 and hosts follow.   *)
(* Ports are numbered from 1 here and from 0 in the code.                  *)
(***************************************************************************)
EXTENDS Integers, Sequences, SequencesExt

Link(from, fromType, to, toType) ==
  [kind |-> "link", from |-> from, fromType |-> fromType, to |-> to, toType |-> toType]
NetworkFunction(s) == [kind |-> "function", switch |-> s]
BadLine == [kind |-> "bad"]

Upto(n) == [i \in 1 .. n |-> i - 1]     \* 0 .. n - 1 in order

(* What is taken for granted of a file: the letters in its links tell      *)
(* switches from hosts as their numbers do.                                *)
Letter(file, n) == IF n < file.switches THEN "s" ELSE "h"
IsFile(file) ==
  /\ file.switches \in Nat /\ file.hosts \in Nat /\ file.declared \in Nat
  /\ file.newline \in BOOLEAN
  /\ file.lines \in Seq(ToSet(file.lines))
  /\ \A line \in ToSet(file.lines) : line.kind = "link" =>
       /\ line.from \in Nat /\ line.to \in Nat
       /\ line = Link(line.from, Letter(file, line.from), line.to, Letter(file, line.to))

-----------------------------------------------------------------------------
(* FattreeTopoHelper::Build and Write: (podNum / 2)^2 core switches, then  *)
(* the aggregation switches pod by pod, then the edge switches, then the   *)
(* hosts.  Every core switch draws a start and links one aggregation       *)
(* switch of every pod, the next one from pod to pod.                      *)

Half(podNum) == podNum \div 2
CoreNum(podNum) == Half(podNum) * Half(podNum)
AggrIndex(podNum, pod, j) == CoreNum(podNum) + pod * Half(podNum) + j
EdgeIndex(podNum, pod, j) == 3 * CoreNum(podNum) + pod * Half(podNum) + j

(* The aggregation switch of a pod that a core switch links. *)
LinkedAggr(podNum, start, pod) == (start + pod + 1) % Half(podNum)

(* The links to core switches, which are traversed in order. *)
CoreLinks(podNum, starts, pod, j) ==
  LET after[c \in 0 .. CoreNum(podNum)] ==
        IF c = 0 THEN <<>>
        ELSE IF LinkedAggr(podNum, starts[c - 1], pod) = j
        THEN Append(after[c - 1], Link(AggrIndex(podNum, pod, j), "s", c - 1, "s"))
        ELSE after[c - 1]
  IN after[CoreNum(podNum)]

AggrLinks(podNum, starts, pod, j) ==
  [p \in 1 .. Half(podNum) |->
    Link(AggrIndex(podNum, pod, j), "s", EdgeIndex(podNum, pod, p - 1), "s")]
      \o CoreLinks(podNum, starts, pod, j)

EdgeLinks(podNum, pod, j) ==
  [p \in 1 .. Half(podNum) |->
    Link(EdgeIndex(podNum, pod, j), "s",
         5 * CoreNum(podNum) + pod * CoreNum(podNum) + j * Half(podNum) + p - 1, "h")]

(* One sequence from that of every switch of every pod, in order. *)
PerSwitch(podNum, Links(_, _)) ==
  FlattenSeq([i \in 1 .. podNum |->
    FlattenSeq([j \in 1 .. Half(podNum) |-> Links(i - 1, j - 1)])])

(* Faulty variant: the links of the core switches are not counted. *)
LinkNumWithoutCores(podNum) == 2 * podNum * CoreNum(podNum)

LinkNum(podNum) == 2 * podNum * CoreNum(podNum) + CoreNum(podNum) * podNum

FattreeFile(podNum, starts) ==
  [switches |-> 5 * CoreNum(podNum), hosts |-> podNum * CoreNum(podNum),
   declared |-> LinkNum(podNum),
   lines |-> PerSwitch(podNum, LAMBDA pod, j : AggrLinks(podNum, starts, pod, j))
               \o PerSwitch(podNum, LAMBDA pod, j : EdgeLinks(podNum, pod, j))
               \o [i \in 1 .. 5 * CoreNum(podNum) |-> NetworkFunction(i - 1)],
   newline |-> TRUE]

-----------------------------------------------------------------------------
(* P4TopologyReader::Read.                                                 *)

LinkLines(file) ==
  IF file.declared < Len(file.lines) THEN SubSeq(file.lines, 1, file.declared) ELSE file.lines
FunctionLines(file) == SubSeq(file.lines, file.declared + 1, Len(file.lines))

(* Faulty variant: the second counter is read and not increased. *)
CountFromOnly(counter, link) == [counter EXCEPT ![link.from] = @ + 1]

CountPorts(counter, link) ==
  [[counter EXCEPT ![link.from] = @ + 1] EXCEPT ![link.to] = @ + 1]

(* A line that is no link takes the place of one and is skipped; a link is *)
(* stored with the ports its ends have got so far.                         *)
ReadLink(acc, line) ==
  IF line.kind # "link" THEN acc
  ELSE [counter |-> CountPorts(acc.counter, line),
        links |-> Append(acc.links,
          [link |-> line, fromPort |-> acc.counter[line.from] + 1, toPort |-> acc.counter[line.to] + 1])]

(* The reader after each number of lines. *)
Reading(file) ==
  LET lines == LinkLines(file)
      after[k \in 0 .. Len(lines)] ==
        IF k = 0 THEN [counter |-> [n \in 0 .. file.switches + file.hosts - 1 |-> 0], links |-> <<>>]
        ELSE ReadLink(after[k - 1], lines[k])
  IN after

ReadLinks(file) == Reading(file)[Len(LinkLines(file))].links

(* A node exists if a link names it; the others are null pointers in the   *)
(* two containers of nodes that programs take from the reader.             *)
Created(links) == UNION {{links[i].link.from, links[i].link.to} : i \in DOMAIN links}
MissingSwitches(file, links) == (0 .. file.switches - 1) \ Created(links)
MissingHosts(file, links) == (file.switches .. file.switches + file.hosts - 1) \ Created(links)

(* An index past the vector of nodes, or of functions. *)
BadIndex(file) ==
  \/ \E i \in DOMAIN LinkLines(file) :
       LET line == LinkLines(file)[i]
       IN line.kind = "link" /\ ~({line.from, line.to} \subseteq 0 .. file.switches + file.hosts - 1)
  \/ \E i \in DOMAIN FunctionLines(file) :
       LET line == FunctionLines(file)[i]
       IN /\ i <= file.switches
          /\ \/ line.kind = "function" /\ line.switch >= file.switches
             \/ line.kind = "link" /\ line.from >= file.switches

(* ReadSwitchNetworkFunctions: as many lines as there are switches, where  *)
(* a link's line passes for a function.  Missing lines are an error unless *)
(* the end of the file was met before them: in the last line, when no      *)
(* newline ends it, or while links were still being read.                  *)
FunctionsRead(file) ==
  LET rest == FunctionLines(file)
  IN /\ \A i \in DOMAIN rest : i <= file.switches => rest[i].kind # "bad"
     /\ \/ Len(rest) >= file.switches
        \/ ~file.newline
        \/ file.declared > Len(file.lines)

-----------------------------------------------------------------------------
(* Installation: every link adds a device to the switches it joins, in the *)
(* order of the links, and each side notes what is at the other end.       *)

ToSwitch(s, port) == [flag |-> 1, node |-> s, port |-> port]
ToHost(h) == [flag |-> 0, node |-> h, port |-> 1]

HostNumber(file, n) == n - file.switches

AddPort(ports, s, end) == [ports EXCEPT ![s] = Append(@, end)]

InstallLink(file, acc, link) ==
  LET PortOf(s) == Len(acc.ports[s]) + 1
      Connect(s, t) ==
        [acc EXCEPT !.ports = AddPort(AddPort(acc.ports, s, ToSwitch(t, PortOf(t))), t, ToSwitch(s, PortOf(s)))]
      Attach(s, h) == [ports |-> AddPort(acc.ports, s, ToHost(h)),
                       home |-> [acc.home EXCEPT ![h] = [switch |-> s, port |-> PortOf(s)]],
                       error |-> acc.error]
  IN IF link.fromType = "s" /\ link.toType = "s" THEN Connect(link.from, link.to)
     ELSE IF link.fromType = "s" THEN Attach(link.from, HostNumber(file, link.to))
     ELSE IF link.toType = "s" THEN Attach(link.to, HostNumber(file, link.from))
     ELSE [acc EXCEPT !.error = TRUE]

NoHome == [switch |-> -1, port |-> 0]

(* What is installed after each number of links. *)
Installing(file, links) ==
  LET after[k \in 0 .. Len(links)] ==
        IF k = 0
        THEN [ports |-> [s \in 0 .. file.switches - 1 |-> <<>>],
              home |-> [h \in 0 .. file.hosts - 1 |-> NoHome], error |-> FALSE]
        ELSE InstallLink(file, after[k - 1], links[k].link)
  IN after

Install(file, links) == Installing(file, links)[Len(links)]
=============================================================================
