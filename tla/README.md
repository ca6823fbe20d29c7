# P4Simulator: TLA+ verification project

P4Simulator is an ns-3 module that puts P4-programmable switches into network
simulations: the BMv2 library executes the P4 program, and the code of this
repository supplies what surrounds it — the buffers between the pipelines, the
timers, the fate of every packet (drop, clone, resubmit, recirculate,
replicate, send), the net devices, links and headers that carry packets in and
out, and a controller that configures the switches. This project models that
surrounding code, checks the models with TLC on small instances, and proves
their main invariants with TLAPS for every value of the constants.

Paths below are relative to the repository's root.

## 1. Inventory

### The system's parts

| Part | Code | State | Operations |
|---|---|---|---|
| Egress buffer | `utils/p4-queue.h`, `NSQueueingLogicPriRL` | for each port and priority a size, capacity, delay and `last_sent`; one size per port and one per worker; one `priority_queue` per priority; `wrapping_counter`; defaults for queues to come | `push_front`, `pop_back`, six `set_capacity*`/`set_rate*` calls |
| Input buffer | `utils/p4-queue.h`, `InputBuffer` | two bounded queues | `push_front` (high: drop when full, low: wait), `pop_back` (high first) |
| v1model core | `model/p4-core-v1model.cc` | the two buffers, the egress timer, `m_firstPacket`, multicast and mirroring tables | `ReceivePacket`, `HandleIngressPipeline`, `Enqueue`, `MulticastPacket`, `HandleEgressPipeline`, `SetEgressTimerEvent`, queue configuration, runtime table API |
| PSA core | `model/p4-core-psa.cc` | one input queue, egress buffer, timer | the same, with PSA metadata and a recirculation port |
| PNA NIC | `model/p4-nic-pna.cc` | one input buffer | `ReceivePacket`, `main_processing_pipeline` |
| Pipeline core | `model/p4-core-pipeline.cc` | none | one synchronous pass |
| Core base | `model/p4-switch-core.cc` | `m_destinationList`, `m_addressMap`, mirroring sessions | address table, mirroring API, program loading |
| Packet registers | `utils/register-access-v1model.h` | four 64-bit registers of each packet, split into fields | getters, setters, `clear_all` |
| Switch net device | `model/p4-switch-net-device.cc` | ports, the core | `AddBridgePort`, `ReceiveFromDevice`, `SendNs3Packet`, `SendFrom` |
| Point-to-point device, channel | `model/custom-p2p-net-device.cc`, `model/p4-p2p-channel.cc` | transmit machine, current packet, device queue; two links | `SendFrom`, `TransmitStart`, `TransmitComplete`, `Receive`, `Attach` |
| Custom headers | `model/custom-header.cc`, `model/custom-p2p-net-device.cc:232-704` | fields, layer, offset | `AddHeader`, `ProcessHeader`, `RestoreHeaders` |
| Dummy switch | `model/dummy-switch-net-device.cc`, `model/dummy-switch-port.cc` | ports, forwarding choice | `AddPort`, `ReceiveFromPort`, `SendToPort`, `SendFrom` |
| Controller | `model/p4-controller.cc` | the registered switches | table, action-profile, counter, meter, register, value-set and program calls by switch index |
| Runtime interface | `model/p4-core-v1model.cc:865-1814` | the tables of the switch, in BMv2 | one wrapper for each call of the controller |
| Action primitives | `utils/primitives-v1model.h` | the packet's PHV and register 0 | one class for each primitive |
| Topology | `utils/fattree-topo-helper.cc`, `model/p4-topology-reader.cc`, `helper/p4-helper.cc`, `helper/p4-p2p-helper.cc` | the links read, a port counter for each node | write a fat tree, `Read`, install links and switches |
| Flow table builder | `helper/build-flowtable-helper.cc` | entries for each switch | default (depth-first search), fat tree, silkroad |
| Examples | `examples/*.cc`, `examples/p4src/*/` | topologies, stored tables, flows | `main` |

### How they interact

A packet reaches `P4SwitchNetDevice::ReceiveFromDevice` from the port's own
device as a call within a simulator event. The net device converts it and calls
`ReceivePacket` of its core, in the same event; that call pushes the packet
into the input buffer and calls the ingress pipeline, whose P4 program decides
its fate; the core enqueues it, or copies of it, in the egress buffer. A timer
event of the core polls the egress buffer, runs the egress pipeline on what it
gets and calls back `SendNs3Packet`, which hands the packet to the port's
device. That device queues it, transmits it for as long as the link's rate
says, and the channel schedules its reception at the other end. The controller
calls into the cores between events.

Before any of this a program reads or generates a topology file, installs
links and switches in the order of its lines, builds flow tables from the
result or takes stored ones, and gives each switch its P4 program and its table
file, which `DoInitialize` loads when the simulation starts. The numbers of
ports are agreed upon by nobody: reader, program, table and net device count
for themselves.

Everything runs in one thread: ns-3 events interleave, they never overlap. The
code nevertheless inherits locks, condition variables and a sentinel from the
multi-threaded BMv2 targets; a wait on one of those conditions is a hang.

### Where it is hard

* **Ordering.** Elements of all ports share one heap per priority. Whether the
  packets of a class stay in order depends on the release times and a
  tie-break, under rate changes. Clones, replicas, resubmitted and
  recirculated packets mix with the packets they come from.
* **Bookkeeping.** Three levels of unsigned sizes decide whether a poll looks
  into the queues at all.
* **Time.** Release times are computed at push time from a clock per class that
  runs ahead of simulated time; rates may change in between.
* **Two queues, one call.** `ReceivePacket` pushes one packet and the ingress
  pipeline pops one packet: not necessarily the same.
* **Blocking.** `push_front` into `queue_lo` waits for room in a program that
  has nobody to make any.
* **Liveness.** The egress is driven by a timer and by extra polls, through a
  gate that asks only some ports whether there is anything to send.
* **Stale references.** A packet carries an index into a list that grows;
  copies lose it.
* **Links.** The transmit machine, its device queue and the interframe gap.
* **Headers.** A packet is given, and relieved of, Ethernet and custom headers
  by four parties that each assume what the others did.
* **Flooding.** A packet becomes many, whose ways cross while ports go down.
* **Handles.** The caller of the controller keeps handles, and names switches
  by their position in a list; cores exist only after the start, and only for
  one architecture.
* **Tables and ports.** Topology file, port numbers, tables and traffic come
  from different places and have to fit; a mistake shows only as packets that
  do not arrive.
* **Randomness.** Fat-tree wiring and uplinks are drawn with `rand()`.

The list with lines is `hazards` in PROJECT.json.

### What makes each part correct

* *Egress buffer*: sizes equal contents; a FIFO per class; no class exceeds
  its rate; no packet is parked; priorities are served strictly.
* *Input buffer and cores*: between events nothing is left behind in the input
  buffer; nothing blocks; packets of a class leave in order; what is enqueued
  for a polled port is sent; a packet goes to the address it came for.
* *Packet registers*: fields do not disturb each other; a value that fits is
  read back.
* *Net device, links*: a link delivers what it accepted, once and in order; the
  transmitter never idles with packets queued; a flood reaches every port but
  the ingress port.
* *Headers*: restoring undoes adding.
* *Controller*: a call affects the switch it names only, or reports failure;
  a call does what its documentation says.
* *Action primitives*: values keep to the width of their fields; the length
  register follows the headers.
* *Topology and tables*: all parties count ports alike; the tables lead every
  packet to its destination, and nowhere else, on every connected topology;
  the traffic of a program arrives.

## 2. Modules

| Module | Models | Relation to the code |
|---|---|---|
| `ClassFifos` | what an egress buffer promises, and what a link promises | abstract: tickets waiting in classes, pushed in order, popped oldest first within a class |
| `EgressBuffer` | `NSQueueingLogicPriRL` | one action per operation |
| `EgressBuffer_proofs` | | its theorems |
| `MCEgressBuffer` | | its instance for TLC |
| `SwitchCore` | the address table of `P4SwitchCore`; `Enqueue`, `MulticastPacket`, mirroring and the poll gate, which both cores share | operators, extended by the cores' modules |
| `V1Switch` | `P4CoreV1model`, `InputBuffer` | one action per event handler, `ReceivePacket` and the ingress call it makes as two steps of one event |
| `V1Switch_proofs` | | its theorems |
| `MCV1Switch` | | its instance for TLC |
| `PsaSwitch` | `P4CorePsa` | one action per event handler and per outcome of an ingress pass |
| `PsaSwitch_proofs` | | its theorems |
| `MCPsaSwitch` | | its instance for TLC |
| `P2PLink` | two `CustomP2PNetDevice`s and their `P4P2PChannel` | one action per call and per scheduled event |
| `P2PLink_proofs` | | its theorems |
| `MCP2PLink` | | its instance for TLC |
| `RuntimeApi` | the wrappers of `P4CoreV1model` around BMv2's run-time interface | one operator per wrapper, from the state of a switch to the outcome |
| `Controller` | `P4Controller` | one action per group of methods, each a choice among the calls |
| `Controller_proofs` | | its theorems |
| `MCController` | | its instance for TLC |
| `MeterIndex` | a program that uses the controller's meter calls with an index | `Controller` with what was asked for last, compared with the header |
| `MCMeterIndex` | | its instance for TLC |
| `CustomHeaders` | `CustomHeader`, header processing of `CustomP2PNetDevice` | operators on sequences of headers and on bits |
| `Fabric` | `P4SwitchNetDevice`, `DummySwitchNetDevice`, `DummySwitchPort`, `P4CorePipeline`, `P4PnaNic`, `P4P2PChannel::Attach`, the install helpers | one action per installation step, call and scheduled event |
| `Fabric_proofs` | | its theorems |
| `MCFabric` | | the networks that TLC runs |
| `Topology` | `FattreeTopoHelper`, `P4TopologyReader`, the programs' port counting | operators from numbers to files, from files to links, from links to ports |
| `FlowTables` | `BuildFlowtableHelper`, the course of an example program, `P4TopologyReaderHelper` | one action per stage of `main`, one per hop of a packet |
| `FlowTables_proofs` | | theorems about both |
| `ExamplePrograms` | the programs of `examples/` and the files they load | one record per program |
| `MCFlowTables` | | the programs and files that TLC runs |
| `PacketRegisters` | `RegisterAccess` | operators on 64-bit registers |
| `ActionPrimitives` | `primitives-v1model.h` | one action per primitive |
| `ActionPrimitives_proofs` | | theorems about both |

`V1Switch` and `PsaSwitch` extend `SwitchCore` and use a FIFO per class for the
egress buffer, which is what `EgressBuffer` is proved to implement. `P2PLink`
refines the same `ClassFifos`, with a class for each direction. `Controller`
extends `RuntimeApi` and `MeterIndex` extends `Controller`, `Fabric` extends `CustomHeaders`, `FlowTables` extends
`Topology`, `ActionPrimitives` extends `PacketRegisters`. `Fabric` takes a
queued core as a bag of packets: which packet comes first, and what becomes of
it inside, is what `V1Switch` and `PsaSwitch` say.

### EgressBuffer

`info[<<q, p>>]` is `QueueInfoPri` of port `q`, priority `p`; `q_size` and
`w_size` are the port's and the worker's `size`; `known` is the domain of
`queues_info`, to which `get_queue` adds a port the first time any call names
it, with the defaults (`capacity`, `queue_rate_pps`) and the clock of that
moment. The cores construct the buffer with one worker, so one set `queues` of
elements stands for that worker's array of `priority_queue`s: the element a
queue would return is the one `QEComp` puts on top (`IsTop`), and `pop_back`
serves the highest priority whose top is due (`IsServed`). Packets are told
apart by `wrapping_counter`, which the code uses for the same purpose.

`PushFront`/`PushFrontFull` are `push_front` with and without room, `PopBack`
is `pop_back` when something is due; the six `Set...` actions are the
configuration calls. `Tick` is time passing between events: nothing in the
buffer happens at a time of its own, so any interleaving of calls and ticks is
possible for some caller. Rates keep the code's meaning: the delay is the
integer division of a second by the rate, and a rate of 0 is one packet per
millisecond. `now`, `MaxPushes` and `MaxCalls` are bounds of the model only.

Left out: the read-only queries (`size`, `get_next_tp` as a public query), and
the alternative `push_front` overload that passes a copy, which does the same.

### V1Switch

`queue_hi` and `queue_lo` are the input buffer's queues; `phase` says where the
current event is: `idle` between events, `ingress` between `ReceivePacket`'s
push and the end of the ingress call, `blocked` when that push waits for ever.
`queues` abstracts the egress buffer to the FIFO per class that
`EgressBuffer` is proved to implement: a poll may serve any non-empty class,
which covers every release time, rate and priority. `destinations` is
`m_destinationList`; a packet's `address` is the index into it which
`ReceivePacket` writes to the packet's `ns_address` register. `wire` is what
the last step handed to the net device. `intact`, `hops`, `newest`,
`recirculated`, `received` are history: whether a packet was ever copied, how
often it was resubmitted or recirculated, and what was sent last.

The P4 program is a *verdict*: each pipeline pass may return any element of
`IngressVerdicts` or `EgressVerdicts`, the fields the core reads afterwards.
The actions follow `HandleIngressPipeline` and `HandleEgressPipeline` in the
order of the code: clone, then resubmit, then multicast, drop or enqueue; poll
gate, pop, clone, drop, recirculate, send. Each replica is a packet with
cleared registers, so with address index 0.

`RegistersSet` is FALSE for the primitives of `utils/primitives-v1model.h`.
These write the P4 program's metadata (PHV fields), while the core reads the
requests to clone, resubmit, recirculate and to learn from the packet
*registers*, which nobody writes: with them those four requests are never seen.
TRUE stands for primitives that set the registers, which is what the core was
written for; both are checked.

`EgressTimerServes`/`EgressTimerIdles` are the periodic timer event with and
without a packet served; `ExtraPollServes`/`ExtraPollIdles` the poll that an
idle timer event schedules 10 ns later once any packet was served.

### PsaSwitch

The PSA core differs in what decides a packet's fate (PSA metadata instead of
registers, so every request of the program reaches the core), and in control:
there is one input queue; a packet is dropped unless the program says
otherwise, but its clone is enqueued all the same; a resubmitted packet is
pushed and `HandleIngressPipeline` called again within the ingress call;
recirculation is a matter of the egress port and calls the ingress pipeline
from within the egress event. `phase` is `ingress` while an ingress call is to
come or under way, so one event is `Receive` or `Serve` and then as many
`Ingress...` steps as there are calls.

The PSA core sets no register of a copy. What the BMv2 library leaves in them
is not known from this repository, so the address a copy is sent to is left
open (`SentTo`). `MaxHops` bounds how long the P4 program keeps sending
copies of copies.

### P2PLink

For each device `tx_state`, `current` and `queue` are `m_txMachineState`,
`m_currentPkt` and `m_queue`. `TransmitStart` schedules two events, the
device's `TransmitComplete` and the other device's `Receive`; `events` holds
them with the time each is away (`in`) and its number in the order of
scheduling (`uid`), which decides among events of the same time as ns-3's
scheduler does. `SendFromIdle` and `SendFromBusy` are the two ways `SendFrom`
goes when the queue has room (without room it changes nothing); `TransmitNext`
and `TransmitIdle` are `TransmitComplete`; `SetDataRate` and
`SetInterframeGap` may come at any time, between any two events. `Tick`
brings all events one tick nearer. `tx` and `gap` of an event are history: what
its packet was started with.

Headers that `SendFrom` adds and `Receive` removes do not change the order of
anything; sizes are those on the wire. The error model's verdict and the call
of the stack's callbacks end an arrival alike.

### RuntimeApi and Controller

The state of a switch (`Fresh`) is what BMv2 keeps for it: a direct table, an
indirect one and one with a selector, members and groups of an action profile,
a counter, a meter and a register array, a value set, mirroring sessions, the
running and the loaded program. An operator of the name of each wrapper gives
the result code, the state and what is handed out; which free handle is handed
out is left open. Unknown names and stale handles fail, as the wrappers rely on
the library to report; what is in use cannot be deleted. `ResetState` keeps the
mirroring sessions, which live in the core and not in the library;
`SwapConfigs` exchanges no program, because nothing ever completes the swap.

`Controller` has the part every method shares: `OutOfRange`, the core pointer,
the outcome. `pointer` starts as `null` or `wild`, since no constructor sets
it, and becomes `core` in `Start` for the v1model architecture only. A use of a
wild pointer is `crashed`. `last` is the result of the last call. `family`
restricts what one program uses (flow tables; indirect tables; arrays; state),
so that the state space stays that of one family at a time.

`MeterIndex` is a program of its own, which makes the three meter calls with an
index and nothing else. It keeps the last request, since in `Controller` a call
that failed does not show what was asked of it, and compares each outcome with
that of `MeterSetRates`, `MeterGetRates` or `MeterResetRates`, the functions of
the core that do what the header says.

### CustomHeaders and Fabric

A packet is the sequence of its headers. `AddHeader` puts the custom header
before, after or in place of a layer's header and changes the protocol fields
around it; `ProcessHeader` with the parser and `RestoreHeaders` is what the
receiving device makes of the result. An outcome is `received`, `lost`, `stops`
(an assertion, or reading past the end) or `hangs`: protocol number 1 is both
ICMP and the parser's sign for Ethernet, which is not consumed. What is parsed
as a header it is not is `Garbage`, and its outcome open. A custom header's
fields go through bits and bytes as `Serialize` and `Deserialize` do it.

`Fabric` is parameterised by a set of networks, records of hosts, switches,
links in the order of installation, ports in the order they are added, medium,
channel type, programs and traffic. `WellFormed` says which records are
networks: a device is attached to one link, a host has one, every device of a
switch's node is added to it once, ports taken down exist, a P4 program has
some outcome for the ingress port it sees. Installation is part of the
behaviour, because the numbers of ports depend on its order. `Deliver` is the receive
event of a device, and through the protocol handler the whole of
`ReceiveFromPort` or `ReceiveFromDevice`, with the pipeline core's synchronous
pass in the same step; `CoreSends` is the egress event of a queued core. A P4
program is the set of egress ports for each ingress port it sees, which is the
ingress port `GetPortNumber` reports, always 0.

### Topology, FlowTables and ExamplePrograms

`FattreeFile` is the file that `FattreeTopoHelper` writes, `ReadLinks` what
`P4TopologyReader` makes of a file: the numbers of the first line, lines that
are links and lines that are not, port counters, network functions. `Install`
is the second counting, in the programs, when devices are created.

`IsFile` and `IsProgram` say what is taken for granted of a file (the letters
of a link tell switches from hosts as the numbers do) and of a program (stored
tables and routes name ports that the switches have). `IsFattree` says of a
program with the fat-tree builder that its file is the generated one, for an
even number of pods, or for one, where the tree is empty: with any other odd
number `FattreeTopoHelper::Build` writes past the end of its vector of switches,
and there is no file. Loops over sequences (`CoreLinks`, `Reading`, `Installing`,
`AddEntriesAlong`, `VisitPorts`, `DefaultEntries`) are recursive functions of the
number of elements done.

`FlowTables` follows `main` through its stages (`phase`): reading, installing
links, building tables, installing switches, running; each of them may end in
`refused` or `crashed`. `DefaultEntries` is the depth-first search with its
stack of passed switches (`passed`), the set of recorded ones and the shared
table of pairs (`linked`). `Dfs` recurs over the depth of a call: `MaxDepth`,
twice the number of switches and one, is never reached, since each call records
the switch it goes on from. `LinkCounter` is the code's condition for another
search: entries in the table of pairs, a pair of a host with itself counting
twice. `FattreePorts` is the fat-tree builder, where a drawn
uplink is a set of ports from which the first packet draws (`Hop` then fixes
it, so later packets follow the same draw). `CoreNum` draws of `rand()` are the
`starts` of a program, all of which the run covers. A packet in the network
goes hop by hop by the tables; a flow is an ARP request, its reply, and then
the data, as hosts do it. Where no entry matches, stored tables drop; the built
ones let the packet out at the switch's first port (see section 5), and a
request that circles is followed until it is back at a switch.

`ExamplePrograms` holds what `examples/` ships: each topology file, its stored
tables and the flows of `main`, transcribed. `foreign` marks tables that are
written for another P4 program than the one loaded, so that no row of them is
accepted.

### PacketRegisters and ActionPrimitives

A register is a number below 2^64; a getter is `(rv / shift) % 2^16`, a setter
replaces the lane. `ActionPrimitives` is one packet in a pipeline and one
action for every primitive: fields are naturals below their modulus, headers a
set of valid ones, register 0 the length that `add_header` and `remove_header`
keep. `add_header_fast` and `copy_header` leave the length alone, and the clone,
resubmit, recirculate and digest primitives write fields of the PHV.

## 3. Model checking

| Run | Module, configuration | What it shows |
|---|---|---|
| `egress_buffer` | `MCEgressBuffer` | sizes, rates, no parked packet and the refinement of a FIFO per class, under every interleaving of pushes, polls, reconfigurations and time |
| `v1_switch` | `MCV1Switch` | the core with the primitives of the tree: nothing stranded, reordered or misaddressed, and polled ports drain (that nothing blocks is `NeverBlocks`, proved) |
| `v1_registers` | `MCV1Registers` | the core with primitives that set the registers: packets are stranded, but only as far as recirculations account for it; a push hangs only after as many recirculations as the High size; the order of uncopied packets survives (types and addresses are proved for both kinds of primitives) |
| `psa_switch` | `MCPsaSwitch` | the PSA core with clones, drops, resubmission, multicast and recirculation: its input buffer is empty between events, originals are never duplicated, reordered or misaddressed, and polled ports drain |
| `p2p_link` | `MCP2PLink` | both directions of a link while rate and gap change: the transmit machine's assertions, no stranded packet, no overlap on the wire, the refinement of a FIFO per direction, and everything arrives |
| `controller` | `MCController` | any sequence of registrations, the start and controller calls with any index and any handle, stale or not: calls stay within the switch they name, and only a switch without a core makes a call crash |
| `fabric` | `MCFabric` | dummy switches in a tree, and one P4 switch of every architecture between two hosts, on CSMA and point-to-point links with custom headers in every place: floods arrive once, headers survive, crashes and hangs have one of the named causes |
| `flow_tables` | `MCFlowTables` | topology files, generated, written by hand, defective and shipped, through both builders or with stored tables, to traffic: packets arrive where their tables know the way, and the programs stop only for the named defects |
| `egress_priority` | `MCEgressPriority` | *violation*: priority 0 is not served first |
| `v1_destination` | `MCV1Destination` | *violation*: a replica is sent to the wrong address |
| `switch_ingress` | `MCSwitchIngress` | *violation*: a packet sent back to the port it came from leaves through port 0 |
| `meter_index` | `MCMeterIndex` | *violation*: setting the rates of one index of a meter fails and sets nothing |

### The properties

* `SizesAgree`, `TypeOK` — all three sizes equal the contents and never go below
  zero; an unsigned size that is decremented once too often, or not at all,
  makes a class full for ever or strands its packets.
* `ImplementsFifos` — the shared heap is one FIFO per class.
* `RateLimited` — a class has released at most as many packets as its fastest
  rate allows, whatever order calls and polls come in.
* `DueSoon` — the n-th packet of a class is due within n slowest packet times:
  neither a rate lowered and raised again nor drops push release times away.
* `StrandedByRecirculation`, `BlockedByRecirculation` — packets left in the
  input buffer between events, and hangs, are exactly the fault of
  recirculation, which pushes into the buffer without a call that pops. A hang
  takes `InputBufferSizeHigh` recirculations, not `InputBufferSizeLow`: the
  constructor gives the High size to the queue of received packets.
* `SentInOrder` — uncopied packets of a class leave in the order received.
* `DestinationKept` — an uncopied packet goes to its address, while the address
  table fits the 16 bits of its index.
* `PolledDrain` — the packets of every polled port are all sent in the end.
* `InputDrained` — the PSA counterpart of the two recirculation properties:
  here every push is followed by its own ingress call, so nothing is stranded
  and nothing blocks.
* `OneOriginal` — no path through clone, drop, resubmit, multicast,
  recirculate makes two of one original packet.
* `OneTransmission` — the assertions in `TransmitStart` and
  `TransmitComplete`, and why they hold: a busy device waits for exactly one
  completion, that of `m_currentPkt`.
* `NeverIdle` — no packet waits in `m_queue` of a device that is `READY`;
  nothing else would start it.
* `NoOverlap` — packets of a direction keep their transmission times and the
  gap apart on the wire, with what was set when each of them started.
* `AllArrive` — both directions drain.
* `CallIsContained` — after the start, a switch's run-time state changes only by
  a successful call that names it; a failing call changes nothing.
* `CrashOnlyWithoutCore` — no index crashes the program, nor does a switch whose
  core exists; a pointer that was never set does.
* `OneCellAddressed` — the calls by meter and index act on one cell, as the
  header says; they do not, they reach the functions for tables instead.
* `FloodOnce`, `FloodArrives` — in a tree of dummy switches every node gets a
  packet at most once and never its own, whichever ports go down and up; with
  all ports up, everything reaches all it is addressed to.
* `HeadersRestored` — what a host's protocols receive is header for header what
  was sent, for the placements of a custom header that the receiver undoes and
  the supported channel types.
* `StopsExplained` — crashes and hangs have one of the named causes: a port the
  switch does not have, a full PNA buffer, a custom-header device that receives
  ARP, ICMP, or a header it does not expect.
* `PortsAgree` — the reader's and the program's port numbers agree at both ends
  of every link, whatever lines are missing or malformed.
* `RoutesReach` — tables lead every packet to its destination, never through a
  switch twice, whichever uplinks were drawn; without a way nothing arrives.
* `TrafficArrives` — the data of a flow reach its receiving application, after
  an ARP request and its answer. The two flows of `p4-firewall.cc` whose senders
  address another host than the one their sink is on are excepted (section 5).
* `CrashExplained` — the fat-tree builder divides by zero exactly when the core
  switches' draws leave out a residue.

### Bounds, and why they suffice

*Egress buffer.* Two ports and two priorities make elements of different
classes meet in the same heap, and in different heaps of the same port. Three
packets fill a class of capacity 2, or put two into one class and a third into
another. Half-millisecond ticks make 1000 pps (and rate 0) two ticks and
2000 pps one tick: a packet delayed by the slow rate can be followed by one
delayed by the fast rate, which must not overtake it; four ticks see two slow
packets out. (Delays of 0, at rates above 10^9 pps, are left to the proofs.) Two configuration calls
allow a rate or capacity to be changed twice, or both. Ports are symmetric.

*Switch.* Ports 1 and 8 are the last kind that is polled and the first that is
not; priority 2 is out of range. Two addresses (one with primitives that set the
registers, whose run asks for no address) and three received packets; `queue_hi`
has one place (Low) and `queue_lo` two (High), so that it shows which size is
whose; egress classes of two places overflow under multicast and clones.
`MaxHops` bounds how often one packet is resubmitted or recirculated. With one,
two different packets have to be recirculated before the two places of
`queue_lo` are taken and the next push hangs; the second of them is the packet
that the first left stranded, and it takes five received packets to come so
far. Multicast of what is not a clone is left to the run without the registers. Group 2 and session 3 are not configured.

*PSA switch.* Two received packets, as two are enough to be out of order or
misaddressed, and two hops: one packet can be resubmitted and recirculated, or
cloned twice. Port 9 is the recirculation port, which is not polled. The input
queue has one place, the least that never blocks; that none blocks is the
property.

*Link.* Four packets and queues of two: one is transmitted, two wait, the
fourth is dropped or waits later. A delay of two ticks lets two packets be on
the wire. Byte times of 0 and 1 and sizes of 1 and 2 give transmission times of
0 to 2, so a packet sent at the fast rate follows one sent at the slow rate;
with a gap of 0 as well, completions and arrivals fall on the same instant.
One change of rate or gap at any moment.

*Controller.* Two v1model switches, one of which may swap programs, and a PNA
switch; two registrations put the same switch under two indexes, or one that
was never initialised beside one that was, and leave indexes past the end.
`MaxRegistered` and `MaxCalls` bound each group of operations by itself: three
or four calls suffice for the direct table, the arrays and the whole switch;
the action profile has a chain of references, and five calls add a member and a
group, join them, refer to the group and delete either, on the one switch that
such a program registers. (What the library does about references in use is the
model's assumption, and no property.) Two keys, handles,
configurations, values and cells distinguish the named one from the other;
mirroring ids 2^15 − 1 and 2^15 are the last that fits and the first that does
not. Keys, handles and configurations are symmetric. For `meter_index` one
switch with a core and one without, two cells and an index past them, and two
calls suffice.

*Fabric.* Two frames cross or follow one another. The tree has a switch with
three ports, added in another order than its devices are numbered, so that
device and port numbers differ, and two managed ports to go down and up. Each
P4 architecture is between two hosts, with egress ports that exist, that do not
exist and that drop; the PNA buffer has one place. Custom headers have two
fields that are not whole bytes, at layers 2 to 5 (5 is none) with all three
placements, and destination ports inside and outside the range. TLC also
evaluates, for each of these networks, what the proofs suppose: that it is well
formed, has no cycle, and that its devices' settings match where headers are to
be restored.

*Flow tables.* Fat trees of two pods and of four pods with all 16 draws; flows
across pods for every draw, within an edge switch, within a pod and two that
meet in their tables for one (`MaxFlows` = 2). Six pods would have 45 switches and 3^9 draws,
without a new kind of path. Files by hand: two switches with two hosts each, a
row, a ring, four switches joined all but one pair, and an island, whose tables
are stored or built with the row's link first or last, with links in either
direction and a line that is none; missing network functions, with
and without a last newline; a host too many or too few; a number of links that
is not that of the lines; a link between hosts. All ordered pairs of hosts
talk. And the eleven examples that bring files of their own.

The violation run of the egress buffer and the one of the v1model switch use
the same bounds (with one configuration call).

`CHECK_DEADLOCK FALSE` is used in all runs, because the bounds on packets, time
and calls let a behaviour end.

### Fairness

`FairSpec` of `V1Switch` assumes weak fairness of two actions.
`WF_vars(Ingress)`: the ingress call is running code that returns.
`WF_vars(EgressServes)`: the timer event reschedules itself unconditionally, so
polls never stop, and a poll that can serve a packet serves one as soon as one
is due, which `DueSoon` bounds. Receptions and idle polls are not fair: nothing
forces a packet to arrive. Fairness does not apply after a hang (`blocked`),
nor to ports of 8 and above, which the poll does not ask about.

`PsaSwitch` assumes the same, for the same code. `P2PLink` assumes
`WF_vars(Run)` and `WF_vars(Tick)`: `Simulator::Run` executes the next event
as long as there is one, and the clock moves when none is due. No fairness is
assumed of the callers.

`Fabric` assumes weak fairness of `Progress`, some delivery on a CSMA network
(the scheduler executes the events it has; not of each end, as it need not be
fair among them: frames are finite, so all are delivered), and of `CoreSends`,
the timer event of queued cores. `FlowTables` assumes that a packet in a switch
is forwarded or dropped, `WF_vars(Drop \/ Hop)`, an event that is scheduled
when the packet arrives. Beginning a flow, taking ports down and the stages of
`main` are not fair. `Controller` states safety only.

## 4. Proofs

No constant is bounded in the proofs. They assume what the modules assume of
their constants, and TLC evaluates on every run: `ConstantsAssumption`,
`CoreAssumption`, `RuntimeAssumption`, `ControllerAssumption`,
`FabricAssumption`, `FlowTablesAssumption`, `Layout` (the constants are naturals or sets of the right
kind, verdicts are records, groups and sessions name ports that exist, networks
and programs are well formed). Some theorems have a hypothesis of their own: `NeverBlocks`
that `RegistersSet` is FALSE and the input queue has a place,
`FloodOnceCorrect` that networks of dummy switches have no cycle,
`HeadersRestoredCorrect` and `StopsExplainedCorrect` that the settings of
devices with custom headers match, `RoutesReachHolds` that a program has its
tables built and, if by searches, that its links are plain (`PlainBuilt`).

### EgressBuffer_proofs

`Invariant` is inductive:
`TypeOK`, `SizesAgree`, `ReleaseOrder`, `KnownPorts`, `UniqueIds`.
`TypeOK` alone is not: that sizes stay natural numbers when `pop_back`
decrements them needs `SizesAgree` (an element in the heap is counted), which
needs that ids are unique (a new element is new) and finite cardinalities.
`ReleaseOrder` needs that an element belongs to a known port: `get_queue` would
otherwise reset `last_sent` below the release times of queued elements. From
it follow `TypeCorrect`, `SizesCorrect`, `ReleaseOrdered`, and
`BufferImplementsFifos`: every step of the buffer is a push, a pop of the
oldest packet of a class, or a stutter of `ClassFifos`. The element a heap
returns has the least (release time, id) of *all* ports; by `ReleaseOrder` it
then has the least id of its own class.

`TimingInvariant` is a second inductive invariant on top of the first, for the
two bounds on when packets are due. `Paced` gives the lower one: a class's
clock, `last_sent`, is at least as many of the fastest packet times from the
start as the class has released and still holds packets, and an element's
release time at least as many as were released or are not younger than it.
`RateLimited` says this of released packets only and is not inductive: a
release adds a packet to the count, and only what was known of it while it
waited bounds that. `Prompt` gives the upper one: the clock is at most as far
ahead of now as its packets at the slowest rate, and so is every release time,
*or* as far ahead of the release time of any older packet of the class. The
second alternative is what a release needs: the packets behind the released
one now count one less, and their bound is counted from its release time,
which has passed. A fastest and a slowest packet time exist among any number of
rates by `LeastNatural`, a least-number principle that follows from the order
of finite sets by inclusion. From it follow `RateAlwaysLimited` and
`AlwaysDueSoon`.

### V1Switch_proofs

Both cores rest on lemmas about what they share, `SwitchCore`: `Enqueue` and
`Mirror` keep the type and the capacity of every class and add at most one
packet behind those of a queue; entering an address keeps all indexes, and the
index fits the register while the table does.

`Invariant` is inductive: `TypeOK`, `StrandedByRecirculation`,
`BlockedByRecirculation`, `DestinationKept`, strengthened by `Located` (each
packet anywhere in the switch has an index that is in the address list, and if
it was never copied and the list fits, the index of its own address) and
`InputBounded` (during an ingress call the input buffer holds at most one
packet more than were recirculated, which is what an iteration of the pipeline
takes out). The theorems `TypeCorrect`, `StrandedOnlyByRecirculation`,
`BlockedOnlyByRecirculation`, `DestinationAlwaysKept` follow, and `NeverBlocks`
from the lemma that without register-setting primitives nothing is
recirculated.

`OInv` adds what `SentInOrderCorrect` needs. As in the PSA core a class sends
in order because its uncopied packets are queued in order and behind the last
one sent (`Aged`). But here packets may stay in the input buffer between events,
behind recirculated ones, so the newest packet is not the only one there:
`Waiting` says that those in `queue_lo` are in the order of reception and newer
than every uncopied packet in any class, or sent from one (`Below`); and
`queue_hi` holds copies only, so that what overtakes there has no order to
keep.

### PsaSwitch_proofs

`Invariant` is inductive: `TypeOK`, `InputDrained`, `DestinationKept`, with the
packets in all queues `Located`, and with what `OneOriginal` and `SentInOrder`
need. Neither is inductive: that an original is not enqueued beside itself
needs that a packet in the input buffer is in no class (`Incoming`) and that
one that was sent is in none (`Outgoing`); that a class sends in order needs
that its fresh packets are queued in order (`Ordered`) behind the last one sent
(`Numbered`), and that a fresh packet in the input buffer is newer than all of
them, which holds because `InputDrained` leaves none behind. Copies are handled
once: queues to which only copies are added (`Extends`) keep all of this.
From it follow `TypeCorrect`, `InputAlwaysDrained`, `OneOriginalCorrect`,
`DestinationAlwaysKept` and `SentInOrderCorrect`.

### P2PLink_proofs

`Invariant` is inductive: `TypeOK`, `OneTransmission`, `NeverIdle`,
`NoOverlap`, strengthened by `Uids` (event numbers are unique), `WireClear`
(when the transmitter becomes ready, or at once if it is, a packet started
then arrives after all that are on the wire), `WireOrder`, `WireBelow` and
`QueueOrder` (packets are on the wire and in the queue in the order of their
numbers). `NoOverlap` alone is not inductive: that a new packet does not
overlap those on the wire is `WireClear`, which in turn holds because the
completion was scheduled with the gap that was set when its packet started, and
not with the one set later. From it follow `TypeCorrect`,
`TransmissionsCorrect`, `NeverIdleCorrect`, `NoOverlapCorrect`, and
`LinkImplementsFifos`: `SendFrom` is an accept, `Receive` the release of the
oldest packet of its direction (the due event of least number, by `NoOverlap`
and `WireOrder`), everything else a stutter.

### Controller_proofs

`Inv` is inductive: the list of switches is well typed (`ListType`), the state
of every switch is `WellFormed`, `CoresExist` (after the start a v1model
switch has a core) and `CrashOnlyWithoutCore`. `WellFormed` holds, of one
switch, its type, that entries and defaults refer to members or groups that
exist and groups list members that exist (which is BMv2's doing, assumed in
`RuntimeApi`, and needed for the types of what entries refer to) and that the
cells of its meter are alike. None of these is kept without the others: a
member or group may go only if nothing refers to it, which has to be looked up
in maps of the right type. Each wrapper of `RuntimeApi` has one lemma, which says
that its outcome is `Sound`: a success leaves the state well formed, a failure
leaves it as it was. They rest on a lemma for each component that changes
(`TableUpdated`, `DefaultUpdated`, `MemberUpdated`, `GroupUpdated`,
`PlainUpdated`), so that a wrapper only shows what it adds or takes away.
From `Inv` follow `TypeCorrect`, `CrashOnlyWithoutCoreCorrect` and
`MeterCellsAlikeCorrect` (no call sets a single cell of a meter, which is what
the code does and not what the header says: section 5); `CallIsContainedCorrect`
is an action property, of the part every method shares.

### Fabric_proofs

`TInv` is the type invariant with `Installed`: what is installed so far agrees
with the network, both ends of a link know each other, a switch's ports are the
devices it was given in order (`AllAdded`), nothing runs before all is
installed; and with the bound on the NIC's buffer. `AllAdded` is about a fold, and
needs induction over the container: `Induction` is the principle for a *set* of
numbers, derived like `LeastNatural`, which the provers can apply.

`FloodOnce` speaks of a packet's copies all over the network. A network has no
cycle (`Forest`) if the nodes beyond each end of a link can be named so that
an end's own node is not beyond it, and what lies beyond the other ends of a
switch is beyond the end that leads to it, each with nothing in common. Under
such a division `Spread` is inductive: copies of one packet on their way have
disjoint sets of nodes before them, which contain neither the packet's origin
nor any node that has received it. A switch that passes a copy on divides what
is beyond the link among its ports; a port that is down only removes a part.

`HInv` is the invariant for `HeadersRestored` and `StopsExplained`. Neither is
inductive: what a host gets depends on the frame, and the frame on the packet a
core held. So every frame on its way is the `Form` that its sender put on the
wire, every packet in a core too, and what a host received is what was sent
(`Laden`); crashes are explained because a frame that is intact stops no device
unless it carries ARP, nor hangs one unless it carries ICMP. What one device
makes of a frame of another is the hypothesis `Matching`, of the settings of
two devices and one packet: the parser is a fold over the headers, and what it
computes for every packet is induction over data. TLC evaluates it for the
settings of the run. Devices without custom headers always match
(`PlainMatching`). What is proved is that any number of links, switches of any
kind and packets at the same time add nothing to it.

### ActionPrimitives_proofs

Of `PacketRegisters`, which is no state machine, only arithmetic: `SettersIndependent` (a setter changes its
own lane only and stores its value modulo 2^16), `ClearAllClears`, and
`ReceivedRetrieved`, that what a core stores on reception is what
`HandleEgressPipeline` reads, up to the width of the lanes. It is the bridge
between the index that `V1Switch` carries with a packet and the 16 bits of the
code. Division by a power of two is cut into lanes once (`FieldWritten`).

Of `ActionPrimitives`: `PrimitivesTyped` is inductive as it stands. `PrimitivesKeepRequests` says of
every sequence of primitives that the registers with requests, protocol and
address stay untouched: the proof behind `RegistersSet` = FALSE in `V1Switch`.
`LengthOnlyWithHeaders` and `LengthRestored` relate register 0 to the headers;
`CloneSpecUnpacked` the packing of a session with its unpacking in the core.
The assumption `Layout` is what the P4 compiler guarantees: widths are positive
and headers have a size.

### FlowTables_proofs

`Recursion` says once that a recursive function over 0 .. N whose step stays
in a set exists and is the iteration of that step; with it every loop of
`Topology` and `FlowTables` gets a lemma that names its first value and its step
(`ReadingSteps`, `InstallingSteps`, `AddEntriesAlongSteps`, `VisitPortsSteps`,
`DfsSteps`, `DefaultEntriesSteps`), and inductions over the loop use those only.

`PortsAgreeHolds` holds for every file that keeps to its letters, with lines
that are no links, too many or missing ones, links of a node to itself and
hosts on several links. The reader and the installation are two loops over
different sequences, of lines and of stored links; `Agree` relates them after
each line: the reader's counter of a switch is the number of ports installed,
and every link stored so far is what the two ports say (`MeetsAt`), which later
links do not change.

`TypeOKHolds` rests on `Typed`: tables of their type, no packet before the
program runs, and for a packet on its way a switch with a port 1, which is what
a miss sends it to. That the tables of a search name ports which exist is an
invariant of the search (`GoodCall`, `GoodEntries`).

`RoutesReachHolds`: built tables lead every packet to its host if links join the
two, never through a switch twice, and otherwise deliver neither the request to
that host nor data to any. The hypothesis `PlainBuilt` asks for one of the two
builders, for ARP, and, of files that are searched, for links that are plain:
none of a node to itself, and no host on two of them. It is needed, as a second
link of a host moves the home that the search starts from; every whole file with
built tables in the run satisfies it, and a generated tree always does
(`TreePlain`). The argument has four parts.

* *Entries lead* (`Sound`). There is a rank of every switch for every host such
  that the first entry a switch has for a host names a port that leads to the
  host, or to a switch of lower rank which has an entry for it too. A path that
  a search writes visits no switch twice (`Path`), so switches that had no entry
  can be given ranks above all earlier ones, in the order of the path for one
  direction and against it for the other (`AlongRouted`). Only first entries
  count, and a path may cross switches that have entries from other paths: there
  it continues by those, at a lower rank.
* *Nothing is left out* (`Done`, `Complete`). When a call returns, the switches
  it has recorded are the caller's or belong to a set all of whose ports lead to
  the host searched from, to a host with entries, or to a switch recorded or in
  that set (`Seen`). For the call from a host this set is closed under links, so it
  contains all that links join (`JoinedWithin`, `JoinedClosed`). The depth
  suffices because each level has fewer switches left to record (`Left`). A search
  is skipped when the counter says that all pairs are linked, and then they are
  (`AllLinked`): the pairs of different hosts are n(n - 1).
* *A tree leads* (`TreeLeads`). For a tree whose file `CrashExplainedHolds`
  describes no search is needed: a port that the builder may choose is one on
  the host's side, or, where no such port exists, any uplink. The rank of a switch
  is the number of switches on the rest of the way: 0 at the host's edge switch,
  1 at an aggregation switch of its pod, 2 at a core switch, then 3 and 4
  (`TreeRank`). That every switch has a port for every host (`AllWays`) is needed
  as well, as the first packet to an entry draws one of its ports (`DrawnLeads`):
  a draw leaves fewer ports, and none where there was none.
* *Packets follow* (`Routing`). The inductive invariant: some ranks lead in the
  table, the switch of a packet knows its destination, and all switches it has
  passed have higher ranks; a packet without a way is a request among the
  switches that links join to the client, as every miss sends it along a link.

`CrashExplainedHolds` follows a fat tree from the generator to the builder, for
every even number of pods and all draws:

* *The file* (`TreeFileLines`, `TreeLineSeqHolds`). The loops that put together
  the lines of the switches leave exactly the links of the tree (`TreeLinks`), as
  many as the first line declares, and a function for every switch after them
  (`AggrLinesHold`, `EdgeLinesHold`, with `CoreLinksHold` for the inner loop over
  core switches). The indexes of core, aggregation and edge switches and of hosts
  are in separate ranges, and no two places have the same (`TreeNodes`,
  `TreeNodesDiffer`).
* *Reading and installing* (`TreeReads`, `TreeInstalls`). No line is bad, every
  node is on some link and no link joins two hosts, so the program does not stop
  before it builds. A port of a switch leads to a node exactly if a link joins the
  two (`PortsAreLinks`).
* *Building* (`EdgePorts`, `AggrPorts`, `NothingToDrawWhen`). An aggregation switch
  has an uplink exactly if some core switch drew a start that brings it there,
  which happens in every pod exactly if no residue is left out (`ResiduesDrawn`);
  an edge switch always has one; and there is a host that the aggregation switch
  does not reach downwards, as there are at least two pods.

### Only model-checked

`RoutesReach` for stored tables, whose contents are data of files that the run
transcribes, and for programs that the example pairs with tables of another one
or that have no ARP. That settings of custom headers match
(`Matching`), for the settings of the run. `PolledDrain`, `AllArrive`,
`FloodArrives` and `TrafficArrives` (liveness is beyond the prover).

## 5. Where code and documentation disagree

Shown by runs:

* `egress_priority`: the class comment (`utils/p4-queue.h:143`, `:271`) says
  that priority 0 is served first; the scan runs from the highest number.
* `v1_destination`: `utils/register-access-v1model.h:43`, `:75` say that the
  destination survives the pipeline; replicas and clones are sent to the first
  address the switch ever saw.
* `switch_ingress`: `model/p4-switch-net-device.h:112` says that `GetPortNumber`
  gets the number of a port; it returns 0 for every port.
* `meter_index`: `model/p4-controller.h:598-625` documents a set, a get and a
  reset of the meter rates "for a specific meter index", the "index within the
  meter array". They call functions of the core that take the name of a table
  (`model/p4-controller.cc:1505`), so they fail; `MeterSetRates`,
  `MeterGetRates` and `MeterResetRates` of the core have no caller.

Met while modelling, and modelled as the code has them:

* `README.md:139` calls `QueueBufferSize` the total size of the buffer; it is the
  capacity of each class, of every port and priority
  (`utils/p4-queue.h:611`).
* A rate of 0 is one packet per millisecond (`utils/p4-queue.h:545`); the
  comment at `:473` promises no limit.
* The sizes of the low and high input queue are exchanged
  (`model/p4-core-v1model.cc:75`; `BlockedByRecirculation`).
* The core pointers of a switch are not initialised
  (`model/p4-switch-net-device.h:226`; `CrashOnlyWithoutCore`).
* `ResetState` keeps mirroring sessions, and `SwapConfigs` never takes effect.
* An egress port that does not exist is a null pointer
  (`model/p4-switch-net-device.cc:474`; `StopsExplained`). Packets leave for the
  destination stored on arrival, so an address the P4 program rewrites is lost.
* The PNA NIC takes nothing out of its buffer (`model/p4-nic-pna.cc:131`).
* A dummy port with a queue discipline passes it by, though
  `model/dummy-switch-port.h:38` says that packets are enqueued into it, and
  `SendFrom` of a dummy switch does not ask whether a port is up.
* On point-to-point links a device reports its own address as the destination.
  The first port's address is the dummy switch's own, so what arrives there is
  taken for the switch and goes no further.
* A device with custom headers loops for ever on ICMP, whose protocol number is
  the parser's sign for Ethernet, and cannot take ARP; of the placements only
  after layer 2 and before layer 3 are undone by the receiver
  (`model/custom-p2p-net-device.cc:622`).
* A topology file's network functions are optional according to the reader's
  comments, but a file without them is read only if it does not end with a
  newline; a reader that failed is handed out when asked for again.
* The fat-tree builder divides by zero in one of eight draws of four pods
  (`helper/build-flowtable-helper.cc:121`; `CrashExplained`), and its /24
  address pool is too small from twelve pods on.
* The default action that built tables set, `_drop`
  (`helper/build-flowtable-helper.cc:485`), is called `drop` in the P4 program
  (`examples/p4src/fat-tree/switch.p4:181`), so the command fails and packets that
  match no entry leave through port 0 (`OutPorts`). It shows only where a host
  cannot be reached, and then in ARP requests that are lost or circle
  (`RoutesReach`).
* `P4Helper::Install` makes no device for an empty container.
* The clone, resubmit, recirculate and digest primitives write PHV fields that
  the v1model core never reads (`PrimitivesKeepRequests`); `add_header_fast` and
  `copy_header` leave the length register as it was
  (`utils/primitives-v1model.h:214`, `:240`); a hash with size 0 divides by zero
  (`:307`).
* `examples/p4-controller-action-profile.cc` loads tables that are written for
  another P4 program and adds members at switch 0 only;
  `examples/p4-firewall.cc` runs the basic forwarding program, where
  `README.md:177` says stateful firewall; its second and third flow are
  commented "send link h3 -----> h0" (`examples/p4-firewall.cc:334`, `:352`), but
  are sent to host 3, the third from host 1, while their sinks are on host 0; the
  client of `examples/p4-link-monitoring.cc` is its server, so nothing is sent.

Outside the models: `CalculatePacketsPerSecond` adds `m_egressBp` to itself
(`model/p4-core-v1model.cc:761`); a custom header field of 64 bits shifts by the
width of the type (`model/custom-header.cc:178`); the egress timer does not
start for rates above 10^9
(`model/p4-core-v1model.cc:729`).

## 6. Not modelled, and why

BMv2 and ns-3 are libraries outside the repository: pipelines appear as
verdicts, tables as maps, the replication engine as constant groups, the
scheduler as the interleaving of events. Loading P4 programs and formatting
text are I/O and wording, and so are `utils/format-utils.cc` and
`utils/switch-api.cc`. The destructor of the v1model core (a sentinel pushed
into the input buffer, a wait for threads that do not exist) never runs, since
no core is deleted. Statistics and logging do not feed back into behaviour.
`P4PnaNic::main_processing_pipeline` has no caller. Of the examples,
`p4-ipv4-animation` sends nothing, `p4-l3-router` ships a table for another
program and hosts without a route, and `p4-calc`, `p4-pna-ipv4-forwarding` and
the custom header tests are a switch between two hosts, as in `Fabric`. The P4
sources appear where an example's forwarding depends on which table applies.
Tests construct objects and compare values; they drive nothing that is not
modelled.

The composition of a complete core, with its buffers and timers, in a fabric is
not modelled as one state space; the interface between them is the packet
handed over in `ReceivePacket` and `SendNs3Packet`, which both sides name.

## 7. Plan

Done: `EgressBuffer` with its abstract specification and refinement proof;
`V1Switch` on top of that abstraction, with its invariants proved; `PsaSwitch`
on the same base and `P2PLink`, with all their safety properties proved;
`Controller` on `RuntimeApi`; `Fabric` on `CustomHeaders`; `FlowTables` on
`Topology`, with the shipped examples; `PacketRegisters` and `ActionPrimitives`,
proved. Proved since: the order in which `V1Switch` sends, the rates and
release times of `EgressBuffer`, and all safety properties of `Controller` and
of `Fabric`, and of `FlowTables` the port numbers, the types, the routes that
either builder makes, and the crash of the fat-tree builder.

Left: a composition of a core with its buffer and a fabric; and routes in stored
tables, for a definition of what such tables should be.
