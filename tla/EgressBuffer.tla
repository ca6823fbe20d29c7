---------------------------- MODULE EgressBuffer ----------------------------
(***************************************************************************)
(* The egress buffer of a P4 switch core: NSQueueingLogicPriRL             *)
(* (utils/p4-queue.h), a set of priority queues per egress port, each with *)
(* a capacity and a service rate, drained by one worker that polls it.     *)
(*                                                                         *)
(* Time is simulated time in ticks, Second of them to a second, and moves  *)
(* only between events (Tick).  The cores use one worker                   *)
(* (m_nbEgressThreads = 1), to which EgressThreadMapper sends every port,  *)
(* so there is one WorkerInfo: a priority_queue per priority, shared by    *)
(* all ports.  Packets are told apart by the worker's wrapping_counter     *)
(* (64 bits: it does not wrap in a run).                                   *)
(***************************************************************************)
EXTENDS Naturals, FiniteSets

CONSTANTS
  Ports,            \* the egress ports in use (queue ids)
  NbPriorities,     \* nb_priorities: priority queues per port
  QueueBufferSize,  \* the capacity the constructor is given
  SwitchRate,       \* the packet rate (pps) the constructor sets for all
  Capacities,       \* the capacities the queue-depth API is called with
  Rates,            \* the rates (pps) the queue-rate API is called with
  Second,           \* ticks per second
  MaxTime,          \* bound: the clock stops here
  MaxPushes,        \* bound: packets accepted in a behaviour
  MaxCalls          \* bound: calls of the configuration API in a behaviour

ASSUME ConstantsAssumption ==
  /\ NbPriorities \in Nat \ {0}
  /\ QueueBufferSize \in Nat
  /\ SwitchRate \in Nat
  /\ Capacities \subseteq Nat
  /\ Rates \subseteq Nat
  /\ Second \in Nat
  /\ MaxTime \in Nat
  /\ MaxPushes \in Nat
  /\ MaxCalls \in Nat

Priorities == 0 .. (NbPriorities - 1)
Classes == Ports \X Priorities

VARIABLES
  now,              \* Simulator::Now()
  capacity,         \* default capacity of queues created later
  queue_rate_pps,   \* default rate of queues created later
  known,            \* the ports queues_info has an entry for
  info,             \* QueueInfoPri of each class (meaningful for known ports)
  q_size,           \* QueueInfo::size of each port
  w_size,           \* WorkerInfo::size
  queues,           \* WorkerInfo::queues: the set of queued elements (QE)
  wrapping_counter, \* WorkerInfo::wrapping_counter
  served,           \* history: the number of packets each class has released
  calls             \* history: the number of configuration calls made

config == <<capacity, queue_rate_pps>>
vars == <<now, capacity, queue_rate_pps, known, info, q_size, w_size, queues,
          wrapping_counter, served, calls>>

-----------------------------------------------------------------------------
(* Operators of the class.                                                 *)

(* The time between two packets of a class; a rate of 0 means a millisecond. *)
RateToTime(pps) == IF pps = 0 THEN Second \div 1000 ELSE Second \div pps

NewQueueInfoPri ==
  [size |-> 0, capacity |-> capacity, delay |-> RateToTime(queue_rate_pps),
   last_sent |-> now]

(* get_queue creates the queues of a port at its first use, by any call. *)
GetQueue(q) ==
  IF q \in known
  THEN info
  ELSE [c \in Classes |-> IF c[1] = q THEN NewQueueInfoPri ELSE info[c]]

(* Faulty variants: a packet is delayed from now on, whatever waits before *)
(* it; an idle class does not restart its clock, it releases a packet as   *)
(* soon as the last one is out.                                            *)
NextTpFromNow(i) == now + i.delay
NextTpNoPacing(i) == IF now > i.last_sent THEN now ELSE i.last_sent

(* get_next_tp: the earliest time the next packet of a class may leave. *)
NextTp(i) ==
  IF now > i.last_sent + i.delay THEN now ELSE i.last_sent + i.delay

(* QEComp: the element the priority_queue has nearer to its top. *)
Before(e, f) == e.send < f.send \/ (e.send = f.send /\ e.id <= f.id)

(* e is at the top of the priority_queue it is in. *)
IsTop(e) == \A f \in queues : f.priority = e.priority => Before(e, f)

(* pop_back scans the priorities from NbPriorities - 1 down to 0 and stops *)
(* at the first queue whose top is due.                                    *)
IsServed(e) ==
  /\ e.send <= now
  /\ IsTop(e)
  /\ \A f \in queues : f.priority > e.priority => f.send > now

-----------------------------------------------------------------------------
(* Operations.                                                             *)

Init ==
  /\ now = 0
  /\ capacity = QueueBufferSize
  /\ queue_rate_pps = SwitchRate
  /\ known = {}
  /\ info = [c \in Classes |-> NewQueueInfoPri]
  /\ q_size = [q \in Ports |-> 0]
  /\ w_size = 0
  /\ queues = {}
  /\ wrapping_counter = 0
  /\ served = [c \in Classes |-> 0]
  /\ calls = 0

(* A class with one packet more, released at tp. *)
Charged(i, tp) ==
  [size |-> i.size + 1, capacity |-> i.capacity, delay |-> i.delay,
   last_sent |-> tp]

(* push_front into a class with room. *)
PushFront(q, p) ==
  LET infos == GetQueue(q)
      tp == NextTp(infos[<<q, p>>])
  IN  /\ wrapping_counter < MaxPushes
      /\ infos[<<q, p>>].size < infos[<<q, p>>].capacity
      /\ known' = known \cup {q}
      /\ info' = [infos EXCEPT ![<<q, p>>] = Charged(infos[<<q, p>>], tp)]
      /\ queues' = queues \cup {[queue_id |-> q, priority |-> p, send |-> tp,
                                 id |-> wrapping_counter]}
      /\ wrapping_counter' = wrapping_counter + 1
      /\ q_size' = [q_size EXCEPT ![q] = @ + 1]
      /\ w_size' = w_size + 1
      /\ UNCHANGED <<now, config, served, calls>>

(* Faulty variant: the release time is computed before the capacity test. *)
PushFrontFullPaced(q, p) ==
  LET infos == GetQueue(q)
  IN  /\ infos[<<q, p>>].size >= infos[<<q, p>>].capacity
      /\ known' = known \cup {q}
      /\ info' = [infos EXCEPT ![<<q, p>>] =
                    [@ EXCEPT !.last_sent = NextTp(infos[<<q, p>>])]]
      /\ UNCHANGED <<now, config, q_size, w_size, queues, wrapping_counter,
                     served, calls>>

(* push_front into a full class: the packet is dropped, the queue exists. *)
PushFrontFull(q, p) ==
  LET infos == GetQueue(q)
  IN  /\ infos[<<q, p>>].size >= infos[<<q, p>>].capacity
      /\ known' = known \cup {q}
      /\ info' = infos
      /\ UNCHANGED <<now, config, q_size, w_size, queues, wrapping_counter,
                     served, calls>>

(* A class with one packet less. *)
Discharged(i) ==
  [size |-> i.size - 1, capacity |-> i.capacity, delay |-> i.delay,
   last_sent |-> i.last_sent]

(* The bookkeeping of pop_back for the element e it takes out. *)
ClassSizeAfterPop(e) ==
  [info EXCEPT ![<<e.queue_id, e.priority>>] =
     Discharged(info[<<e.queue_id, e.priority>>])]

(* Faulty variants: a level of the size bookkeeping is forgotten, or is    *)
(* charged twice.                                                          *)
PortSizeKept(e) == q_size
PortSizeTwice(e) == [q_size EXCEPT ![e.queue_id] = @ - 2]
PortSizeAfterPop(e) == [q_size EXCEPT ![e.queue_id] = @ - 1]

(* pop_back when some class is due; otherwise the call changes nothing. *)
PopBack ==
  /\ w_size # 0
  /\ \E e \in queues :
       /\ IsServed(e)
       /\ queues' = queues \ {e}
       /\ info' = ClassSizeAfterPop(e)
       /\ q_size' = PortSizeAfterPop(e)
       /\ w_size' = w_size - 1
       /\ served' = [served EXCEPT ![<<e.queue_id, e.priority>>] = @ + 1]
  /\ UNCHANGED <<now, config, known, wrapping_counter, calls>>

(* The set_capacity and set_rate families: of one class, of a port, of all *)
(* the ports seen so far and of those to come.                             *)
Reconfigure(q, cs, field, v) ==
  /\ calls < MaxCalls
  /\ calls' = calls + 1
  /\ known' = known \cup {q}
  /\ info' = [c \in Classes |->
                IF c \in cs THEN [GetQueue(q)[c] EXCEPT ![field] = v]
                            ELSE GetQueue(q)[c]]
  /\ UNCHANGED <<now, config, q_size, w_size, queues, wrapping_counter, served>>

SetPriorityCapacity(q, p, c) == Reconfigure(q, {<<q, p>>}, "capacity", c)
SetCapacity(q, c) == Reconfigure(q, {q} \X Priorities, "capacity", c)
SetPriorityRate(q, p, pps) ==
  Reconfigure(q, {<<q, p>>}, "delay", RateToTime(pps))
SetRate(q, pps) == Reconfigure(q, {q} \X Priorities, "delay", RateToTime(pps))

ReconfigureAll(field, v) ==
  /\ calls < MaxCalls
  /\ calls' = calls + 1
  /\ info' = [c \in Classes |-> IF c[1] \in known
                                THEN [info[c] EXCEPT ![field] = v]
                                ELSE info[c]]
  /\ UNCHANGED <<now, known, q_size, w_size, queues, wrapping_counter, served>>

SetCapacityForAll(c) ==
  /\ ReconfigureAll("capacity", c)
  /\ capacity' = c
  /\ UNCHANGED queue_rate_pps

SetRateForAll(pps) ==
  /\ ReconfigureAll("delay", RateToTime(pps))
  /\ queue_rate_pps' = pps
  /\ UNCHANGED capacity

(* Simulated time passes until the next event. *)
Tick ==
  /\ now < MaxTime
  /\ now' = now + 1
  /\ UNCHANGED <<config, known, info, q_size, w_size, queues, wrapping_counter,
                 served, calls>>

Next ==
  \/ \E q \in Ports, p \in Priorities : PushFront(q, p) \/ PushFrontFull(q, p)
  \/ PopBack
  \/ \E q \in Ports, p \in Priorities, c \in Capacities :
       SetPriorityCapacity(q, p, c)
  \/ \E q \in Ports, c \in Capacities : SetCapacity(q, c)
  \/ \E q \in Ports, p \in Priorities, r \in Rates : SetPriorityRate(q, p, r)
  \/ \E q \in Ports, r \in Rates : SetRate(q, r)
  \/ \E c \in Capacities : SetCapacityForAll(c)
  \/ \E r \in Rates : SetRateForAll(r)
  \/ Tick

Spec == Init /\ [][Next]_vars

-----------------------------------------------------------------------------
(* Properties.                                                             *)

QueueElements ==
  [queue_id : Ports, priority : Priorities, send : Nat, id : Nat]

QueueInfoPri == [size : Nat, capacity : Nat, delay : Nat, last_sent : Nat]

(* Every variable keeps its type: in particular no counter goes below zero *)
(* (they are unsigned in the code and would wrap).                         *)
TypeOK ==
  /\ now \in Nat
  /\ capacity \in Nat
  /\ queue_rate_pps \in Nat
  /\ known \subseteq Ports
  /\ info \in [Classes -> QueueInfoPri]
  /\ q_size \in [Ports -> Nat]
  /\ w_size \in Nat
  /\ queues \subseteq QueueElements
  /\ wrapping_counter \in Nat
  /\ served \in [Classes -> Nat]
  /\ calls \in Nat

Of(c) == {e \in queues : <<e.queue_id, e.priority>> = c}
OfPort(q) == {e \in queues : e.queue_id = q}

(* The three levels of size bookkeeping agree with the contents.  The      *)
(* worker's size decides whether pop_back looks at all, the port's whether *)
(* HandleEgressPipeline polls, the class's whether a packet is dropped: a  *)
(* drift of any of them strands packets or overruns a capacity.            *)
SizesAgree ==
  /\ w_size = Cardinality(queues)
  /\ \A q \in Ports : q_size[q] = Cardinality(OfPort(q))
  /\ \A c \in Classes : info[c].size = Cardinality(Of(c))

(* Within a class release times follow the order of arrival, and last_sent *)
(* is the latest of them: the priority_queue, ordered by release time, and *)
(* shared by all ports, is a FIFO for each class.                          *)
ReleaseOrder ==
  \A e \in queues :
    /\ e.send <= info[<<e.queue_id, e.priority>>].last_sent
    /\ e.id < wrapping_counter
    /\ \A f \in queues :
         (/\ f.queue_id = e.queue_id
          /\ f.priority = e.priority
          /\ e.id < f.id) => e.send <= f.send

AllDelays == {RateToTime(r) : r \in Rates \cup {SwitchRate}}
MinDelay == CHOOSE d \in AllDelays : \A x \in AllDelays : d <= x
MaxDelay == CHOOSE d \in AllDelays : \A x \in AllDelays : d >= x

(* Rate limiting: however the rates are changed and whatever order classes *)
(* are polled in, a class never releases more packets than its fastest     *)
(* configured rate allows since the start.                                 *)
RateLimited == \A c \in Classes : served[c] * MinDelay <= now

(* No packet is parked: the n-th packet waiting in a class is due within n *)
(* slowest packet times from now, even after the rate was lowered and      *)
(* raised again, and however many packets were dropped at a full queue.    *)
DueSoon ==
  \A e \in queues :
    LET ahead == {f \in queues : /\ f.queue_id = e.queue_id
                                /\ f.priority = e.priority
                                /\ f.id <= e.id}
    IN  e.send <= now + MaxDelay * Cardinality(ahead)

(* The buffer implements one FIFO per class: push_front accepts or leaves  *)
(* the queues alone, pop_back releases the oldest packet of one class, and *)
(* no reconfiguration loses, duplicates or reorders a packet.              *)
Fifos ==
  INSTANCE ClassFifos WITH
    waiting <- [c \in Classes |-> {e.id : e \in Of(c)}],
    ticket <- wrapping_counter
ImplementsFifos == Fifos!Spec

(* The class comment's promise (utils/p4-queue.h:143-149 and :271-272):    *)
(* priority 0 is the highest, "lowest priority values are served first".   *)
(* The scan runs the other way.                                            *)
PriorityZeroFirst ==
  [][\A e \in queues \ queues', f \in queues' :
       f.send <= now => e.priority <= f.priority]_vars
=============================================================================
