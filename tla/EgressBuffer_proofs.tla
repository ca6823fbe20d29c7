------------------------ MODULE EgressBuffer_proofs ------------------------
(***************************************************************************)
(* Proofs about EgressBuffer, for every number of ports, priorities,       *)
(* capacities and rates.                                                   *)
(***************************************************************************)
EXTENDS EgressBuffer, FiniteSetTheorems, TLAPS

(* A port get_queue has not created yet holds no element. *)
KnownPorts == \A e \in queues : e.queue_id \in known

(* The worker gave every queued element a counter value of its own. *)
UniqueIds == \A e, f \in queues : e.id = f.id => e = f

(* The inductive invariant.  TypeOK alone is not inductive: that a size    *)
(* stays a natural number when pop_back decrements it needs SizesAgree,    *)
(* and that get_queue overwrites no size of a queue in use needs           *)
(* KnownPorts.  ReleaseOrder and UniqueIds are what the refinement needs:  *)
(* the top of a priority_queue is the oldest element of its class.         *)
IInv ==
  /\ TypeOK
  /\ IsFiniteSet(queues)
  /\ KnownPorts
  /\ UniqueIds
  /\ SizesAgree
  /\ ReleaseOrder

-----------------------------------------------------------------------------

(* A packet time is a natural number of ticks. *)
LEMMA RateToTimeType ==
  ASSUME NEW pps \in Nat
  PROVE  RateToTime(pps) \in Nat
<1>1. CASE pps = 0
  BY <1>1, ConstantsAssumption DEF RateToTime
<1>2. CASE pps # 0
  BY <1>2, ConstantsAssumption DEF RateToTime
<1>3. QED
  BY <1>1, <1>2

(* Looking a port up keeps the types, the size of every class, and what    *)
(* is known of the ports already created.                                  *)
LEMMA GetQueueProperties ==
  ASSUME IInv, NEW q \in Ports
  PROVE  /\ GetQueue(q) \in [Classes -> QueueInfoPri]
         /\ \A c \in Classes : GetQueue(q)[c].size = info[c].size
         /\ \A c \in Classes : c[1] \in known => GetQueue(q)[c] = info[c]
<1>1. NewQueueInfoPri \in QueueInfoPri
  BY RateToTimeType DEF IInv, TypeOK, NewQueueInfoPri, QueueInfoPri
<1>2. GetQueue(q) \in [Classes -> QueueInfoPri]
  BY <1>1 DEF IInv, TypeOK, GetQueue
<1>3. \A c \in Classes : c[1] \in known => GetQueue(q)[c] = info[c]
  BY DEF GetQueue
<1>4. ASSUME NEW c \in Classes, c[1] \notin known
      PROVE  GetQueue(q)[c].size = info[c].size
  <2>1. Of(c) = {}
    BY <1>4 DEF IInv, KnownPorts, Of, Classes
  <2>2. info[c].size = 0
    BY <2>1, FS_EmptySet DEF IInv, SizesAgree
  <2>3. NewQueueInfoPri.size = 0
    BY DEF NewQueueInfoPri
  <2>4. QED
    BY <2>2, <2>3 DEF GetQueue
<1>5. QED
  BY <1>2, <1>3, <1>4

(* NextTp never goes back in time. *)
LEMMA NextTpProperties ==
  ASSUME NEW i \in QueueInfoPri, now \in Nat
  PROVE  NextTp(i) \in Nat /\ NextTp(i) >= i.last_sent
BY DEF NextTp, QueueInfoPri

(* Charging a class for a packet adds one to its size. *)
LEMMA ChargedProperties ==
  ASSUME NEW i \in QueueInfoPri, NEW tp \in Nat
  PROVE  /\ Charged(i, tp) \in QueueInfoPri
         /\ Charged(i, tp).size = i.size + 1
         /\ Charged(i, tp).last_sent = tp
BY DEF Charged, QueueInfoPri

(* Setting a capacity or a rate keeps the size and the last release time. *)
LEMMA FieldProperties ==
  ASSUME NEW i \in QueueInfoPri, NEW v \in Nat,
         NEW field \in {"capacity", "delay"}
  PROVE  /\ [i EXCEPT ![field] = v] \in QueueInfoPri
         /\ [i EXCEPT ![field] = v].size = i.size
         /\ [i EXCEPT ![field] = v].last_sent = i.last_sent
<1>1. CASE field = "capacity"
  BY <1>1 DEF QueueInfoPri
<1>2. CASE field = "delay"
  BY <1>2 DEF QueueInfoPri
<1>3. QED
  BY <1>1, <1>2

LEMMA InitInvariant == Init => IInv
<1> SUFFICES ASSUME Init PROVE IInv
  OBVIOUS
<1>1. NewQueueInfoPri \in QueueInfoPri
  BY RateToTimeType, ConstantsAssumption
  DEF Init, NewQueueInfoPri, QueueInfoPri
<1>2. TypeOK
  BY <1>1, ConstantsAssumption DEF Init, TypeOK
<1>3. IsFiniteSet(queues) /\ KnownPorts /\ UniqueIds /\ ReleaseOrder
  BY FS_EmptySet DEF Init, KnownPorts, UniqueIds, ReleaseOrder
<1>4. SizesAgree
  <2>1. w_size = Cardinality(queues)
    BY FS_EmptySet DEF Init
  <2>2. \A q \in Ports : q_size[q] = Cardinality(OfPort(q))
    BY FS_EmptySet DEF Init, OfPort
  <2>3. \A c \in Classes : info[c].size = Cardinality(Of(c))
    BY FS_EmptySet DEF Init, Of, NewQueueInfoPri
  <2>4. QED
    BY <2>1, <2>2, <2>3 DEF SizesAgree
<1>5. QED
  BY <1>2, <1>3, <1>4 DEF IInv

-----------------------------------------------------------------------------
(* One lemma per operation: it preserves the invariant.                    *)

LEMMA PushFrontInvariant ==
  ASSUME IInv, NEW q \in Ports, NEW p \in Priorities, PushFront(q, p)
  PROVE  IInv'
<1> DEFINE cl == <<q, p>>
           infos == GetQueue(q)
           tp == NextTp(infos[cl])
           new == [queue_id |-> q, priority |-> p, send |-> tp,
                   id |-> wrapping_counter]
<1>1. cl \in Classes
  BY DEF Classes
<1>2. /\ infos \in [Classes -> QueueInfoPri]
      /\ \A c \in Classes : infos[c].size = info[c].size
      /\ \A c \in Classes : c[1] \in known => infos[c] = info[c]
  BY GetQueueProperties
<1>3. tp \in Nat /\ tp >= infos[cl].last_sent
  BY <1>1, <1>2, NextTpProperties DEF IInv, TypeOK
<1>4. /\ known' = known \cup {q}
      /\ info' = [infos EXCEPT ![cl] = Charged(infos[cl], tp)]
      /\ queues' = queues \cup {new}
      /\ wrapping_counter' = wrapping_counter + 1
      /\ q_size' = [q_size EXCEPT ![q] = @ + 1]
      /\ w_size' = w_size + 1
      /\ UNCHANGED <<now, config, served, calls>>
  BY DEF PushFront
<1>5. new \in QueueElements
  BY <1>3 DEF IInv, TypeOK, QueueElements
<1> HIDE DEF infos, tp
<1>6. new \notin queues /\ \A e \in queues : e.id # new.id
  <2>1. \A e \in queues : e.id \in Nat /\ e.id < wrapping_counter
    BY DEF IInv, ReleaseOrder, TypeOK, QueueElements
  <2>2. new.id = wrapping_counter /\ wrapping_counter \in Nat
    BY DEF IInv, TypeOK
  <2>3. QED
    BY <2>1, <2>2
<1>7. /\ info' \in [Classes -> QueueInfoPri]
      /\ info'[cl].size = info[cl].size + 1
      /\ info'[cl].last_sent = tp
      /\ \A c \in Classes : c # cl => info'[c] = infos[c]
  <2>1. infos[cl] \in QueueInfoPri /\ infos[cl].size = info[cl].size
    BY <1>1, <1>2
  <2>2. /\ Charged(infos[cl], tp) \in QueueInfoPri
        /\ Charged(infos[cl], tp).size = info[cl].size + 1
        /\ Charged(infos[cl], tp).last_sent = tp
    BY <1>3, <2>1, ChargedProperties
  <2>3. QED
    BY <1>1, <1>2, <1>4, <2>2
<1>8. TypeOK'
  <2>1. queues' \subseteq QueueElements
    BY <1>4, <1>5 DEF IInv, TypeOK
  <2>2. known' \subseteq Ports
    BY <1>4 DEF IInv, TypeOK
  <2>3. QED
    BY <1>4, <1>7, <2>1, <2>2 DEF IInv, TypeOK, config
<1>9. IsFiniteSet(queues')
  BY <1>4, FS_AddElement DEF IInv
<1>10. KnownPorts' /\ UniqueIds'
  <2> HIDE DEF new
  <2>1. UniqueIds'
    BY <1>4, <1>6 DEF IInv, UniqueIds
  <2>2. KnownPorts'
    BY <1>4 DEF IInv, KnownPorts, new
  <2>3. QED
    BY <2>1, <2>2
<1>11. SizesAgree'
  <2>1. w_size' = Cardinality(queues')
    BY <1>4, <1>6, FS_AddElement DEF IInv, SizesAgree
  <2>2. ASSUME NEW r \in Ports
        PROVE  q_size'[r] = Cardinality(OfPort(r)')
    <3>1. IsFiniteSet(OfPort(r))
      BY FS_Subset DEF IInv, OfPort
    <3>2. CASE r = q
      <4>1. OfPort(r)' = OfPort(r) \cup {new} /\ new \notin OfPort(r)
        BY <1>4, <1>6, <3>2 DEF OfPort
      <4>2. QED
        <5>1. Cardinality(OfPort(r)') = Cardinality(OfPort(r)) + 1
          BY <3>1, <4>1, FS_AddElement
        <5>2. q_size'[r] = q_size[r] + 1
          BY <1>4, <3>2 DEF IInv, TypeOK
        <5>3. QED
          BY <5>1, <5>2 DEF IInv, SizesAgree
    <3>3. CASE r # q
      <4>1. OfPort(r)' = OfPort(r)
        BY <1>4, <3>3 DEF OfPort
      <4>2. QED
        BY <1>4, <3>3, <4>1 DEF IInv, SizesAgree, TypeOK
    <3>4. QED
      BY <3>2, <3>3
  <2>3. ASSUME NEW c \in Classes
        PROVE  info'[c].size = Cardinality(Of(c)')
    <3>1. IsFiniteSet(Of(c))
      BY FS_Subset DEF IInv, Of
    <3>2. CASE c = cl
      <4>1. Of(c)' = Of(c) \cup {new} /\ new \notin Of(c)
        BY <1>4, <1>6, <3>2 DEF Of
      <4>2. QED
        BY <1>7, <3>1, <3>2, <4>1, FS_AddElement DEF IInv, SizesAgree
    <3>3. CASE c # cl
      <4>1. Of(c)' = Of(c)
        BY <1>4, <3>3 DEF Of
      <4>2. QED
        BY <1>2, <1>7, <3>3, <4>1 DEF IInv, SizesAgree
    <3>4. QED
      BY <3>2, <3>3
  <2>4. QED
    BY <2>1, <2>2, <2>3 DEF SizesAgree
<1>12. ReleaseOrder'
  <2> SUFFICES ASSUME NEW e \in queues'
               PROVE  /\ e.send <= info'[<<e.queue_id, e.priority>>].last_sent
                      /\ e.id < wrapping_counter'
                      /\ \A f \in queues' :
                           (/\ f.queue_id = e.queue_id
                            /\ f.priority = e.priority
                            /\ e.id < f.id) => e.send <= f.send
    BY DEF ReleaseOrder
  <2>1. CASE e = new
    <3>1. \A f \in queues' : ~(e.id < f.id)
      <4>1. \A f \in queues : f.id \in Nat /\ f.id < wrapping_counter
        BY DEF IInv, ReleaseOrder, TypeOK, QueueElements
      <4>2. e.id = wrapping_counter /\ wrapping_counter \in Nat
        BY <2>1 DEF IInv, TypeOK
      <4>3. QED
        BY <1>4, <4>1, <4>2
    <3>2. QED
      BY <1>3, <1>4, <1>7, <2>1, <3>1 DEF IInv, TypeOK
  <2>2. CASE e \in queues
    <3> DEFINE ec == <<e.queue_id, e.priority>>
    <3>1. ec \in Classes /\ e.send \in Nat /\ e.queue_id \in known
      BY <2>2 DEF IInv, TypeOK, QueueElements, Classes, KnownPorts
    <3>2. e.send <= info[ec].last_sent /\ infos[ec] = info[ec]
      BY <1>2, <2>2, <3>1 DEF IInv, ReleaseOrder
    <3>3. CASE ec = cl
      <4>1. e.send <= tp
        BY <1>1, <1>2, <1>3, <3>1, <3>2, <3>3 DEF QueueInfoPri
      <4>2. QED
        BY <1>4, <1>7, <2>2, <3>3, <4>1
        DEF IInv, ReleaseOrder, TypeOK, QueueElements
    <3>4. CASE ec # cl
      <4>1. info'[ec] = info[ec]
        BY <1>7, <3>1, <3>2, <3>4
      <4>2. QED
        BY <1>4, <2>2, <3>2, <3>4, <4>1
        DEF IInv, ReleaseOrder, TypeOK, QueueElements
    <3>5. QED
      BY <3>3, <3>4
  <2>3. QED
    BY <1>4, <2>1, <2>2
<1>13. QED
  BY <1>8, <1>9, <1>10, <1>11, <1>12 DEF IInv

(* The operations that leave the queued elements alone: it is enough that  *)
(* they keep the types, forget no known port, and leave the size and the   *)
(* last release time of every known class as they were.                    *)
LEMMA QuietInvariant ==
  ASSUME IInv, TypeOK', known \subseteq known',
         UNCHANGED <<q_size, w_size, queues, wrapping_counter>>,
         \A c \in Classes : info'[c].size = info[c].size,
         \A c \in Classes :
           c[1] \in known => info'[c].last_sent = info[c].last_sent
  PROVE  IInv'
<1>1. IsFiniteSet(queues') /\ KnownPorts' /\ UniqueIds'
  BY DEF IInv, KnownPorts, UniqueIds
<1>2. SizesAgree'
  <2>1. /\ \A c \in Classes : Of(c)' = Of(c)
        /\ \A q \in Ports : OfPort(q)' = OfPort(q)
    BY DEF Of, OfPort
  <2>2. QED
    BY <2>1 DEF IInv, SizesAgree
<1>3. ReleaseOrder'
  <2>1. ASSUME NEW e \in queues
        PROVE  info'[<<e.queue_id, e.priority>>].last_sent
                 = info[<<e.queue_id, e.priority>>].last_sent
    BY DEF IInv, KnownPorts, TypeOK, QueueElements, Classes
  <2>2. QED
    BY <2>1 DEF IInv, ReleaseOrder
<1>4. QED
  BY <1>1, <1>2, <1>3 DEF IInv

LEMMA PushFrontFullInvariant ==
  ASSUME IInv, NEW q \in Ports, NEW p \in Priorities, PushFrontFull(q, p)
  PROVE  IInv'
<1>1. /\ known' = known \cup {q}
      /\ info' = GetQueue(q)
      /\ UNCHANGED <<now, config, q_size, w_size, queues, wrapping_counter,
                     served, calls>>
  BY DEF PushFrontFull
<1>2. TypeOK'
  BY <1>1, GetQueueProperties DEF IInv, TypeOK, config
<1>3. QED
  BY <1>1, <1>2, GetQueueProperties, QuietInvariant

(* A configuration call sets one field of some classes of a port; neither  *)
(* the size nor the last release time is one of the fields it can set.     *)
LEMMA ReconfigureInvariant ==
  ASSUME IInv, NEW q \in Ports, NEW cs, NEW v \in Nat,
         NEW field \in {"capacity", "delay"}, Reconfigure(q, cs, field, v)
  PROVE  IInv'
<1> DEFINE infos == GetQueue(q)
<1>1. /\ calls' = calls + 1
      /\ known' = known \cup {q}
      /\ info' = [c \in Classes |->
                    IF c \in cs THEN [infos[c] EXCEPT ![field] = v]
                                ELSE infos[c]]
      /\ UNCHANGED <<now, config, q_size, w_size, queues, wrapping_counter,
                     served>>
  BY DEF Reconfigure
<1>2. /\ infos \in [Classes -> QueueInfoPri]
      /\ \A c \in Classes : infos[c].size = info[c].size
      /\ \A c \in Classes : c[1] \in known => infos[c] = info[c]
  BY GetQueueProperties
<1> HIDE DEF infos
<1>3. ASSUME NEW c \in Classes
      PROVE  /\ info'[c] \in QueueInfoPri
             /\ info'[c].size = infos[c].size
             /\ info'[c].last_sent = infos[c].last_sent
  <2>1. infos[c] \in QueueInfoPri
    BY <1>2
  <2>2. CASE c \in cs
    <3>1. info'[c] = [infos[c] EXCEPT ![field] = v]
      BY <1>1, <2>2
    <3>2. /\ [infos[c] EXCEPT ![field] = v] \in QueueInfoPri
          /\ [infos[c] EXCEPT ![field] = v].size = infos[c].size
          /\ [infos[c] EXCEPT ![field] = v].last_sent = infos[c].last_sent
      BY <2>1, FieldProperties
    <3>3. QED
      BY <3>1, <3>2
  <2>3. CASE c \notin cs
    BY <1>1, <2>1, <2>3
  <2>4. QED
    BY <2>2, <2>3
<1>4. TypeOK'
  BY <1>1, <1>3 DEF IInv, TypeOK, config
<1>5. QED
  BY <1>1, <1>2, <1>3, <1>4, QuietInvariant

LEMMA ReconfigureAllInvariant ==
  ASSUME IInv, NEW v \in Nat, NEW field \in {"capacity", "delay"},
         ReconfigureAll(field, v), config' \in Nat \X Nat
  PROVE  IInv'
<1>1. /\ calls' = calls + 1
      /\ info' = [c \in Classes |->
                    IF c[1] \in known THEN [info[c] EXCEPT ![field] = v]
                                      ELSE info[c]]
      /\ UNCHANGED <<now, known, q_size, w_size, queues, wrapping_counter,
                     served>>
  BY DEF ReconfigureAll
<1>2. ASSUME NEW c \in Classes
      PROVE  /\ info'[c] \in QueueInfoPri
             /\ info'[c].size = info[c].size
             /\ info'[c].last_sent = info[c].last_sent
  <2>1. info[c] \in QueueInfoPri
    BY DEF IInv, TypeOK
  <2>2. CASE c[1] \in known
    <3>1. info'[c] = [info[c] EXCEPT ![field] = v]
      BY <1>1, <2>2
    <3>2. /\ [info[c] EXCEPT ![field] = v] \in QueueInfoPri
          /\ [info[c] EXCEPT ![field] = v].size = info[c].size
          /\ [info[c] EXCEPT ![field] = v].last_sent = info[c].last_sent
      BY <2>1, FieldProperties
    <3>3. QED
      BY <3>1, <3>2
  <2>3. CASE c[1] \notin known
    BY <1>1, <2>1, <2>3
  <2>4. QED
    BY <2>2, <2>3
<1>3. TypeOK'
  BY <1>1, <1>2 DEF IInv, TypeOK, config
<1>4. QED
  BY <1>1, <1>2, <1>3, QuietInvariant

LEMMA PopBackInvariant ==
  ASSUME IInv, PopBack
  PROVE  IInv'
<1>1. PICK e \in queues :
        /\ queues' = queues \ {e}
        /\ info' = ClassSizeAfterPop(e)
        /\ q_size' = PortSizeAfterPop(e)
        /\ w_size' = w_size - 1
        /\ served' = [served EXCEPT ![<<e.queue_id, e.priority>>] = @ + 1]
        /\ UNCHANGED <<now, config, known, wrapping_counter, calls>>
  BY DEF PopBack
<1> DEFINE cl == <<e.queue_id, e.priority>>
<1>2. /\ cl \in Classes
      /\ e.queue_id \in Ports
  BY DEF IInv, TypeOK, QueueElements, Classes
<1>3. ASSUME NEW S, S \subseteq queues, e \in S
      PROVE  /\ Cardinality(S) \in Nat \ {0}
             /\ Cardinality(S \ {e}) = Cardinality(S) - 1
  BY <1>3, FS_Subset, FS_RemoveElement, FS_CardinalityType, FS_EmptySet DEF IInv
<1>4. e \in Of(cl) /\ Of(cl) \subseteq queues
  BY DEF Of
<1>5. e \in OfPort(e.queue_id) /\ OfPort(e.queue_id) \subseteq queues
  BY DEF OfPort
<1>6. /\ w_size' \in Nat
      /\ w_size' = Cardinality(queues')
  BY <1>1, <1>3 DEF IInv, SizesAgree
<1>7. /\ q_size' \in [Ports -> Nat]
      /\ \A r \in Ports : q_size'[r] = Cardinality(OfPort(r)')
  <2>1. OfPort(e.queue_id)' = OfPort(e.queue_id) \ {e}
    BY <1>1 DEF OfPort
  <2>2. \A r \in Ports : r # e.queue_id => OfPort(r)' = OfPort(r)
    BY <1>1 DEF OfPort
  <2>3. /\ q_size[e.queue_id] - 1 \in Nat
        /\ q_size[e.queue_id] - 1 = Cardinality(OfPort(e.queue_id)')
    BY <1>2, <1>3, <1>5, <2>1 DEF IInv, SizesAgree
  <2>4. q_size' = [q_size EXCEPT ![e.queue_id] = q_size[e.queue_id] - 1]
    BY <1>1 DEF PortSizeAfterPop
  <2>5. QED
    BY <1>2, <2>2, <2>3, <2>4 DEF IInv, TypeOK, SizesAgree
<1>8. /\ info' \in [Classes -> QueueInfoPri]
      /\ \A c \in Classes : info'[c].size = Cardinality(Of(c)')
      /\ \A c \in Classes : info'[c].last_sent = info[c].last_sent
  <2>1. Of(cl)' = Of(cl) \ {e}
    BY <1>1 DEF Of
  <2>2. \A c \in Classes : c # cl => Of(c)' = Of(c)
    BY <1>1 DEF Of
  <2>3. /\ info[cl].size - 1 \in Nat
        /\ info[cl].size - 1 = Cardinality(Of(cl)')
    <3>1. info[cl].size = Cardinality(Of(cl))
      BY <1>2 DEF IInv, SizesAgree
    <3>2. /\ Cardinality(Of(cl)) \in Nat \ {0}
          /\ Cardinality(Of(cl) \ {e}) = Cardinality(Of(cl)) - 1
      BY <1>3, <1>4
    <3> HIDE DEF cl
    <3>3. QED
      BY <2>1, <3>1, <3>2
  <2>4. info' = [info EXCEPT ![cl] = Discharged(info[cl])]
    BY <1>1 DEF ClassSizeAfterPop
  <2>5. /\ Discharged(info[cl]) \in QueueInfoPri
        /\ Discharged(info[cl]).size = info[cl].size - 1
        /\ Discharged(info[cl]).last_sent = info[cl].last_sent
    <3>1. info[cl] \in QueueInfoPri
      BY <1>2 DEF IInv, TypeOK
    <3> HIDE DEF cl
    <3>2. QED
      BY <2>3, <3>1 DEF Discharged, QueueInfoPri
  <2> HIDE DEF cl
  <2>6. /\ info'[cl] = Discharged(info[cl])
        /\ \A c \in Classes : c # cl => info'[c] = info[c]
    BY <1>2, <2>4 DEF IInv, TypeOK
  <2>7. info' \in [Classes -> QueueInfoPri]
    BY <1>2, <2>4, <2>5 DEF IInv, TypeOK
  <2>8. QED
    BY <2>2, <2>3, <2>5, <2>6, <2>7 DEF IInv, SizesAgree
<1>9. TypeOK'
  <2>1. queues' \subseteq QueueElements
    BY <1>1 DEF IInv, TypeOK
  <2>2. served' \in [Classes -> Nat]
    <3>1. served[cl] + 1 \in Nat
      BY <1>2 DEF IInv, TypeOK
    <3>2. served' = [served EXCEPT ![cl] = served[cl] + 1]
      BY <1>1
    <3> HIDE DEF cl
    <3>3. QED
      BY <1>2, <3>1, <3>2 DEF IInv, TypeOK
  <2>3. /\ info' \in [Classes -> QueueInfoPri]
        /\ q_size' \in [Ports -> Nat]
        /\ w_size' \in Nat
    BY <1>6, <1>7, <1>8
  <2>4. UNCHANGED <<now, capacity, queue_rate_pps, known, wrapping_counter, calls>>
    BY <1>1 DEF config
  <2>5. QED
    BY <2>1, <2>2, <2>3, <2>4 DEF IInv, TypeOK
<1>10. IsFiniteSet(queues')
  BY <1>1, FS_RemoveElement DEF IInv
<1>11. KnownPorts' /\ UniqueIds'
  BY <1>1 DEF IInv, KnownPorts, UniqueIds
<1>12. SizesAgree'
  BY <1>6, <1>7, <1>8 DEF SizesAgree
<1>13. ReleaseOrder'
  <2>1. \A f \in queues : <<f.queue_id, f.priority>> \in Classes
    BY DEF IInv, TypeOK, QueueElements, Classes
  <2>2. QED
    BY <1>1, <1>8, <2>1 DEF IInv, ReleaseOrder
<1>14. QED
  BY <1>9, <1>10, <1>11, <1>12, <1>13 DEF IInv

LEMMA TickInvariant ==
  ASSUME IInv, Tick
  PROVE  IInv'
<1>1. TypeOK'
  BY DEF IInv, TypeOK, Tick, config
<1>2. QED
  BY <1>1, QuietInvariant DEF Tick

(* Every step of the buffer preserves the invariant. *)
LEMMA NextInvariant ==
  ASSUME IInv, [Next]_vars
  PROVE  IInv'
<1>1. \A r \in Rates : RateToTime(r) \in Nat
  BY ConstantsAssumption, RateToTimeType
<1>2. Capacities \subseteq Nat /\ Rates \subseteq Nat
  BY ConstantsAssumption
<1>3. CASE \E q \in Ports, p \in Priorities :
             PushFront(q, p) \/ PushFrontFull(q, p)
  BY <1>3, PushFrontInvariant, PushFrontFullInvariant
<1>4. CASE PopBack
  BY <1>4, PopBackInvariant
<1>5. CASE \E q \in Ports, p \in Priorities, c \in Capacities :
             SetPriorityCapacity(q, p, c)
  BY <1>2, <1>5, ReconfigureInvariant DEF SetPriorityCapacity
<1>6. CASE \E q \in Ports, c \in Capacities : SetCapacity(q, c)
  BY <1>2, <1>6, ReconfigureInvariant DEF SetCapacity
<1>7. CASE \E q \in Ports, p \in Priorities, r \in Rates :
             SetPriorityRate(q, p, r)
  BY <1>1, <1>7, ReconfigureInvariant DEF SetPriorityRate
<1>8. CASE \E q \in Ports, r \in Rates : SetRate(q, r)
  BY <1>1, <1>8, ReconfigureInvariant DEF SetRate
<1>9. CASE \E c \in Capacities : SetCapacityForAll(c)
  <2>1. PICK c \in Capacities : SetCapacityForAll(c)
    BY <1>9
  <2>2. capacity' \in Nat /\ queue_rate_pps' \in Nat
    BY <1>2, <2>1 DEF SetCapacityForAll, IInv, TypeOK
  <2>3. QED
    BY <1>2, <2>1, <2>2, ReconfigureAllInvariant DEF SetCapacityForAll, config
<1>10. CASE \E r \in Rates : SetRateForAll(r)
  <2>1. PICK r \in Rates : SetRateForAll(r)
    BY <1>10
  <2>2. capacity' \in Nat /\ queue_rate_pps' \in Nat
    BY <1>2, <2>1 DEF SetRateForAll, IInv, TypeOK
  <2>3. QED
    BY <1>1, <2>1, <2>2, ReconfigureAllInvariant DEF SetRateForAll, config
<1>11. CASE Tick
  BY <1>11, TickInvariant
<1>12. CASE UNCHANGED vars
  <2>1. TypeOK'
    BY <1>12 DEF vars, config, IInv, TypeOK
  <2>2. QED
    BY <1>12, <2>1, QuietInvariant DEF vars, config
<1>13. QED
  BY <1>3, <1>4, <1>5, <1>6, <1>7, <1>8, <1>9, <1>10, <1>11, <1>12 DEF Next

-----------------------------------------------------------------------------

(* The inductive invariant holds in every reachable state. *)
THEOREM Invariant == Spec => []IInv
<1>1. Init => IInv
  BY InitInvariant
<1>2. IInv /\ [Next]_vars => IInv'
  BY NextInvariant
<1>3. QED
  BY <1>1, <1>2, PTL DEF Spec

(* No counter of the buffer ever underflows and every variable keeps its   *)
(* type, whatever is pushed, polled and reconfigured in whatever order.    *)
THEOREM TypeCorrect == Spec => []TypeOK
<1>1. IInv => TypeOK
  BY DEF IInv
<1>2. QED
  BY <1>1, Invariant, PTL

(* The worker's, the port's and the class's sizes always agree with what   *)
(* is queued, so no packet is stranded by a size that reads 0 too early.   *)
THEOREM SizesCorrect == Spec => []SizesAgree
<1>1. IInv => SizesAgree
  BY DEF IInv
<1>2. QED
  BY <1>1, Invariant, PTL

(* Within a class, release times follow the order of arrival. *)
THEOREM ReleaseOrdered == Spec => []ReleaseOrder
<1>1. IInv => ReleaseOrder
  BY DEF IInv
<1>2. QED
  BY <1>1, Invariant, PTL

-----------------------------------------------------------------------------
(* Queued elements and the classes they are in.                            *)

ClassOf(e) == <<e.queue_id, e.priority>>

LEMMA ElementTypes ==
  ASSUME IInv, NEW e \in queues
  PROVE  /\ e.send \in Nat /\ e.id \in Nat /\ e.id < wrapping_counter
         /\ ClassOf(e) \in Classes /\ e \in Of(ClassOf(e))
         /\ e.queue_id \in known
  BY DEF IInv, TypeOK, QueueElements, ReleaseOrder, Classes, ClassOf, Of, KnownPorts

(* The element pop_back takes out is the oldest of its class: it is at the *)
(* top of its priority_queue, so no element is due before it, and an older *)
(* one of its class would have been due no later.                          *)
LEMMA ServedOldest ==
  ASSUME IInv, NEW e \in queues, IsServed(e), NEW f \in Of(ClassOf(e))
  PROVE  e.id <= f.id
<1>1. f \in queues /\ f.queue_id = e.queue_id /\ f.priority = e.priority
  BY DEF Of, ClassOf
<1>2. e.id \in Nat /\ f.id \in Nat /\ e.send \in Nat /\ f.send \in Nat
  BY <1>1, ElementTypes
<1>3. Before(e, f)
  BY <1>1 DEF IsServed, IsTop
<1>4. f.id < e.id => f.send <= e.send
  BY <1>1 DEF IInv, ReleaseOrder
<1>5. QED
  BY <1>2, <1>3, <1>4 DEF Before

-----------------------------------------------------------------------------
(* The refinement of ClassFifos.                                           *)

(* A step that queues and releases nothing is a stutter of the FIFOs. *)
LEMMA StutterStep ==
  ASSUME UNCHANGED <<queues, wrapping_counter>>
  PROVE  UNCHANGED Fifos!vars
<1>1. \A c \in Classes : Of(c)' = Of(c)
  BY DEF Of
<1>2. QED
  BY <1>1 DEF Fifos!vars

(* An accepted packet takes the next ticket of its class. *)
LEMMA PushStep ==
  ASSUME IInv, NEW q \in Ports, NEW p \in Priorities, PushFront(q, p)
  PROVE  Fifos!Next
<1> DEFINE cl == <<q, p>>
           ids(S) == {e.id : e \in S}
<1>1. PICK tp :
        /\ queues' = queues \cup {[queue_id |-> q, priority |-> p, send |-> tp,
                                   id |-> wrapping_counter]}
        /\ wrapping_counter' = wrapping_counter + 1
  BY DEF PushFront
<1> DEFINE new == [queue_id |-> q, priority |-> p, send |-> tp,
                   id |-> wrapping_counter]
<1>2. cl \in Classes
  BY DEF Classes
<1>3. ids(Of(cl)') = ids(Of(cl)) \cup {wrapping_counter}
  <2>1. Of(cl)' = Of(cl) \cup {new} /\ new.id = wrapping_counter
    BY <1>1 DEF Of
  <2> HIDE DEF new
  <2>2. QED
    BY <2>1
<1>4. ASSUME NEW c \in Classes, c # cl
      PROVE  Of(c)' = Of(c)
  BY <1>1, <1>4 DEF Of
<1> HIDE DEF cl
<1>5. Fifos!Accept(cl)
  BY <1>1, <1>2, <1>3, <1>4 DEF Fifos!Accept
<1>6. QED
  BY <1>2, <1>5 DEF Fifos!Next

(* A release takes the oldest ticket of one class. *)
LEMMA PopStep ==
  ASSUME IInv, PopBack
  PROVE  Fifos!Next
<1> DEFINE ids(S) == {f.id : f \in S}
<1>1. PICK e \in queues : IsServed(e) /\ queues' = queues \ {e}
  BY DEF PopBack
<1>2. wrapping_counter' = wrapping_counter
  BY DEF PopBack
<1> DEFINE cl == <<e.queue_id, e.priority>>
<1>3. cl \in Classes
  BY DEF IInv, TypeOK, QueueElements, Classes
<1>4. e \in Of(cl)
  BY DEF Of
<1>5. \A f \in Of(cl) : e.id <= f.id
  BY <1>1, ServedOldest DEF ClassOf
<1>6. ids(Of(cl)') = ids(Of(cl)) \ {e.id}
  <2>1. Of(cl)' = Of(cl) \ {e}
    BY <1>1 DEF Of
  <2>2. \A f \in Of(cl) : f.id = e.id => f = e
    BY DEF IInv, UniqueIds, Of
  <2> HIDE DEF cl
  <2>3. QED
    BY <2>1, <2>2
<1>7. ASSUME NEW c \in Classes, c # cl
      PROVE  Of(c)' = Of(c)
  BY <1>1, <1>7 DEF Of
<1> HIDE DEF cl
<1>8. Fifos!Release(cl)
  <2> DEFINE w == [c \in Classes |-> {f.id : f \in Of(c)}]
  <2>1. e.id \in w[cl]
    BY <1>3, <1>4
  <2>2. \A u \in w[cl] : e.id <= u
    BY <1>3, <1>5
  <2>3. w' = [w EXCEPT ![cl] = @ \ {e.id}]
    BY <1>3, <1>6, <1>7
  <2> HIDE DEF w
  <2>4. \E t \in w[cl] : /\ \A u \in w[cl] : t <= u
                         /\ w' = [w EXCEPT ![cl] = @ \ {t}]
    BY <2>1, <2>2, <2>3
  <2>5. QED
    BY <1>2, <2>4 DEF Fifos!Release, w
<1>9. QED
  BY <1>3, <1>8 DEF Fifos!Next

(* The egress buffer implements one FIFO per class: nothing pushed is      *)
(* lost, duplicated or overtaken within its class, under any interleaving  *)
(* of pushes, polls, rate and capacity changes.                            *)
THEOREM BufferImplementsFifos == Spec => ImplementsFifos
<1>1. Init => Fifos!Init
  BY DEF Init, Fifos!Init, Of
<1>2. IInv /\ [Next]_vars => [Fifos!Next]_(Fifos!vars)
  <2> SUFFICES ASSUME IInv, [Next]_vars
               PROVE  Fifos!Next \/ UNCHANGED Fifos!vars
    OBVIOUS
  <2>1. CASE \E q \in Ports, p \in Priorities : PushFront(q, p)
    BY <2>1, PushStep
  <2>2. CASE PopBack
    BY <2>2, PopStep
  <2>3. CASE UNCHANGED <<queues, wrapping_counter>>
    BY <2>3, StutterStep
  <2>4. QED
    BY <2>1, <2>2, <2>3
    DEF Next, PushFrontFull, Reconfigure, ReconfigureAll, SetPriorityCapacity,
        SetCapacity, SetPriorityRate, SetRate, SetCapacityForAll,
        SetRateForAll, Tick, vars
<1>3. QED
  BY <1>1, <1>2, Invariant, PTL DEF Spec, ImplementsFifos, Fifos!Spec

-----------------------------------------------------------------------------
(* Packet times: the fastest and the slowest exist, however many rates     *)
(* there are, because a packet time is at most a second.                   *)

(* The least-number principle, from the order of finite sets by inclusion. *)
LEMMA LeastNatural ==
  ASSUME NEW S \in SUBSET Nat, S # {}
  PROVE  \E m \in S : \A x \in S : m <= x
<1> DEFINE T == {0 .. n : n \in S}
<1>1. T \subseteq FiniteSubsetsOf(Nat) /\ T # {}
  <2>1. \A n \in Nat : IsFiniteSet(0 .. n) /\ 0 .. n \in SUBSET Nat
    BY FS_Interval
  <2>2. QED
    BY <2>1 DEF FiniteSubsetsOf
<1>2. PICK t \in T : \A u \in T : <<u, t>> \notin StrictSubsetOrdering(Nat)
  BY <1>1, WFMin, FS_StrictSubsetOrderingWellFounded
<1>3. PICK m \in S : t = 0 .. m
  OBVIOUS
<1>4. ASSUME NEW x \in S, x < m PROVE FALSE
  <2>1. 0 .. x \in SUBSET Nat /\ t \in SUBSET Nat /\ 0 .. x \subseteq t /\ 0 .. x # t
    BY <1>3, <1>4
  <2>2. QED
    BY <1>2, <2>1 DEF StrictSubsetOrdering
<1>5. QED
  BY <1>4

LEMMA DelayBounds ==
  /\ AllDelays \subseteq Nat
  /\ MinDelay \in AllDelays /\ \A d \in AllDelays : MinDelay <= d
  /\ MaxDelay \in AllDelays /\ \A d \in AllDelays : d <= MaxDelay
<1>1. \A pps \in Nat : RateToTime(pps) \in 0 .. Second
  <2>1. \A k \in Nat \ {0} : Second \div k \in 0 .. Second
    BY ConstantsAssumption
  <2>2. QED
    BY <2>1 DEF RateToTime
<1>2. AllDelays \subseteq 0 .. Second /\ AllDelays # {}
  BY <1>1, ConstantsAssumption DEF AllDelays
<1>3. \E d \in AllDelays : \A x \in AllDelays : d <= x
  BY <1>2, LeastNatural, ConstantsAssumption
<1>4. \E d \in AllDelays : \A x \in AllDelays : d >= x
  <2> DEFINE S == {Second - d : d \in AllDelays}
  <2>1. \A d \in AllDelays : d \in Nat /\ Second - d \in Nat
    BY <1>2, ConstantsAssumption
  <2>2. S \in SUBSET Nat /\ S # {}
    BY <1>2, <2>1
  <2>3. PICK m \in S : \A x \in S : m <= x
    BY <2>2, LeastNatural
  <2>4. PICK d \in AllDelays : m = Second - d
    BY <2>3
  <2>5. \A x \in AllDelays : Second - d <= Second - x
    BY <2>3, <2>4
  <2>6. \A x \in AllDelays : d >= x
    BY <2>1, <2>5, ConstantsAssumption
  <2>7. QED
    BY <2>6
<1>5. MinDelay \in AllDelays /\ \A x \in AllDelays : MinDelay <= x
  BY <1>3 DEF MinDelay
<1>6. MaxDelay \in AllDelays /\ \A x \in AllDelays : MaxDelay >= x
  BY <1>4 DEF MaxDelay
<1>7. AllDelays \subseteq Nat
  BY <1>2, ConstantsAssumption
<1>8. QED
  BY <1>5, <1>6, <1>7

-----------------------------------------------------------------------------
(* The second invariant: how early and how late a packet can be due.       *)

(* Of the class of e: what is not younger than e; what is younger than a   *)
(* packet with the number n; what is younger than g and not than e.        *)
Ahead(e) == {f \in queues : /\ f.queue_id = e.queue_id
                            /\ f.priority = e.priority
                            /\ f.id <= e.id}
After(c, n) == {f \in Of(c) : n < f.id}
Between(g, e) == {f \in Of(ClassOf(e)) : g.id < f.id /\ f.id <= e.id}

(* The clock of a class is never behind what its fastest rate allows.  A   *)
(* port's clock starts when get_queue creates it, at any time.             *)
Paced ==
  /\ queue_rate_pps \in Rates \cup {SwitchRate}
  /\ \A c \in Classes : info[c].delay \in AllDelays
  /\ \A c \in Classes : c[1] \notin known => served[c] = 0
  /\ \A c \in Classes : c[1] \in known =>
       (served[c] + Cardinality(Of(c))) * MinDelay <= info[c].last_sent
  /\ \A e \in queues :
       (served[ClassOf(e)] + Cardinality(Ahead(e))) * MinDelay <= e.send
  /\ RateLimited

(* x is at most n slowest packet times after s, or after now. *)
Within(x, s, n) == x <= now + MaxDelay * n \/ x <= s + MaxDelay * n

(* Nor is it further ahead than its slowest rate can have put it, counted  *)
(* from now or from the release time of any packet that still waits: what  *)
(* a packet waits for does not depend on those released before it.         *)
Prompt ==
  /\ \A c \in Classes : info[c].last_sent <= now + MaxDelay * Cardinality(Of(c))
  /\ \A c \in Classes : \A g \in Of(c) :
       Within(info[c].last_sent, g.send, Cardinality(After(c, g.id)))
  /\ \A e \in queues : e.send <= now + MaxDelay * Cardinality(Ahead(e))
  /\ \A g, e \in queues : ClassOf(g) = ClassOf(e) /\ g.id < e.id =>
       Within(e.send, g.send, Cardinality(Between(g, e)))

RInv == IInv /\ Paced /\ Prompt

LEMMA Multiples ==
  ASSUME NEW m \in Nat, NEW n \in Nat
  PROVE  /\ m * n \in Nat /\ n * m \in Nat
         /\ (n + 1) * m = n * m + m /\ m * (n + 1) = m * n + m
         /\ 0 * m = 0 /\ m * 0 = 0
  OBVIOUS

(* The parts of a class are finite. *)
LEMMA PartsFinite ==
  ASSUME IInv
  PROVE  /\ \A c : IsFiniteSet(Of(c)) /\ Cardinality(Of(c)) \in Nat
         /\ \A e : IsFiniteSet(Ahead(e)) /\ Cardinality(Ahead(e)) \in Nat
         /\ \A c, n : IsFiniteSet(After(c, n)) /\ Cardinality(After(c, n)) \in Nat
         /\ \A g, e : IsFiniteSet(Between(g, e)) /\ Cardinality(Between(g, e)) \in Nat
<1>1. \A S \in SUBSET queues : IsFiniteSet(S) /\ Cardinality(S) \in Nat
  BY FS_Subset, FS_CardinalityType DEF IInv
<1>2. /\ \A c : Of(c) \in SUBSET queues
      /\ \A e : Ahead(e) \in SUBSET queues
      /\ \A c, n : After(c, n) \in SUBSET queues
      /\ \A g, e : Between(g, e) \in SUBSET queues
  BY DEF Of, Ahead, After, Between
<1>3. QED
  BY <1>1, <1>2

(* A class of a port that does not exist yet has served nothing and holds  *)
(* nothing; get_queue starts its clock now.                                *)
LEMMA NewPortPaced ==
  ASSUME RInv, NEW q \in Ports
  PROVE  /\ \A c \in Classes : c[1] \notin known => Of(c) = {}
         /\ \A c \in Classes : GetQueue(q)[c].delay \in AllDelays
         /\ \A c \in Classes : c[1] \notin known => GetQueue(q)[c].last_sent <= now
<1>1. \A c \in Classes : c[1] \notin known => Of(c) = {}
  BY DEF RInv, IInv, KnownPorts, Of, Classes
<1>2. NewQueueInfoPri.delay \in AllDelays /\ NewQueueInfoPri.last_sent = now
  BY DEF RInv, Paced, NewQueueInfoPri, AllDelays
<1>3. \A c \in Classes : c[1] \notin known => info[c].last_sent <= now
  <2>1. MaxDelay * 0 = 0 /\ now + 0 = now
    BY DelayBounds DEF RInv, IInv, TypeOK
  <2>2. \A c \in Classes : c[1] \notin known => Cardinality(Of(c)) = 0
    BY <1>1, FS_EmptySet
  <2>3. QED
    BY <2>1, <2>2 DEF RInv, Prompt
<1>4. now <= now
  BY DEF RInv, IInv, TypeOK
<1>5. QED
  BY <1>1, <1>2, <1>3, <1>4 DEF RInv, Paced, GetQueue

(* What releases and accepts nothing keeps both bounds: time may pass,     *)
(* rates may change, ports may be created.                                 *)
LEMMA QuietPaced ==
  ASSUME RInv, IInv', UNCHANGED <<queues, served>>, known \subseteq known', now <= now',
         queue_rate_pps' \in Rates \cup {SwitchRate},
         \A c \in Classes : info'[c].delay \in AllDelays,
         \A c \in Classes : c[1] \in known => info'[c].last_sent = info[c].last_sent,
         \A c \in Classes : c[1] \notin known => info'[c].last_sent <= now'
  PROVE  Paced' /\ Prompt'
<1>1. /\ MinDelay \in Nat /\ MaxDelay \in Nat
      /\ now \in Nat /\ now' \in Nat
      /\ \A c \in Classes : info[c].last_sent \in Nat /\ info'[c].last_sent \in Nat
  BY DelayBounds DEF RInv, IInv, TypeOK, QueueInfoPri
<1>2. /\ \A c : Of(c)' = Of(c)
      /\ \A e : Ahead(e)' = Ahead(e)
      /\ \A c, n : After(c, n)' = After(c, n)
      /\ \A g, e : Between(g, e)' = Between(g, e)
  BY DEF Of, Ahead, After, Between
<1>3. \A c \in Classes : c[1] \notin known =>
        Of(c) = {} /\ Cardinality(Of(c)) = 0 /\ served[c] = 0
  <2>1. \A c \in Classes : c[1] \notin known => Of(c) = {}
    BY DEF RInv, IInv, KnownPorts, Of, Classes
  <2>2. QED
    BY <2>1, FS_EmptySet DEF RInv, Paced
<1>4. Paced'
  <2>1. ASSUME NEW c \in Classes
        PROVE  (served[c] + Cardinality(Of(c))) * MinDelay <= info'[c].last_sent
    <3>1. CASE c[1] \in known
      BY <3>1 DEF RInv, Paced
    <3>2. CASE c[1] \notin known
      <4>1. served[c] + Cardinality(Of(c)) = 0
        BY <1>3, <3>2
      <4>2. 0 * MinDelay = 0
        BY <1>1
      <4>3. QED
        BY <1>1, <4>1, <4>2
    <3>3. QED
      BY <3>1, <3>2
  <2>2. RateLimited'
    <3>1. \A c \in Classes : served[c] * MinDelay <= now /\ served[c] * MinDelay \in Nat
      BY <1>1, Multiples DEF RInv, IInv, TypeOK, Paced, RateLimited
    <3>2. \A c \in Classes : served[c] * MinDelay <= now'
      BY <1>1, <3>1
    <3>3. QED
      BY <3>2 DEF RateLimited
  <2>3. QED
    BY <1>2, <2>1, <2>2 DEF RInv, Paced
<1>5. ASSUME NEW x \in Nat, NEW s \in Nat, NEW n \in Nat, Within(x, s, n)
      PROVE  Within(x, s, n)'
  <2>1. PICK k \in Nat : k = MaxDelay * n
    BY <1>1, Multiples
  <2>2. x <= now + k \/ x <= s + k
    BY <1>5, <2>1 DEF Within
  <2>3. x <= now' + k \/ x <= s + k
    BY <1>1, <2>2
  <2>4. QED
    BY <2>1, <2>3 DEF Within
<1>6. Prompt'
  <2>1. ASSUME NEW c \in Classes
        PROVE  info'[c].last_sent <= now' + MaxDelay * Cardinality(Of(c))
    <3>1. CASE c[1] \in known
      <4>1. MaxDelay * Cardinality(Of(c)) \in Nat
        BY <1>1, Multiples, PartsFinite DEF RInv
      <4>2. QED
        BY <1>1, <3>1, <4>1 DEF RInv, Prompt
    <3>2. CASE c[1] \notin known
      BY <1>1, <1>3, <3>2
    <3>3. QED
      BY <3>1, <3>2
  <2>2. ASSUME NEW c \in Classes, NEW g \in Of(c)
        PROVE  Within(info[c].last_sent, g.send, Cardinality(After(c, g.id)))'
    <3>1. g \in queues /\ c[1] \in known
      BY <1>3 DEF Of
    <3>2. info'[c].last_sent = info[c].last_sent
      BY <3>1
    <3>3. Within(info[c].last_sent, g.send, Cardinality(After(c, g.id)))
      BY DEF RInv, Prompt
    <3>4. g.send \in Nat /\ Cardinality(After(c, g.id)) \in Nat
      BY <3>1, ElementTypes, PartsFinite DEF RInv
    <3>5. QED
      BY <1>1, <1>2, <1>5, <3>2, <3>3, <3>4 DEF Within
  <2>3. ASSUME NEW e \in queues
        PROVE  e.send <= now' + MaxDelay * Cardinality(Ahead(e))
    <3>1. e.send \in Nat /\ MaxDelay * Cardinality(Ahead(e)) \in Nat
      BY <1>1, ElementTypes, PartsFinite, Multiples DEF RInv
    <3>2. QED
      BY <1>1, <3>1 DEF RInv, Prompt
  <2>4. ASSUME NEW g \in queues, NEW e \in queues, ClassOf(g) = ClassOf(e), g.id < e.id
        PROVE  Within(e.send, g.send, Cardinality(Between(g, e)))'
    <3>1. Within(e.send, g.send, Cardinality(Between(g, e)))
      BY <2>4 DEF RInv, Prompt
    <3>2. e.send \in Nat /\ g.send \in Nat /\ Cardinality(Between(g, e)) \in Nat
      BY ElementTypes, PartsFinite DEF RInv
    <3>3. QED
      BY <1>2, <1>5, <3>1, <3>2 DEF Within
  <2>5. QED
    BY <1>2, <2>1, <2>2, <2>3, <2>4 DEF Prompt, ClassOf
<1>7. QED
  BY <1>4, <1>6

(* What an accepted packet does to the parts of its class: it is the       *)
(* youngest, so it joins what is younger than each of the others.          *)
LEMMA PushParts ==
  ASSUME IInv, NEW new, new.id = wrapping_counter,
         queues' = queues \cup {new}
  PROVE  /\ new \notin queues
         /\ Of(ClassOf(new))' = Of(ClassOf(new)) \cup {new}
         /\ \A c : c # ClassOf(new) => Of(c)' = Of(c)
         /\ Ahead(new)' = Of(ClassOf(new)) \cup {new}
         /\ \A e \in queues : Ahead(e)' = Ahead(e)
         /\ \A g \in Of(ClassOf(new)) :
              After(ClassOf(new), g.id)' = After(ClassOf(new), g.id) \cup {new}
         /\ After(ClassOf(new), new.id)' = {}
         /\ \A c, n : c # ClassOf(new) => After(c, n)' = After(c, n)
         /\ \A g, e \in queues : Between(g, e)' = Between(g, e)
         /\ \A g \in Of(ClassOf(new)) : Between(g, new)' = After(ClassOf(new), g.id) \cup {new}
<1>1. /\ wrapping_counter \in Nat
      /\ \A e \in queues : e.id \in Nat /\ e.id < wrapping_counter
  BY ElementTypes DEF IInv, TypeOK
<1>2. new \notin queues /\ \A e \in queues : e.id < new.id /\ ~(new.id <= e.id) /\ e.id <= new.id
  BY <1>1
<1>3. ~(new.id < new.id) /\ new.id <= new.id
  BY <1>1
<1>4. /\ Of(ClassOf(new))' = Of(ClassOf(new)) \cup {new}
      /\ \A c : c # ClassOf(new) => Of(c)' = Of(c)
  BY DEF Of, ClassOf
<1>5. Ahead(new)' = Of(ClassOf(new)) \cup {new} /\ \A e \in queues : Ahead(e)' = Ahead(e)
  BY <1>2, <1>3 DEF Ahead, Of, ClassOf
<1>6. Of(ClassOf(new)) \subseteq queues
  BY DEF Of
<1>7. \A g \in Of(ClassOf(new)) :
        After(ClassOf(new), g.id)' = After(ClassOf(new), g.id) \cup {new}
  BY <1>2, <1>4, <1>6 DEF After
<1>8. /\ After(ClassOf(new), new.id)' = {}
      /\ \A c, n : c # ClassOf(new) => After(c, n)' = After(c, n)
  <2>1. \A f \in Of(ClassOf(new))' : ~(new.id < f.id)
    BY <1>1, <1>2, <1>3, <1>4, <1>6
  <2>2. QED
    BY <1>4, <2>1 DEF After
<1>9. \A g, e \in queues : Between(g, e)' = Between(g, e)
  BY <1>2 DEF Between, Of
<1>10. \A g \in Of(ClassOf(new)) : Between(g, new)' = After(ClassOf(new), g.id) \cup {new}
  <2>1. \A f \in Of(ClassOf(new))' : f.id <= new.id
    BY <1>2, <1>3, <1>4, <1>6
  <2>2. \A g \in Of(ClassOf(new)) : Between(g, new)' = After(ClassOf(new), g.id)'
    BY <2>1 DEF Between, After
  <2>3. QED
    BY <1>7, <2>2
<1>11. QED
  BY <1>2, <1>4, <1>5, <1>7, <1>8, <1>9, <1>10

(* A packet accepted now is due one packet time after the class's last     *)
(* one, at most; or at once.                                               *)
LEMMA NextTpBounds ==
  ASSUME NEW i \in QueueInfoPri, i.delay \in AllDelays, now \in Nat,
         NEW k \in Nat, NEW s \in Nat
  PROVE  /\ k <= i.last_sent => k + MinDelay <= NextTp(i)
         /\ i.last_sent <= now + k \/ i.last_sent <= s + k =>
              NextTp(i) <= now + (k + MaxDelay) \/ NextTp(i) <= s + (k + MaxDelay)
<1>1. /\ MinDelay \in Nat /\ MaxDelay \in Nat /\ i.delay \in Nat /\ i.last_sent \in Nat
      /\ MinDelay <= i.delay /\ i.delay <= MaxDelay
  BY DelayBounds DEF QueueInfoPri
<1>2. QED
  BY <1>1 DEF NextTp

LEMMA PushPaced ==
  ASSUME RInv, IInv', NEW q \in Ports, NEW p \in Priorities, PushFront(q, p)
  PROVE  Paced' /\ Prompt'
<1> DEFINE cl == <<q, p>>
           infos == GetQueue(q)
<1> PICK tp : tp = NextTp(infos[cl])
  OBVIOUS
<1> PICK new : new = [queue_id |-> q, priority |-> p, send |-> tp, id |-> wrapping_counter]
  OBVIOUS
<1> PICK n : n = Cardinality(Of(cl))
  OBVIOUS
<1>1. cl \in Classes /\ IInv /\ ClassOf(new) = cl /\ new.id = wrapping_counter /\ new.send = tp
  BY DEF Classes, RInv, ClassOf
<1>2. /\ infos \in [Classes -> QueueInfoPri]
      /\ \A c \in Classes : c[1] \in known => infos[c] = info[c]
      /\ \A c \in Classes : infos[c].delay \in AllDelays
      /\ \A c \in Classes : c[1] \notin known => infos[c].last_sent <= now /\ Of(c) = {}
  BY <1>1, GetQueueProperties, NewPortPaced
<1>3. /\ known' = known \cup {q}
      /\ info' = [infos EXCEPT ![cl] = Charged(infos[cl], tp)]
      /\ queues' = queues \cup {new}
      /\ UNCHANGED <<now, queue_rate_pps, served>>
  BY DEF PushFront, config
<1>4. /\ now \in Nat /\ MinDelay \in Nat /\ MaxDelay \in Nat /\ served[cl] \in Nat
      /\ infos[cl] \in QueueInfoPri /\ infos[cl].last_sent \in Nat /\ n \in Nat
  BY <1>1, <1>2, DelayBounds, PartsFinite DEF RInv, IInv, TypeOK, QueueInfoPri
<1>5. tp \in Nat
  BY <1>4, NextTpProperties
<1> HIDE DEF infos
<1>6. /\ info'[cl] = Charged(infos[cl], tp)
      /\ \A c \in Classes : c # cl => info'[c] = infos[c]
  BY <1>1, <1>2, <1>3
<1>7. info'[cl].last_sent = tp /\ info'[cl].delay \in AllDelays
  BY <1>1, <1>2, <1>6 DEF Charged
<1>8. /\ new \notin queues
      /\ Of(cl)' = Of(cl) \cup {new}
      /\ \A c : c # cl => Of(c)' = Of(c)
      /\ Ahead(new)' = Of(cl) \cup {new}
      /\ \A e \in queues : Ahead(e)' = Ahead(e)
      /\ \A g \in Of(cl) : After(cl, g.id)' = After(cl, g.id) \cup {new}
      /\ After(cl, new.id)' = {}
      /\ \A c, m : c # cl => After(c, m)' = After(c, m)
      /\ \A g, e \in queues : Between(g, e)' = Between(g, e)
      /\ \A g \in Of(cl) : Between(g, new)' = After(cl, g.id) \cup {new}
  BY <1>1, <1>3, PushParts
<1> HIDE DEF cl
<1>9. ASSUME NEW S \in SUBSET queues
      PROVE  Cardinality(S \cup {new}) = Cardinality(S) + 1
  <2>1. IsFiniteSet(S) /\ new \notin S
    BY <1>1, <1>8, FS_Subset DEF IInv
  <2>2. QED
    BY <2>1, FS_AddElement
<1>10. /\ Cardinality(Of(cl)') = n + 1 /\ Cardinality(Ahead(new)') = n + 1
       /\ \A g \in Of(cl) : /\ Cardinality(After(cl, g.id)') = Cardinality(After(cl, g.id)) + 1
                            /\ Cardinality(Between(g, new)') = Cardinality(After(cl, g.id)) + 1
       /\ Cardinality(After(cl, new.id)') = 0
  BY <1>8, <1>9, FS_EmptySet DEF Of, After
<1>11. (served[cl] + n) * MinDelay <= infos[cl].last_sent
  <2>1. CASE cl[1] \in known
    BY <1>1, <1>2, <2>1 DEF RInv, Paced
  <2>2. CASE cl[1] \notin known
    <3>1. n = 0 /\ served[cl] = 0
      BY <1>1, <1>2, <2>2, FS_EmptySet DEF RInv, Paced
    <3>2. (0 + 0) * MinDelay = 0
      BY <1>4
    <3>3. QED
      BY <1>4, <3>1, <3>2
  <2>3. QED
    BY <2>1, <2>2
<1>12. infos[cl].last_sent <= now + MaxDelay * n
  <2>1. CASE cl[1] \in known
    BY <1>1, <1>2, <2>1 DEF RInv, Prompt
  <2>2. CASE cl[1] \notin known
    BY <1>1, <1>2, <1>4, <2>2, Multiples
  <2>3. QED
    BY <2>1, <2>2
<1>13. (served[cl] + (n + 1)) * MinDelay <= tp
  <2>1. PICK k \in Nat : k = (served[cl] + n) * MinDelay
    BY <1>4, Multiples
  <2>2. served[cl] + (n + 1) = (served[cl] + n) + 1 /\ served[cl] + n \in Nat
    BY <1>4
  <2>3. (served[cl] + (n + 1)) * MinDelay = k + MinDelay
    BY <1>4, <2>1, <2>2, Multiples
  <2>4. QED
    BY <1>1, <1>2, <1>4, <1>11, <2>1, <2>3, NextTpBounds
<1>14. ASSUME NEW s \in Nat, NEW m \in Nat, Within(infos[cl].last_sent, s, m)
       PROVE  Within(tp, s, m + 1)
  <2>1. PICK k \in Nat : k = MaxDelay * m
    BY <1>4, Multiples
  <2>2. MaxDelay * (m + 1) = k + MaxDelay
    BY <1>4, <2>1, Multiples
  <2>3. QED
    BY <1>1, <1>2, <1>4, <1>14, <2>1, <2>2, NextTpBounds DEF Within
<1>15. tp <= now + MaxDelay * (n + 1)
  BY <1>4, <1>12, <1>14 DEF Within
<1>16. \A g \in Of(cl) :
         /\ g \in queues /\ g.send \in Nat /\ Cardinality(After(cl, g.id)) \in Nat
         /\ Within(infos[cl].last_sent, g.send, Cardinality(After(cl, g.id)))
  <2>1. \A g \in Of(cl) : g \in queues /\ cl[1] \in known
    BY <1>2, <1>1 DEF Of
  <2>2. QED
    BY <1>1, <1>2, <2>1, ElementTypes, PartsFinite DEF RInv, Prompt
<1>17. Paced'
  <2>1. \A c \in Classes : info'[c].delay \in AllDelays
    BY <1>2, <1>6, <1>7
  <2>2. \A c \in Classes : c[1] \notin known' => served'[c] = 0
    BY <1>3 DEF RInv, Paced
  <2>3. ASSUME NEW c \in Classes, c[1] \in known'
        PROVE  (served'[c] + Cardinality(Of(c)')) * MinDelay <= info'[c].last_sent
    <3>1. CASE c = cl
      BY <1>3, <1>7, <1>10, <1>13, <3>1
    <3>2. CASE c # cl /\ c[1] \in known
      BY <1>2, <1>3, <1>6, <1>8, <3>2 DEF RInv, Paced
    <3>3. CASE c # cl /\ c[1] \notin known
      <4>1. served'[c] = 0 /\ Cardinality(Of(c)') = 0
        BY <1>2, <1>3, <1>8, <3>3, FS_EmptySet DEF RInv, Paced
      <4>2. info'[c].last_sent \in Nat
        BY <1>2, <1>6, <3>3 DEF QueueInfoPri
      <4>3. (0 + 0) * MinDelay = 0
        BY <1>4
      <4>4. QED
        BY <4>1, <4>2, <4>3
    <3>4. QED
      BY <3>1, <3>2, <3>3
  <2>4. ASSUME NEW e \in queues'
        PROVE  (served'[ClassOf(e)] + Cardinality(Ahead(e)')) * MinDelay <= e.send
    <3>1. CASE e = new
      BY <1>1, <1>3, <1>10, <1>13, <3>1
    <3>2. CASE e \in queues
      BY <1>3, <1>8, <3>2 DEF RInv, Paced
    <3>3. QED
      BY <1>3, <3>1, <3>2
  <2>5. RateLimited'
    BY <1>3 DEF RInv, Paced, RateLimited
  <2>6. QED
    BY <1>3, <2>1, <2>2, <2>3, <2>4, <2>5 DEF Paced, RInv, ClassOf
<1>18. Prompt'
  <2>1. ASSUME NEW c \in Classes
        PROVE  info'[c].last_sent <= now + MaxDelay * Cardinality(Of(c)')
    <3>1. CASE c = cl
      BY <1>7, <1>10, <1>15, <3>1
    <3>2. CASE c # cl /\ c[1] \in known
      BY <1>2, <1>6, <1>8, <3>2 DEF RInv, Prompt
    <3>3. CASE c # cl /\ c[1] \notin known
      <4>1. info'[c].last_sent <= now /\ Cardinality(Of(c)') = 0
        BY <1>2, <1>6, <1>8, <3>3, FS_EmptySet
      <4>2. MaxDelay * 0 = 0
        BY <1>4
      <4>3. QED
        BY <1>4, <4>1, <4>2
    <3>4. QED
      BY <3>1, <3>2, <3>3
  <2>2. ASSUME NEW c \in Classes, NEW g \in Of(c)'
        PROVE  Within(info'[c].last_sent, g.send, Cardinality(After(c, g.id)'))
    <3>1. CASE c = cl /\ g = new
      BY <1>1, <1>4, <1>5, <1>7, <1>10, <3>1 DEF Within
    <3>2. CASE c = cl /\ g \in Of(cl)
      BY <1>7, <1>10, <1>14, <1>16, <3>2
    <3>3. CASE c # cl
      <4>1. g \in Of(c) /\ c[1] \in known
        BY <1>2, <1>8, <3>3
      <4>2. QED
        BY <1>2, <1>6, <1>8, <3>3, <4>1 DEF RInv, Prompt
    <3>4. QED
      BY <1>8, <3>1, <3>2, <3>3
  <2>3. ASSUME NEW e \in queues'
        PROVE  e.send <= now + MaxDelay * Cardinality(Ahead(e)')
    <3>1. CASE e = new
      BY <1>1, <1>10, <1>15, <3>1
    <3>2. CASE e \in queues
      BY <1>8, <3>2 DEF RInv, Prompt
    <3>3. QED
      BY <1>3, <3>1, <3>2
  <2>4. ASSUME NEW g \in queues', NEW e \in queues', ClassOf(g) = ClassOf(e), g.id < e.id
        PROVE  Within(e.send, g.send, Cardinality(Between(g, e)'))
    <3>1. \A f \in queues : f.id < new.id /\ f.id \in Nat /\ new.id \in Nat
      BY <1>1, ElementTypes DEF IInv, TypeOK
    <3>2. g \in queues
      <4>1. CASE e = new
        BY <1>1, <1>3, <2>4, <3>1, <4>1 DEF IInv, TypeOK
      <4>2. CASE e \in queues
        BY <1>1, <1>3, <2>4, <3>1, <4>2 DEF IInv, TypeOK
      <4>3. QED
        BY <1>3, <4>1, <4>2
    <3>3. CASE e = new
      <4>1. g \in Of(cl)
        BY <1>1, <2>4, <3>2, <3>3, ElementTypes
      <4>2. QED
        BY <1>1, <1>10, <1>14, <1>16, <3>3, <4>1
    <3>4. CASE e \in queues
      BY <1>8, <2>4, <3>2, <3>4 DEF RInv, Prompt
    <3>5. QED
      BY <1>3, <3>3, <3>4
  <2>5. QED
    BY <1>3, <2>1, <2>2, <2>3, <2>4 DEF Prompt, Within, ClassOf
<1>19. QED
  BY <1>17, <1>18

(* What releasing the oldest packet h of a class does to the parts of it:  *)
(* it leaves the class and what is not younger than any of the others, and *)
(* what is left of either is what was younger than h.                      *)
LEMMA PopParts ==
  ASSUME IInv, NEW h \in queues, queues' = queues \ {h},
         \A f \in Of(ClassOf(h)) : h.id <= f.id
  PROVE  /\ h \in Of(ClassOf(h)) /\ Ahead(h) = {h}
         /\ Of(ClassOf(h))' = Of(ClassOf(h)) \ {h}
         /\ Of(ClassOf(h))' = After(ClassOf(h), h.id)
         /\ \A c : c # ClassOf(h) => Of(c)' = Of(c)
         /\ \A e \in queues' : ClassOf(e) = ClassOf(h) =>
              h.id < e.id /\ h \in Ahead(e) /\ Ahead(e)' = Ahead(e) \ {h}
              /\ Ahead(e)' = Between(h, e)
         /\ \A e \in queues' : ClassOf(e) # ClassOf(h) => Ahead(e)' = Ahead(e)
         /\ \A c : \A g \in Of(c)' : After(c, g.id)' = After(c, g.id)
         /\ \A g, e \in queues' : ClassOf(g) = ClassOf(e) => Between(g, e)' = Between(g, e)
<1>1. \A f \in queues : f.id \in Nat /\ (f.id = h.id => f = h)
  BY ElementTypes DEF IInv, UniqueIds
<1>2. \A f \in queues' : f \in queues /\ f # h /\ (ClassOf(f) = ClassOf(h) => h.id < f.id)
  <2>1. \A f \in queues' : f \in queues /\ f # h
    OBVIOUS
  <2>2. \A f \in queues' : ClassOf(f) = ClassOf(h) => f \in Of(ClassOf(h))
    BY DEF Of, ClassOf
  <2>3. QED
    BY <1>1, <2>1, <2>2
<1>3. ~(h.id < h.id) /\ h.id \in Nat
  BY <1>1
<1>4. /\ h \in Of(ClassOf(h)) /\ Of(ClassOf(h))' = Of(ClassOf(h)) \ {h}
      /\ \A c : c # ClassOf(h) => Of(c)' = Of(c)
  BY DEF Of, ClassOf
<1>5. Of(ClassOf(h))' = After(ClassOf(h), h.id)
  BY <1>2, <1>3, <1>4 DEF After, Of, ClassOf
<1>6. ASSUME NEW e \in queues', ClassOf(e) = ClassOf(h)
      PROVE  h.id < e.id /\ h \in Ahead(e) /\ Ahead(e)' = Ahead(e) \ {h}
             /\ Ahead(e)' = Between(h, e)
  <2>1. h.id < e.id /\ h.id <= e.id
    BY <1>1, <1>2, <1>6
  <2>2. h \in Ahead(e) /\ Ahead(e)' = Ahead(e) \ {h}
    BY <1>6, <2>1 DEF Ahead, ClassOf
  <2>3. Between(h, e) = {f \in Of(ClassOf(h))' : f.id <= e.id}
    BY <1>5, <1>6 DEF Between, After
  <2>4. QED
    BY <1>6, <2>1, <2>2, <2>3 DEF Of, Ahead, ClassOf
<1>7. \A e \in queues' : ClassOf(e) # ClassOf(h) => Ahead(e)' = Ahead(e)
  BY DEF Ahead, ClassOf
<1>8. \A c : \A g \in Of(c)' : After(c, g.id)' = After(c, g.id)
  <2>1. ASSUME NEW c, NEW g \in Of(c)'
        PROVE  ~(h \in Of(c) /\ g.id < h.id)
    <3>1. h \in Of(c) => g \in queues' /\ ClassOf(g) = ClassOf(h)
      BY DEF Of, ClassOf
    <3>2. QED
      BY <1>1, <1>2, <1>3, <3>1
  <2>2. \A c : Of(c)' = Of(c) \ {h}
    BY DEF Of
  <2>3. QED
    BY <2>1, <2>2 DEF After
<1>9. \A g, e \in queues' : ClassOf(g) = ClassOf(e) => Between(g, e)' = Between(g, e)
  <2>1. ASSUME NEW g \in queues', NEW e \in queues', ClassOf(g) = ClassOf(e)
        PROVE  ~(h \in Of(ClassOf(e)) /\ g.id < h.id)
    <3>1. h \in Of(ClassOf(e)) => ClassOf(g) = ClassOf(h)
      BY <2>1 DEF Of, ClassOf
    <3>2. QED
      BY <1>1, <1>2, <1>3, <3>1
  <2>2. \A c : Of(c)' = Of(c) \ {h}
    BY DEF Of
  <2>3. QED
    BY <2>1, <2>2 DEF Between, ClassOf
<1>10. Ahead(h) = {h}
  <2>1. \A f \in queues : ClassOf(f) = ClassOf(h) /\ f # h => ~(f.id <= h.id)
    BY <1>1, <1>2, <1>3
  <2>2. QED
    BY <1>3, <2>1 DEF Ahead, ClassOf
<1>11. QED
  BY <1>4, <1>5, <1>6, <1>7, <1>8, <1>9, <1>10

(* A release moves one packet from the queue to the served count, so the   *)
(* lower bounds stay; and it happens at the packet's release time or       *)
(* later, so what was counted from that time is now counted from now.      *)
LEMMA PopPaced ==
  ASSUME RInv, IInv', PopBack
  PROVE  Paced' /\ Prompt'
<1>1. PICK h \in queues : IsServed(h) /\ queues' = queues \ {h}
        /\ info' = ClassSizeAfterPop(h)
        /\ served' = [served EXCEPT ![<<h.queue_id, h.priority>>] = @ + 1]
  BY DEF PopBack
<1>2. UNCHANGED <<now, known, queue_rate_pps>>
  BY DEF PopBack, config
<1> PICK cl : cl = ClassOf(h)
  OBVIOUS
<1>3. /\ cl \in Classes /\ IInv /\ h.send \in Nat /\ h.send <= now
      /\ now \in Nat /\ MinDelay \in Nat /\ MaxDelay \in Nat
      /\ served \in [Classes -> Nat] /\ served[cl] \in Nat
  BY <1>1, ElementTypes, DelayBounds DEF RInv, IInv, TypeOK, IsServed
<1>4. /\ h \in Of(cl) /\ Ahead(h) = {h}
      /\ Of(cl)' = Of(cl) \ {h} /\ Of(cl)' = After(cl, h.id)
      /\ \A c : c # cl => Of(c)' = Of(c)
      /\ \A e \in queues' : ClassOf(e) = cl =>
           h.id < e.id /\ h \in Ahead(e) /\ Ahead(e)' = Ahead(e) \ {h}
           /\ Ahead(e)' = Between(h, e)
      /\ \A e \in queues' : ClassOf(e) # cl => Ahead(e)' = Ahead(e)
      /\ \A c : \A g \in Of(c)' : After(c, g.id)' = After(c, g.id)
      /\ \A g, e \in queues' : ClassOf(g) = ClassOf(e) => Between(g, e)' = Between(g, e)
  BY <1>1, <1>3, ServedOldest, PopParts
<1>5. /\ served'[cl] = served[cl] + 1
      /\ \A c \in Classes : c # cl => served'[c] = served[c]
  BY <1>1, <1>3 DEF ClassOf
<1>6. \A c \in Classes : /\ info'[c].last_sent = info[c].last_sent
                         /\ info'[c].delay = info[c].delay
  <2>1. info' = [info EXCEPT ![cl] = Discharged(info[cl])]
    BY <1>1 DEF ClassSizeAfterPop, ClassOf
  <2>2. QED
    BY <1>3, <2>1 DEF IInv, TypeOK, Discharged
<1>7. ASSUME NEW S, IsFiniteSet(S), h \in S
      PROVE  Cardinality(S) \in Nat /\ Cardinality(S \ {h}) \in Nat
             /\ Cardinality(S) = Cardinality(S \ {h}) + 1
  <2>1. IsFiniteSet(S \ {h}) /\ Cardinality(S \ {h}) = Cardinality(S) - 1
    BY <1>7, FS_RemoveElement
  <2>2. Cardinality(S) \in Nat /\ Cardinality(S \ {h}) \in Nat
    BY <1>7, <2>1, FS_CardinalityType
  <2>3. QED
    BY <2>1, <2>2
<1>8. /\ \A c : IsFiniteSet(Of(c))
      /\ \A e : IsFiniteSet(Ahead(e))
  BY <1>3, PartsFinite
<1>9. served'[cl] + Cardinality(Of(cl)') = served[cl] + Cardinality(Of(cl))
  BY <1>3, <1>4, <1>5, <1>7, <1>8
<1>10. \A e \in queues' : ClassOf(e) = cl =>
         served'[cl] + Cardinality(Ahead(e)') = served[cl] + Cardinality(Ahead(e))
  BY <1>3, <1>4, <1>5, <1>7, <1>8
<1>11. \A f \in queues' : f \in queues /\ ClassOf(f) \in Classes
  BY <1>1, <1>3, ElementTypes
<1>12. Paced'
  <2>1. ASSUME NEW c \in Classes, c[1] \in known
        PROVE  (served'[c] + Cardinality(Of(c)')) * MinDelay <= info'[c].last_sent
    <3>1. CASE c = cl
      BY <1>6, <1>9, <2>1, <3>1 DEF RInv, Paced
    <3>2. CASE c # cl
      BY <1>4, <1>5, <1>6, <2>1, <3>2 DEF RInv, Paced
    <3>3. QED
      BY <3>1, <3>2
  <2>2. ASSUME NEW c \in Classes, c[1] \notin known
        PROVE  served'[c] = 0
    <3>1. c # cl
      BY <1>3, <2>2, ElementTypes DEF ClassOf
    <3>2. QED
      BY <1>5, <2>2, <3>1 DEF RInv, Paced
  <2>3. ASSUME NEW e \in queues'
        PROVE  (served'[ClassOf(e)] + Cardinality(Ahead(e)')) * MinDelay <= e.send
    <3>1. (served[ClassOf(e)] + Cardinality(Ahead(e))) * MinDelay <= e.send
      BY <1>11 DEF RInv, Paced
    <3>2. CASE ClassOf(e) = cl
      BY <1>10, <3>1, <3>2
    <3>3. CASE ClassOf(e) # cl
      BY <1>4, <1>5, <1>11, <3>1, <3>3
    <3>4. QED
      BY <3>2, <3>3
  <2>4. RateLimited'
    <3>1. (served[cl] + Cardinality(Ahead(h))) * MinDelay <= h.send /\ Cardinality(Ahead(h)) = 1
      BY <1>4, FS_Singleton DEF RInv, Paced
    <3>2. served'[cl] * MinDelay <= h.send /\ served'[cl] * MinDelay \in Nat
      BY <1>3, <1>5, <3>1, Multiples
    <3>3. served'[cl] * MinDelay <= now
      BY <1>3, <3>2
    <3>4. QED
      BY <1>2, <1>5, <3>3 DEF RInv, Paced, RateLimited
  <2>5. QED
    BY <1>2, <1>6, <2>1, <2>2, <2>3, <2>4 DEF RInv, Paced, ClassOf
<1>13. \A x \in Nat, n \in Nat : Within(x, h.send, n) => x <= now + MaxDelay * n
  <2>1. ASSUME NEW x \in Nat, NEW n \in Nat, Within(x, h.send, n)
        PROVE  x <= now + MaxDelay * n
    <3>1. PICK k \in Nat : k = MaxDelay * n
      BY <1>3, Multiples
    <3>2. x <= now + k \/ x <= h.send + k
      BY <2>1, <3>1 DEF Within
    <3>3. QED
      BY <1>3, <3>1, <3>2
  <2>2. QED
    BY <2>1
<1>14. Prompt'
  <2>1. ASSUME NEW c \in Classes
        PROVE  info'[c].last_sent <= now + MaxDelay * Cardinality(Of(c)')
    <3>1. CASE c = cl
      <4>1. /\ Within(info[cl].last_sent, h.send, Cardinality(After(cl, h.id)))
            /\ Cardinality(After(cl, h.id)) \in Nat /\ info[cl].last_sent \in Nat
        BY <1>3, <1>4, PartsFinite DEF RInv, Prompt, IInv, TypeOK, QueueInfoPri
      <4>2. QED
        BY <1>3, <1>4, <1>6, <1>13, <3>1, <4>1
    <3>2. CASE c # cl
      BY <1>4, <1>6, <3>2 DEF RInv, Prompt
    <3>3. QED
      BY <3>1, <3>2
  <2>2. ASSUME NEW c \in Classes, NEW g \in Of(c)'
        PROVE  Within(info'[c].last_sent, g.send, Cardinality(After(c, g.id)'))
    <3>1. g \in Of(c)
      BY <1>1 DEF Of
    <3>2. QED
      BY <1>4, <1>6, <3>1 DEF RInv, Prompt
  <2>3. ASSUME NEW e \in queues'
        PROVE  e.send <= now + MaxDelay * Cardinality(Ahead(e)')
    <3>1. CASE ClassOf(e) = cl
      <4>1. /\ Within(e.send, h.send, Cardinality(Between(h, e)))
            /\ Cardinality(Between(h, e)) \in Nat /\ e.send \in Nat
        BY <1>3, <1>4, <1>11, <3>1, PartsFinite, ElementTypes DEF RInv, Prompt
      <4>2. QED
        BY <1>4, <1>13, <3>1, <4>1
    <3>2. CASE ClassOf(e) # cl
      BY <1>4, <1>11, <3>2 DEF RInv, Prompt
    <3>3. QED
      BY <3>1, <3>2
  <2>4. ASSUME NEW g \in queues', NEW e \in queues', ClassOf(g) = ClassOf(e), g.id < e.id
        PROVE  Within(e.send, g.send, Cardinality(Between(g, e)'))
    BY <1>4, <1>11, <2>4 DEF RInv, Prompt
  <2>5. QED
    BY <1>2, <2>1, <2>2, <2>3, <2>4 DEF Prompt, Within, ClassOf
<1>15. QED
  BY <1>12, <1>14

-----------------------------------------------------------------------------

LEMMA InitPaced == Init => Paced /\ Prompt
<1> SUFFICES ASSUME Init PROVE Paced /\ Prompt
  OBVIOUS
<1>1. /\ queues = {} /\ known = {} /\ now = 0 /\ queue_rate_pps = SwitchRate
      /\ info = [c \in Classes |-> NewQueueInfoPri] /\ served = [c \in Classes |-> 0]
  BY DEF Init
<1>2. NewQueueInfoPri.delay \in AllDelays /\ NewQueueInfoPri.last_sent = 0
  BY <1>1 DEF NewQueueInfoPri, AllDelays
<1>3. \A c : Of(c) = {}
  BY <1>1 DEF Of
<1>4. Paced
  <2>1. 0 * MinDelay = 0
    BY DelayBounds
  <2>2. QED
    BY <1>1, <1>2, <2>1 DEF Paced, RateLimited
<1>5. Prompt
  <2>1. MaxDelay * Cardinality({}) = 0
    BY FS_EmptySet, DelayBounds
  <2>2. QED
    BY <1>1, <1>2, <1>3, <2>1 DEF Prompt
<1>6. QED
  BY <1>4, <1>5

(* Configuring a class: a rate gives one of the packet times, a capacity   *)
(* leaves it; the clock is not among the fields a call can set.            *)
LEMMA FieldPaced ==
  ASSUME NEW i \in QueueInfoPri, i.delay \in AllDelays, NEW v,
         NEW field \in {"capacity", "delay"}, field = "delay" => v \in AllDelays
  PROVE  [i EXCEPT ![field] = v].delay \in AllDelays
         /\ [i EXCEPT ![field] = v].last_sent = i.last_sent
<1>1. CASE field = "capacity"
  BY <1>1 DEF QueueInfoPri
<1>2. CASE field = "delay"
  BY <1>2 DEF QueueInfoPri
<1>3. QED
  BY <1>1, <1>2

LEMMA ReconfigurePaced ==
  ASSUME RInv, IInv', NEW q \in Ports, NEW cs, NEW v,
         NEW field \in {"capacity", "delay"}, field = "delay" => v \in AllDelays,
         Reconfigure(q, cs, field, v)
  PROVE  Paced' /\ Prompt'
<1> DEFINE infos == GetQueue(q)
<1>1. /\ known' = known \cup {q}
      /\ info' = [c \in Classes |->
                    IF c \in cs THEN [infos[c] EXCEPT ![field] = v] ELSE infos[c]]
      /\ UNCHANGED <<now, queue_rate_pps, queues, served>>
  BY DEF Reconfigure, config
<1>2. /\ infos \in [Classes -> QueueInfoPri]
      /\ \A c \in Classes : c[1] \in known => infos[c] = info[c]
      /\ \A c \in Classes : infos[c].delay \in AllDelays
      /\ \A c \in Classes : c[1] \notin known => infos[c].last_sent <= now
  BY GetQueueProperties, NewPortPaced DEF RInv
<1> HIDE DEF infos
<1>3. ASSUME NEW c \in Classes
      PROVE  info'[c].delay \in AllDelays /\ info'[c].last_sent = infos[c].last_sent
  BY <1>1, <1>2, FieldPaced
<1>4. now <= now'
  BY <1>1 DEF RInv, IInv, TypeOK
<1>5. queue_rate_pps' \in Rates \cup {SwitchRate}
  BY <1>1 DEF RInv, Paced
<1>6. QED
  BY <1>1, <1>2, <1>3, <1>4, <1>5, QuietPaced

LEMMA ReconfigureAllPaced ==
  ASSUME RInv, IInv', NEW v,
         NEW field \in {"capacity", "delay"}, field = "delay" => v \in AllDelays,
         ReconfigureAll(field, v), queue_rate_pps' \in Rates \cup {SwitchRate}
  PROVE  Paced' /\ Prompt'
<1>1. /\ info' = [c \in Classes |-> IF c[1] \in known THEN [info[c] EXCEPT ![field] = v] ELSE info[c]]
      /\ UNCHANGED <<now, known, queues, served>>
  BY DEF ReconfigureAll
<1>2. ASSUME NEW c \in Classes
      PROVE  /\ info'[c].delay \in AllDelays /\ info'[c].last_sent = info[c].last_sent
  <2>1. info[c] \in QueueInfoPri /\ info[c].delay \in AllDelays
    BY DEF RInv, Paced, IInv, TypeOK
  <2>2. QED
    BY <1>1, <2>1, FieldPaced
<1>3. \A c \in Classes : c[1] \notin known => info[c].last_sent <= now
  <2>1. MaxDelay * 0 = 0 /\ now + 0 = now
    BY DelayBounds DEF RInv, IInv, TypeOK
  <2>2. \A c \in Classes : c[1] \notin known => Of(c) = {}
    BY DEF RInv, IInv, KnownPorts, Of, Classes
  <2>3. \A c \in Classes : c[1] \notin known => Cardinality(Of(c)) = 0
    BY <2>2, FS_EmptySet
  <2>4. QED
    BY <2>1, <2>3 DEF RInv, Prompt
<1>4. now <= now'
  BY <1>1 DEF RInv, IInv, TypeOK
<1>5. QED
  BY <1>1, <1>2, <1>3, <1>4, QuietPaced

(* Every step of the buffer keeps both bounds. *)
LEMMA NextPaced ==
  ASSUME RInv, IInv', [Next]_vars
  PROVE  Paced' /\ Prompt'
<1>1. \A r \in Rates : RateToTime(r) \in AllDelays
  BY DEF AllDelays
<1>2. /\ queue_rate_pps \in Rates \cup {SwitchRate}
      /\ \A c \in Classes : info[c].delay \in AllDelays
      /\ now \in Nat /\ now <= now /\ now <= now + 1
  BY DEF RInv, Paced, IInv, TypeOK
<1>3. CASE \E q \in Ports, p \in Priorities : PushFront(q, p)
  BY <1>3, PushPaced
<1>4. CASE \E q \in Ports, p \in Priorities : PushFrontFull(q, p)
  <2>1. PICK q \in Ports, p \in Priorities : PushFrontFull(q, p)
    BY <1>4
  <2>2. /\ known' = known \cup {q} /\ info' = GetQueue(q)
        /\ UNCHANGED <<now, queue_rate_pps, queues, served>>
    BY <2>1 DEF PushFrontFull, config
  <2>3. /\ \A c \in Classes : GetQueue(q)[c].delay \in AllDelays
        /\ \A c \in Classes : c[1] \notin known => GetQueue(q)[c].last_sent <= now
        /\ \A c \in Classes : c[1] \in known => GetQueue(q)[c] = info[c]
    BY NewPortPaced, GetQueueProperties DEF RInv
  <2>4. QED
    BY <1>2, <2>2, <2>3, QuietPaced
<1>5. CASE PopBack
  BY <1>5, PopPaced
<1>6. CASE \E q \in Ports, p \in Priorities, c \in Capacities :
             SetPriorityCapacity(q, p, c)
  BY <1>6, ReconfigurePaced DEF SetPriorityCapacity
<1>7. CASE \E q \in Ports, c \in Capacities : SetCapacity(q, c)
  BY <1>7, ReconfigurePaced DEF SetCapacity
<1>8. CASE \E q \in Ports, p \in Priorities, r \in Rates :
             SetPriorityRate(q, p, r)
  BY <1>1, <1>8, ReconfigurePaced DEF SetPriorityRate
<1>9. CASE \E q \in Ports, r \in Rates : SetRate(q, r)
  BY <1>1, <1>9, ReconfigurePaced DEF SetRate
<1>10. CASE \E c \in Capacities : SetCapacityForAll(c)
  BY <1>2, <1>10, ReconfigureAllPaced DEF SetCapacityForAll
<1>11. CASE \E r \in Rates : SetRateForAll(r)
  BY <1>1, <1>11, ReconfigureAllPaced DEF SetRateForAll
<1>12. CASE Tick \/ UNCHANGED vars
  <2>1. UNCHANGED <<known, info, queue_rate_pps, queues, served>> /\ now <= now'
    BY <1>2, <1>12 DEF Tick, vars, config
  <2>2. \A c \in Classes : c[1] \notin known => info[c].last_sent <= now'
    <3>1. /\ \A c \in Classes : info[c].last_sent \in Nat /\ (c[1] \notin known => Of(c) = {})
          /\ MaxDelay * 0 = 0 /\ now \in Nat /\ now' \in Nat
      BY DelayBounds DEF RInv, IInv, TypeOK, QueueInfoPri, KnownPorts, Of, Classes
    <3>2. \A c \in Classes : c[1] \notin known => Cardinality(Of(c)) = 0
      BY <3>1, FS_EmptySet
    <3>3. \A c \in Classes : c[1] \notin known => info[c].last_sent <= now
      BY <3>1, <3>2 DEF RInv, Prompt
    <3>4. QED
      BY <2>1, <3>1, <3>3
  <2>3. QED
    BY <1>2, <2>1, <2>2, QuietPaced
<1>13. QED
  BY <1>3, <1>4, <1>5, <1>6, <1>7, <1>8, <1>9, <1>10, <1>11, <1>12 DEF Next

LEMMA TimingInvariant == Spec => []RInv
<1>1. Init => RInv
  BY InitInvariant, InitPaced DEF RInv
<1>2. RInv /\ [Next]_vars => RInv'
  BY NextInvariant, NextPaced DEF RInv
<1>3. QED
  BY <1>1, <1>2, PTL DEF Spec

(* However many ports and rates there are, whatever is reconfigured and in *)
(* whatever order the classes are polled, no class ever releases more      *)
(* packets than its fastest rate allows since the start.                   *)
THEOREM RateAlwaysLimited == Spec => []RateLimited
<1>1. RInv => RateLimited
  BY DEF RInv, Paced
<1>2. QED
  BY <1>1, TimingInvariant, PTL

(* However long the queues are, the n-th packet that waits in a class is   *)
(* due within n of the slowest packet times.                               *)
THEOREM AlwaysDueSoon == Spec => []DueSoon
<1>1. RInv => DueSoon
  BY DEF RInv, Prompt, DueSoon, Ahead
<1>2. QED
  BY <1>1, TimingInvariant, PTL
=============================================================================
