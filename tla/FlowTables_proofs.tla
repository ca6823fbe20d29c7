------------------------- MODULE FlowTables_proofs -------------------------
(***************************************************************************)
(* Proofs about FlowTables, for every topology file, every program and any *)
(* number of flows.                                                        *)
(***************************************************************************)
EXTENDS FlowTables, FiniteSetTheorems, WellFoundedInduction, TLAPS

-----------------------------------------------------------------------------
(* Induction, over a set of numbers, and recursion over a sequence.        *)

(* The least-number principle, from the order of finite sets by inclusion. *)
LEMMA LeastNatural ==
  ASSUME NEW S \in SUBSET Nat, S # {}
  PROVE  \E m \in S : \A x \in S : m <= x
<1> DEFINE T == {0 .. n : n \in S}
<1>1. T \subseteq FiniteSubsetsOf(Nat) /\ T # {}
  <2>1. \A n \in Nat : IsFiniteSet(0 .. n) /\ 0 .. n \in SUBSET Nat
    BY FS_Interval
  <2>2. QED
    BY <2>1 DEF FiniteSubsetsOf
<1>2. PICK t \in T : \A u \in T : <<u, t>> \notin StrictSubsetOrdering(Nat)
  BY <1>1, WFMin, FS_StrictSubsetOrderingWellFounded
<1>3. PICK m \in S : t = 0 .. m
  OBVIOUS
<1>4. ASSUME NEW x \in S, x < m PROVE FALSE
  <2>1. 0 .. x \in SUBSET Nat /\ t \in SUBSET Nat /\ 0 .. x \subseteq t /\ 0 .. x # t
    BY <1>3, <1>4
  <2>2. QED
    BY <1>2, <2>1 DEF StrictSubsetOrdering
<1>5. QED
  BY <1>4

(* What holds at 0, and after each step if it did before, holds up to N. *)
LEMMA Induction ==
  ASSUME NEW N \in Nat, NEW S, 0 \in S, \A k \in 1 .. N : k - 1 \in S => k \in S
  PROVE  0 .. N \subseteq S
<1>1. SUFFICES ASSUME (0 .. N) \ S # {} PROVE FALSE
  OBVIOUS
<1>2. PICK m \in (0 .. N) \ S : \A x \in (0 .. N) \ S : m <= x
  <2>1. (0 .. N) \ S \in SUBSET Nat
    OBVIOUS
  <2>2. QED
    BY <1>1, <2>1, LeastNatural
<1>3. m # 0
  BY <1>2
<1>4. m \in 1 .. N /\ m - 1 \in 0 .. N /\ m - 1 < m
  BY <1>2, <1>3
<1>5. QED
  BY <1>2, <1>4

(* A step that takes a value of A to one of A can be iterated from one of  *)
(* A.                                                                      *)
Steps(A, N) == [(1 .. N) \X A -> A]
Iterates(r, A, a, N, F) ==
  /\ r \in [0 .. N -> A]
  /\ r[0] = a
  /\ \A k \in 1 .. N : r[k] = F[<<k, r[k - 1]>>]

LEMMA Recursion ==
  ASSUME NEW A, NEW a \in A, NEW N \in Nat, NEW F \in Steps(A, N)
  PROVE  \E r : Iterates(r, A, a, N, F)
<1> DEFINE Begun(n, f) == f[0] = a /\ \A k \in 1 .. n : f[k] = F[<<k, f[k - 1]>>]
           S == {n \in Nat : \E f \in [0 .. n -> A] : Begun(n, f)}
<1>1. 0 \in S
  <2>1. [k \in 0 .. 0 |-> a] \in [0 .. 0 -> A] /\ Begun(0, [k \in 0 .. 0 |-> a])
    OBVIOUS
  <2>2. QED
    BY <2>1
<1>2. ASSUME NEW n \in 1 .. N, n - 1 \in S PROVE n \in S
  <2>1. PICK f \in [0 .. n - 1 -> A] : Begun(n - 1, f)
    BY <1>2
  <2> DEFINE g == [k \in 0 .. n |-> IF k = n THEN F[<<n, f[n - 1]>>] ELSE f[k]]
  <2>2. n - 1 \in 0 .. n - 1 /\ <<n, f[n - 1]>> \in (1 .. N) \X A
    OBVIOUS
  <2>3. F[<<n, f[n - 1]>>] \in A
    BY <2>2 DEF Steps
  <2>4. g \in [0 .. n -> A]
    <3>1. ASSUME NEW k \in 0 .. n, k # n PROVE f[k] \in A
      BY <3>1
    <3>2. QED
      BY <2>3, <3>1
  <2>5. Begun(n, g)
    <3>1. g[0] = a
      BY <2>1
    <3>2. ASSUME NEW k \in 1 .. n PROVE g[k] = F[<<k, g[k - 1]>>]
      <4>1. CASE k = n
        <5>1. k - 1 \in 0 .. n /\ k - 1 # n
          BY <4>1
        <5>2. g[k - 1] = f[n - 1]
          BY <4>1, <5>1
        <5>3. g[n] = F[<<n, f[n - 1]>>]
          OBVIOUS
        <5> HIDE DEF g
        <5>4. g[k] = g[n] /\ <<k, g[k - 1]>> = <<n, f[n - 1]>>
          BY <4>1, <5>2
        <5>5. QED
          BY <5>3, <5>4
      <4>2. CASE k # n
        <5>1. k \in 1 .. n - 1 /\ k - 1 \in 0 .. n - 1
          BY <4>2
        <5>2. k - 1 \in 0 .. n /\ k - 1 # n /\ k \in 0 .. n
          BY <5>1
        <5>3. g[k] = f[k] /\ g[k - 1] = f[k - 1]
          BY <4>2, <5>2
        <5>4. QED
          BY <2>1, <5>1, <5>3
      <4>3. QED
        BY <4>1, <4>2
    <3>3. QED
      BY <3>1, <3>2
  <2> HIDE DEF g, Begun
  <2>6. QED
    BY <2>4, <2>5
<1>3. N \in S
  <2> HIDE DEF S
  <2>1. 0 .. N \subseteq S
    BY <1>1, <1>2, Induction
  <2>2. QED
    BY <2>1
<1>4. QED
  BY <1>3 DEF Iterates

-----------------------------------------------------------------------------
(* Reading a file.                                                         *)

NodesIn(f) == 0 .. f.switches + f.hosts - 1
LinksIn(f) == {Link(a, Letter(f, a), b, Letter(f, b)) : a \in NodesIn(f), b \in NodesIn(f)}
StoredLinks(f) == [link : LinksIn(f), fromPort : Nat, toPort : Nat]
Readers(f) == [counter : [NodesIn(f) -> Nat], links : Seq(StoredLinks(f))]
NewReader(f) == [counter |-> [n \in NodesIn(f) |-> 0], links |-> <<>>]

LEMMA LinkFields ==
  ASSUME NEW f, NEW l \in LinksIn(f)
  PROVE  /\ l.from \in NodesIn(f) /\ l.to \in NodesIn(f) /\ l.kind = "link"
         /\ l.fromType = Letter(f, l.from) /\ l.toType = Letter(f, l.to)
BY DEF LinksIn, Link

(* The lines read as links are the file's first ones. *)
LEMMA LinkLinesType ==
  ASSUME NEW f, IsFile(f)
  PROVE  /\ LinkLines(f) \in Seq(ToSet(f.lines)) /\ Len(LinkLines(f)) \in Nat
         /\ \A k \in 1 .. Len(LinkLines(f)) : LinkLines(f)[k] \in ToSet(f.lines)
<1>1. f.lines \in Seq(ToSet(f.lines)) /\ f.declared \in Nat
  BY DEF IsFile
<1>2. LinkLines(f) \in Seq(ToSet(f.lines))
  <2>1. CASE f.declared < Len(f.lines)
    <3>1. SubSeq(f.lines, 1, f.declared) \in Seq(ToSet(f.lines))
      BY <1>1, <2>1
    <3>2. QED
      BY <2>1, <3>1 DEF LinkLines
  <2>2. CASE ~(f.declared < Len(f.lines))
    BY <1>1, <2>2 DEF LinkLines
  <2>3. QED
    BY <2>1, <2>2
<1>3. QED
  BY <1>2

LEMMA ReadLinkType ==
  ASSUME NEW f, IsFile(f), ~BadIndex(f), NEW acc \in Readers(f),
         NEW k \in 1 .. Len(LinkLines(f))
  PROVE  /\ ReadLink(acc, LinkLines(f)[k]) \in Readers(f)
         /\ LinkLines(f)[k].kind = "link" => LinkLines(f)[k] \in LinksIn(f)
<1> DEFINE line == LinkLines(f)[k]
<1>1. CASE line.kind # "link"
  BY <1>1 DEF ReadLink
<1>2. CASE line.kind = "link"
  <2>1. line \in ToSet(f.lines) /\ k \in DOMAIN LinkLines(f)
    BY LinkLinesType
  <2>2. line.from \in NodesIn(f) /\ line.to \in NodesIn(f)
    BY <1>2, <2>1 DEF BadIndex, NodesIn
  <2>3. line = Link(line.from, Letter(f, line.from), line.to, Letter(f, line.to))
    BY <1>2, <2>1 DEF IsFile
  <2>4. line \in LinksIn(f)
    BY <2>2, <2>3 DEF LinksIn
  <2> HIDE DEF line
  <2>5. acc.counter \in [NodesIn(f) -> Nat] /\ acc.links \in Seq(StoredLinks(f))
    BY DEF Readers
  <2>6. CountPorts(acc.counter, line) \in [NodesIn(f) -> Nat]
    <3>1. ASSUME NEW c \in [NodesIn(f) -> Nat], NEW n \in NodesIn(f)
          PROVE  [c EXCEPT ![n] = @ + 1] \in [NodesIn(f) -> Nat]
      OBVIOUS
    <3> DEFINE first == [acc.counter EXCEPT ![line.from] = @ + 1]
    <3>2. first \in [NodesIn(f) -> Nat]
      BY <2>2, <2>5, <3>1
    <3>3. CountPorts(acc.counter, line) = [first EXCEPT ![line.to] = @ + 1]
      BY DEF CountPorts
    <3> HIDE DEF first
    <3>4. QED
      BY <2>2, <3>1, <3>2, <3>3
  <2>7. [link |-> line, fromPort |-> acc.counter[line.from] + 1,
         toPort |-> acc.counter[line.to] + 1] \in StoredLinks(f)
    BY <2>2, <2>4, <2>5 DEF StoredLinks
  <2>8. QED
    BY <1>2, <2>4, <2>5, <2>6, <2>7 DEF ReadLink, Readers, line
<1>3. QED
  BY <1>1, <1>2

LEMMA ReadingSteps ==
  ASSUME NEW f, IsFile(f), ~BadIndex(f)
  PROVE  /\ Reading(f) \in [0 .. Len(LinkLines(f)) -> Readers(f)]
         /\ Reading(f)[0] = NewReader(f)
         /\ \A k \in 1 .. Len(LinkLines(f)) :
              Reading(f)[k] = ReadLink(Reading(f)[k - 1], LinkLines(f)[k])
<1> DEFINE N == Len(LinkLines(f))
           Turn(r) == [k \in 0 .. N |-> IF k = 0 THEN NewReader(f)
                                        ELSE ReadLink(r[k - 1], LinkLines(f)[k])]
           after == CHOOSE r : r = Turn(r)
           F == [x \in (1 .. N) \X Readers(f) |-> ReadLink(x[2], LinkLines(f)[x[1]])]
<1>1. N \in Nat /\ NewReader(f) \in Readers(f)
  BY LinkLinesType DEF NewReader, Readers
<1>2. F \in Steps(Readers(f), N)
  BY ReadLinkType DEF Steps
<1>3. PICK r : Iterates(r, Readers(f), NewReader(f), N, F)
  <2> HIDE DEF N, F
  <2>1. QED
    BY <1>1, <1>2, Recursion
<1>4. \A k \in 1 .. N : r[k] = ReadLink(r[k - 1], LinkLines(f)[k])
  <2>1. ASSUME NEW k \in 1 .. N PROVE r[k] = ReadLink(r[k - 1], LinkLines(f)[k])
    <3>1. k - 1 \in 0 .. N
      BY <1>1
    <3>2. <<k, r[k - 1]>> \in (1 .. N) \X Readers(f)
      BY <1>3, <3>1 DEF Iterates
    <3>3. QED
      BY <1>3, <3>2 DEF Iterates
  <2>2. QED
    BY <2>1
<1>5. r = Turn(r)
  BY <1>1, <1>3, <1>4 DEF Iterates
<1>6. after = Turn(after)
  BY <1>5
<1>7. after = Reading(f)
  BY DEF Reading, NewReader, NodesIn
<1> HIDE DEF after
<1>8. after[0] = NewReader(f) /\ \A k \in 1 .. N : after[k] = ReadLink(after[k - 1], LinkLines(f)[k])
  BY <1>1, <1>6
<1>9. \A k \in 0 .. N : after[k] \in Readers(f)
  <2> DEFINE S == {k \in 0 .. N : after[k] \in Readers(f)}
  <2>1. 0 \in S
    BY <1>1, <1>8
  <2>2. ASSUME NEW k \in 1 .. N, k - 1 \in S PROVE k \in S
    <3>1. after[k - 1] \in Readers(f) /\ k \in 0 .. N
      BY <1>1, <2>2
    <3>2. ReadLink(after[k - 1], LinkLines(f)[k]) \in Readers(f)
      BY <3>1, ReadLinkType
    <3>3. after[k] \in Readers(f)
      BY <1>8, <3>2
    <3>4. QED
      BY <3>1, <3>3
  <2> HIDE DEF S
  <2>3. 0 .. N \subseteq S
    BY <1>1, <2>1, <2>2, Induction
  <2>4. QED
    BY <2>3 DEF S
<1>10. after \in [0 .. N -> Readers(f)]
  BY <1>6, <1>9
<1>11. QED
  BY <1>7, <1>8, <1>10

LEMMA ReadLinksType ==
  ASSUME NEW f, IsFile(f), ~BadIndex(f)
  PROVE  ReadLinks(f) \in Seq(StoredLinks(f))
BY ReadingSteps, LinkLinesType DEF ReadLinks, Readers

-----------------------------------------------------------------------------
(* Installing links.                                                       *)

Ends(f) ==
  {ToSwitch(s, p) : s \in SwitchesOf(f), p \in Nat \ {0}} \cup {ToHost(h) : h \in HostsOf(f)}
Homes(f) == [switch : SwitchesOf(f), port : Nat \ {0}]
Portings(f) == [SwitchesOf(f) -> Seq(Ends(f))]
Nets(f) ==
  [ports : Portings(f), home : [HostsOf(f) -> Homes(f) \cup {NoHome}],
   error : BOOLEAN]
NewNet(f) ==
  [ports |-> [s \in SwitchesOf(f) |-> <<>>], home |-> [h \in HostsOf(f) |-> NoHome],
   error |-> FALSE]

(* What a node is to the other end of its link, and its next port. *)
EndAt(f, n, port) == IF n < f.switches THEN ToSwitch(n, port) ELSE ToHost(n - f.switches)
NextPort(acc, s) == Len(acc.ports[s]) + 1
EndOf(f, acc, n) == EndAt(f, n, NextPort(acc, n))

(* One more port of a switch. *)
Appends(f, ports, s, end, new) ==
  /\ new \in Portings(f)
  /\ \A t \in SwitchesOf(f) :
       /\ Len(ports[t]) \in Nat
       /\ \A p \in 1 .. Len(ports[t]) : new[t][p] = ports[t][p]
       /\ t # s => Len(new[t]) = Len(ports[t])
  /\ Len(new[s]) = Len(ports[s]) + 1
  /\ new[s][Len(ports[s]) + 1] = end

(* A link adds one port to each switch at its ends. *)
Added(link, s) ==
  IF s = link.from /\ s = link.to THEN 2 ELSE IF s = link.from \/ s = link.to THEN 1 ELSE 0
Joins(f, acc, link, new) ==
  /\ new \in Nets(f)
  /\ \A s \in SwitchesOf(f) :
       /\ Len(acc.ports[s]) \in Nat
       /\ Len(new.ports[s]) = Len(acc.ports[s]) + Added(link, s)
       /\ \A p \in 1 .. Len(acc.ports[s]) : new.ports[s][p] = acc.ports[s][p]
       /\ s = link.from => new.ports[s][NextPort(acc, s)] = EndOf(f, acc, link.to)
       /\ s = link.to => new.ports[s][NextPort(acc, s)] = EndOf(f, acc, link.from)
       /\ s = link.from /\ s = link.to => new.ports[s][NextPort(acc, s) + 1] = EndOf(f, acc, s)
  /\ \A h \in HostsOf(f) :
       new.home[h] = IF h + f.switches = link.from /\ link.to < f.switches
                     THEN [switch |-> link.to, port |-> NextPort(acc, link.to)]
                     ELSE IF h + f.switches = link.to /\ link.from < f.switches
                     THEN [switch |-> link.from, port |-> NextPort(acc, link.from)]
                     ELSE acc.home[h]
  /\ ~new.error <=> ~acc.error /\ (link.from < f.switches \/ link.to < f.switches)

LEMMA EndType ==
  ASSUME NEW f, IsFile(f), NEW acc \in Nets(f), NEW n \in NodesIn(f)
  PROVE  /\ n < f.switches => n \in SwitchesOf(f) /\ Len(acc.ports[n]) \in Nat
                              /\ acc.ports[n] \in Seq(Ends(f))
         /\ n >= f.switches => n - f.switches \in HostsOf(f) /\ n \notin SwitchesOf(f)
         /\ EndOf(f, acc, n) \in Ends(f)
<1>1. f.switches \in Nat /\ f.hosts \in Nat /\ n \in Int
  BY DEF IsFile, NodesIn
<1>2. n < f.switches => n \in SwitchesOf(f)
  BY <1>1 DEF NodesIn, SwitchesOf
<1>3. n >= f.switches => n - f.switches \in HostsOf(f) /\ n \notin SwitchesOf(f)
  BY <1>1 DEF NodesIn, HostsOf, SwitchesOf
<1>4. n < f.switches => acc.ports[n] \in Seq(Ends(f)) /\ Len(acc.ports[n]) \in Nat
  BY <1>2 DEF Nets, Portings
<1>5. EndOf(f, acc, n) \in Ends(f)
  <2>1. CASE n < f.switches
    <3>1. Len(acc.ports[n]) + 1 \in Nat \ {0}
      BY <1>4, <2>1
    <3>2. QED
      BY <1>2, <2>1, <3>1 DEF EndOf, EndAt, Ends, NextPort
  <2>2. CASE n >= f.switches
    BY <1>1, <1>3, <2>2 DEF EndOf, EndAt, Ends
  <2>3. QED
    BY <1>1, <2>1, <2>2
<1>6. QED
  BY <1>2, <1>3, <1>4, <1>5

LEMMA AddedCases ==
  ASSUME NEW link, NEW s
  PROVE  /\ s = link.from /\ s = link.to => Added(link, s) = 2
         /\ s = link.from /\ s # link.to => Added(link, s) = 1
         /\ s # link.from /\ s = link.to => Added(link, s) = 1
         /\ s # link.from /\ s # link.to => Added(link, s) = 0
BY DEF Added

LEMMA AddPortAppends ==
  ASSUME NEW f, NEW ports \in Portings(f), NEW s \in SwitchesOf(f), NEW end \in Ends(f)
  PROVE  Appends(f, ports, s, end, AddPort(ports, s, end))
<1>1. ports \in [SwitchesOf(f) -> Seq(Ends(f))]
  BY DEF Portings
<1>2. \A t \in SwitchesOf(f) :
        AddPort(ports, s, end)[t] = IF t = s THEN Append(ports[s], end) ELSE ports[t]
  BY <1>1 DEF AddPort
<1>3. /\ ports[s] \in Seq(Ends(f)) /\ Append(ports[s], end) \in Seq(Ends(f))
      /\ Len(Append(ports[s], end)) = Len(ports[s]) + 1
      /\ Append(ports[s], end)[Len(ports[s]) + 1] = end
      /\ \A p \in 1 .. Len(ports[s]) : Append(ports[s], end)[p] = ports[s][p]
  BY <1>1
<1>4. AddPort(ports, s, end) \in Portings(f)
  BY <1>1, <1>3 DEF AddPort, Portings
<1>5. \A t \in SwitchesOf(f) : Len(ports[t]) \in Nat
  BY <1>1
<1>6. \A t \in SwitchesOf(f) : \A p \in 1 .. Len(ports[t]) :
        AddPort(ports, s, end)[t][p] = ports[t][p]
  BY <1>2, <1>3
<1>7. QED
  BY <1>2, <1>3, <1>4, <1>5, <1>6 DEF Appends

LEMMA InstallLinkJoins ==
  ASSUME NEW f, IsFile(f), NEW acc \in Nets(f), NEW link \in LinksIn(f)
  PROVE  Joins(f, acc, link, InstallLink(f, acc, link))
<1> DEFINE new == InstallLink(f, acc, link)
           a == link.from
           b == link.to
           endA == EndOf(f, acc, a)
           endB == EndOf(f, acc, b)
<1>1. f.switches \in Nat /\ f.hosts \in Nat
  BY DEF IsFile
<1>2. /\ a \in NodesIn(f) /\ b \in NodesIn(f) /\ a \in Int /\ b \in Int
      /\ link.fromType = (IF a < f.switches THEN "s" ELSE "h")
      /\ link.toType = (IF b < f.switches THEN "s" ELSE "h")
  BY LinkFields DEF Letter, NodesIn
<1>3. acc = [ports |-> acc.ports, home |-> acc.home, error |-> acc.error]
  BY DEF Nets
<1>4. /\ acc.ports \in Portings(f)
      /\ acc.home \in [HostsOf(f) -> Homes(f) \cup {NoHome}] /\ acc.error \in BOOLEAN
  BY DEF Nets
<1>5. CASE a < f.switches /\ b < f.switches
  <2> DEFINE first == AddPort(acc.ports, a, endB)
             second == AddPort(first, b, endA)
  <2>1. new = [ports |-> second, home |-> acc.home, error |-> acc.error]
    BY <1>2, <1>3, <1>5 DEF InstallLink, EndOf, EndAt, NextPort
  <2>2. a \in SwitchesOf(f) /\ b \in SwitchesOf(f) /\ endA \in Ends(f) /\ endB \in Ends(f)
    BY <1>2, <1>5, EndType
  <2> HIDE DEF new, endA, endB
  <2>3. Appends(f, acc.ports, a, endB, first)
    BY <1>4, <2>2, AddPortAppends
  <2> HIDE DEF first
  <2>a. first \in Portings(f)
    BY <2>3 DEF Appends
  <2>4. Appends(f, first, b, endA, second)
    BY <2>2, <2>a, AddPortAppends
  <2> HIDE DEF second
  <2>5. new \in Nets(f)
    BY <1>4, <2>1, <2>4 DEF Nets, Appends
  <2>6. ASSUME NEW s \in SwitchesOf(f)
        PROVE  /\ Len(new.ports[s]) = Len(acc.ports[s]) + Added(link, s)
               /\ \A p \in 1 .. Len(acc.ports[s]) : new.ports[s][p] = acc.ports[s][p]
               /\ s = a => new.ports[s][NextPort(acc, s)] = endB
               /\ Len(acc.ports[s]) \in Nat
    <3>1. /\ Len(acc.ports[s]) \in Nat /\ Len(first[s]) \in Nat
          /\ Len(first[s]) = IF s = a THEN Len(acc.ports[s]) + 1 ELSE Len(acc.ports[s])
          /\ Len(second[s]) = IF s = b THEN Len(first[s]) + 1 ELSE Len(first[s])
      BY <2>3, <2>4 DEF Appends
    <3>2. Len(new.ports[s]) = Len(acc.ports[s]) + Added(link, s)
      <4>1. new.ports[s] = second[s]
        BY <2>1
      <4>2. QED
        BY <3>1, <4>1, AddedCases
    <3>3. \A p \in 1 .. Len(acc.ports[s]) : p \in 1 .. Len(first[s])
      BY <3>1
    <3>4. \A p \in 1 .. Len(acc.ports[s]) : new.ports[s][p] = acc.ports[s][p]
      BY <2>1, <2>3, <2>4, <3>3 DEF Appends
    <3>5. ASSUME s = a PROVE new.ports[s][NextPort(acc, s)] = endB
      <4>1. Len(first[s]) = Len(acc.ports[s]) + 1
        BY <3>1, <3>5
      <4>2. Len(acc.ports[s]) + 1 \in 1 .. Len(first[s])
        BY <3>1, <4>1
      <4>3. second[s][Len(acc.ports[s]) + 1] = first[s][Len(acc.ports[s]) + 1]
        BY <2>4, <4>2 DEF Appends
      <4>4. QED
        BY <2>1, <2>3, <3>5, <4>3 DEF NextPort, Appends
    <3>6. QED
      BY <3>1, <3>2, <3>4, <3>5
  <2>10. \A h \in HostsOf(f) : h + f.switches # a /\ h + f.switches # b /\ new.home[h] = acc.home[h]
    BY <1>1, <1>2, <1>5, <2>1 DEF HostsOf
  <2>11. ~new.error <=> ~acc.error /\ (a < f.switches \/ b < f.switches)
    BY <1>1, <1>2, <1>5, <2>1
  <2>7. CASE a # b
    <3>1. Len(first[b]) = Len(acc.ports[b]) /\ Len(acc.ports[b]) \in Nat
      BY <2>2, <2>3, <2>7 DEF Appends
    <3>2. new.ports[b][NextPort(acc, b)] = endA
      BY <2>1, <2>4, <3>1 DEF NextPort, Appends
    <3>3. \A s \in SwitchesOf(f) :
            /\ s = b => new.ports[s][NextPort(acc, s)] = endA
            /\ s = a /\ s = b => new.ports[s][NextPort(acc, s) + 1] = EndOf(f, acc, s)
      BY <2>7, <3>2
    <3>4. QED
      BY <2>5, <2>6, <2>10, <2>11, <3>3 DEF Joins, new, endA, endB
  <2>8. CASE a = b
    <3>1. Len(first[b]) = Len(acc.ports[b]) + 1 /\ Len(acc.ports[b]) \in Nat /\ endA = endB
      BY <2>2, <2>3, <2>8 DEF endA, endB, Appends
    <3>2. new.ports[b][NextPort(acc, b) + 1] = endA
      BY <2>1, <2>4, <3>1 DEF NextPort, Appends
    <3>3. \A s \in SwitchesOf(f) :
            /\ s = b => new.ports[s][NextPort(acc, s)] = endA
            /\ s = a /\ s = b => new.ports[s][NextPort(acc, s) + 1] = EndOf(f, acc, s)
      BY <2>6, <2>8, <3>1, <3>2 DEF endA
    <3>4. QED
      BY <2>5, <2>6, <2>10, <2>11, <3>3 DEF Joins, new, endA, endB
  <2>9. QED
    BY <2>7, <2>8
<1>6. CASE a < f.switches /\ b >= f.switches
  <2>1. new = [ports |-> AddPort(acc.ports, a, endB),
               home |-> [acc.home EXCEPT ![b - f.switches] = [switch |-> a, port |-> NextPort(acc, a)]],
               error |-> acc.error]
    BY <1>1, <1>2, <1>6 DEF InstallLink, HostNumber, EndOf, EndAt, NextPort
  <2>2. a \in SwitchesOf(f) /\ endB \in Ends(f) /\ b - f.switches \in HostsOf(f) /\ b \notin SwitchesOf(f)
    BY <1>1, <1>2, <1>6, EndType
  <2> DEFINE more == AddPort(acc.ports, a, endB)
             home == [acc.home EXCEPT ![b - f.switches] = [switch |-> a, port |-> NextPort(acc, a)]]
  <2> HIDE DEF new, endA, endB
  <2>3. Appends(f, acc.ports, a, endB, more)
    BY <1>4, <2>2, AddPortAppends
  <2> HIDE DEF more
  <2>4. [switch |-> a, port |-> NextPort(acc, a)] \in Homes(f)
    BY <2>2, <2>3 DEF Homes, NextPort, Appends
  <2>5. home \in [HostsOf(f) -> Homes(f) \cup {NoHome}]
    BY <1>4, <2>4
  <2>6. \A k \in HostsOf(f) : home[k] = IF k = b - f.switches
                                       THEN [switch |-> a, port |-> NextPort(acc, a)] ELSE acc.home[k]
    BY <1>4
  <2> HIDE DEF home
  <2>7. new = [ports |-> more, home |-> home, error |-> acc.error]
    BY <2>1 DEF more, home
  <2>8. new \in Nets(f)
    BY <1>4, <2>3, <2>5, <2>7 DEF Nets, Appends
  <2>9. ASSUME NEW k \in HostsOf(f)
        PROVE  new.home[k] = IF k + f.switches = a /\ b < f.switches
                             THEN [switch |-> b, port |-> NextPort(acc, b)]
                             ELSE IF k + f.switches = b /\ a < f.switches
                             THEN [switch |-> a, port |-> NextPort(acc, a)]
                             ELSE acc.home[k]
    <3>1. k \in Int /\ (k = b - f.switches) = (k + f.switches = b) /\ k + f.switches # a
      BY <1>1, <1>2, <1>6 DEF HostsOf
    <3>2. QED
      BY <1>1, <1>2, <1>6, <2>6, <2>7, <3>1
  <2>10. ASSUME NEW s \in SwitchesOf(f)
         PROVE  /\ Len(new.ports[s]) = Len(acc.ports[s]) + Added(link, s)
                /\ \A p \in 1 .. Len(acc.ports[s]) : new.ports[s][p] = acc.ports[s][p]
                /\ s = a => new.ports[s][NextPort(acc, s)] = endB
                /\ s # b /\ Len(acc.ports[s]) \in Nat
    <3>1. s # b /\ Len(acc.ports[s]) \in Nat
      BY <2>2, <2>3 DEF Appends
    <3>2. Len(new.ports[s]) = Len(acc.ports[s]) + Added(link, s)
      BY <2>3, <2>7, <3>1, AddedCases DEF Appends
    <3>3. QED
      BY <2>3, <2>7, <3>1, <3>2 DEF NextPort, Appends
  <2>11. ~new.error <=> ~acc.error /\ (a < f.switches \/ b < f.switches)
    BY <1>1, <1>2, <1>6, <2>7
  <2>12. QED
    BY <2>8, <2>9, <2>10, <2>11 DEF Joins, new, endA, endB
<1>7. CASE a >= f.switches /\ b < f.switches
  <2>1. new = [ports |-> AddPort(acc.ports, b, endA),
               home |-> [acc.home EXCEPT ![a - f.switches] = [switch |-> b, port |-> NextPort(acc, b)]],
               error |-> acc.error]
    BY <1>1, <1>2, <1>7 DEF InstallLink, HostNumber, EndOf, EndAt, NextPort
  <2>2. b \in SwitchesOf(f) /\ endA \in Ends(f) /\ a - f.switches \in HostsOf(f) /\ a \notin SwitchesOf(f)
    BY <1>1, <1>2, <1>7, EndType
  <2> DEFINE more == AddPort(acc.ports, b, endA)
             home == [acc.home EXCEPT ![a - f.switches] = [switch |-> b, port |-> NextPort(acc, b)]]
  <2> HIDE DEF new, endA, endB
  <2>3. Appends(f, acc.ports, b, endA, more)
    BY <1>4, <2>2, AddPortAppends
  <2> HIDE DEF more
  <2>4. [switch |-> b, port |-> NextPort(acc, b)] \in Homes(f)
    BY <2>2, <2>3 DEF Homes, NextPort, Appends
  <2>5. home \in [HostsOf(f) -> Homes(f) \cup {NoHome}]
    BY <1>4, <2>4
  <2>6. \A k \in HostsOf(f) : home[k] = IF k = a - f.switches
                                       THEN [switch |-> b, port |-> NextPort(acc, b)] ELSE acc.home[k]
    BY <1>4
  <2> HIDE DEF home
  <2>7. new = [ports |-> more, home |-> home, error |-> acc.error]
    BY <2>1 DEF more, home
  <2>8. new \in Nets(f)
    BY <1>4, <2>3, <2>5, <2>7 DEF Nets, Appends
  <2>9. ASSUME NEW k \in HostsOf(f)
        PROVE  new.home[k] = IF k + f.switches = a /\ b < f.switches
                             THEN [switch |-> b, port |-> NextPort(acc, b)]
                             ELSE IF k + f.switches = b /\ a < f.switches
                             THEN [switch |-> a, port |-> NextPort(acc, a)]
                             ELSE acc.home[k]
    <3>1. k \in Int /\ (k = a - f.switches) = (k + f.switches = a) /\ k + f.switches # b
      BY <1>1, <1>2, <1>7 DEF HostsOf
    <3>2. QED
      BY <1>1, <1>2, <1>7, <2>6, <2>7, <3>1
  <2>10. ASSUME NEW s \in SwitchesOf(f)
         PROVE  /\ Len(new.ports[s]) = Len(acc.ports[s]) + Added(link, s)
                /\ \A p \in 1 .. Len(acc.ports[s]) : new.ports[s][p] = acc.ports[s][p]
                /\ s = b => new.ports[s][NextPort(acc, s)] = endA
                /\ s # a /\ Len(acc.ports[s]) \in Nat
    <3>1. s # a /\ Len(acc.ports[s]) \in Nat
      BY <2>2, <2>3 DEF Appends
    <3>2. Len(new.ports[s]) = Len(acc.ports[s]) + Added(link, s)
      BY <2>3, <2>7, <3>1, AddedCases DEF Appends
    <3>3. QED
      BY <2>3, <2>7, <3>1, <3>2 DEF NextPort, Appends
  <2>11. ~new.error <=> ~acc.error /\ (a < f.switches \/ b < f.switches)
    BY <1>1, <1>2, <1>7, <2>7
  <2>12. QED
    BY <2>8, <2>9, <2>10, <2>11 DEF Joins, new, endA, endB
<1>8. CASE a >= f.switches /\ b >= f.switches
  <2>1. new = [acc EXCEPT !.error = TRUE]
    BY <1>1, <1>2, <1>8 DEF InstallLink
  <2>2. new = [ports |-> acc.ports, home |-> acc.home, error |-> TRUE]
    BY <1>3, <2>1
  <2>3. a \notin SwitchesOf(f) /\ b \notin SwitchesOf(f)
    BY <1>2, <1>8, EndType
  <2> HIDE DEF new
  <2>4. new \in Nets(f)
    BY <1>4, <2>2 DEF Nets
  <2>5. \A s \in SwitchesOf(f) : s # a /\ s # b /\ Len(acc.ports[s]) \in Nat
    BY <1>4, <2>3
  <2>6. QED
    BY <1>1, <1>2, <1>8, <2>2, <2>4, <2>5, AddedCases DEF Joins, new
<1>9. QED
  BY <1>1, <1>2, <1>5, <1>6, <1>7, <1>8

LEMMA InstallingSteps ==
  ASSUME NEW f, IsFile(f), NEW stored \in Seq(StoredLinks(f))
  PROVE  /\ Installing(f, stored) \in [0 .. Len(stored) -> Nets(f)]
         /\ Installing(f, stored)[0] = NewNet(f)
         /\ \A k \in 1 .. Len(stored) :
              Joins(f, Installing(f, stored)[k - 1], stored[k].link, Installing(f, stored)[k])
<1> DEFINE N == Len(stored)
           Turn(r) == [k \in 0 .. N |-> IF k = 0 THEN NewNet(f)
                                        ELSE InstallLink(f, r[k - 1], stored[k].link)]
           after == CHOOSE r : r = Turn(r)
           F == [x \in (1 .. N) \X Nets(f) |-> InstallLink(f, x[2], stored[x[1]].link)]
<1>1. N \in Nat /\ NewNet(f) \in Nets(f)
  BY DEF NewNet, Nets, Portings
<1>2. ASSUME NEW k \in 1 .. N PROVE stored[k].link \in LinksIn(f)
  <2>1. stored[k] \in StoredLinks(f)
    OBVIOUS
  <2>2. QED
    BY <2>1 DEF StoredLinks
<1>3. ASSUME NEW k \in 1 .. N, NEW acc \in Nets(f)
      PROVE  /\ InstallLink(f, acc, stored[k].link) \in Nets(f)
             /\ Joins(f, acc, stored[k].link, InstallLink(f, acc, stored[k].link))
  <2>1. Joins(f, acc, stored[k].link, InstallLink(f, acc, stored[k].link))
    BY <1>2, InstallLinkJoins
  <2>2. QED
    BY <2>1 DEF Joins
<1>4. F \in Steps(Nets(f), N)
  BY <1>3 DEF Steps
<1>5. PICK r : Iterates(r, Nets(f), NewNet(f), N, F)
  <2> HIDE DEF N, F
  <2>1. QED
    BY <1>1, <1>4, Recursion
<1>6. ASSUME NEW k \in 1 .. N PROVE r[k] = InstallLink(f, r[k - 1], stored[k].link)
  <2>1. k - 1 \in 0 .. N
    BY <1>1
  <2>2. <<k, r[k - 1]>> \in (1 .. N) \X Nets(f)
    BY <1>5, <2>1 DEF Iterates
  <2>3. QED
    BY <1>5, <2>2 DEF Iterates
<1>7. r = Turn(r)
  BY <1>1, <1>5, <1>6 DEF Iterates
<1>8. after = Turn(after)
  BY <1>7
<1>9. after = Installing(f, stored)
  BY DEF Installing, NewNet, SwitchesOf, HostsOf
<1> HIDE DEF after
<1>10. /\ after[0] = NewNet(f)
       /\ \A k \in 1 .. N : after[k] = InstallLink(f, after[k - 1], stored[k].link)
  BY <1>1, <1>8
<1>11. \A k \in 0 .. N : after[k] \in Nets(f)
  <2> DEFINE S == {k \in 0 .. N : after[k] \in Nets(f)}
  <2>1. 0 \in S
    BY <1>1, <1>10
  <2>2. ASSUME NEW k \in 1 .. N, k - 1 \in S PROVE k \in S
    BY <1>3, <1>10, <2>2
  <2> HIDE DEF S
  <2>3. 0 .. N \subseteq S
    BY <1>1, <2>1, <2>2, Induction
  <2>4. QED
    BY <2>3 DEF S
<1>12. after \in [0 .. N -> Nets(f)]
  BY <1>8, <1>11
<1>13. ASSUME NEW k \in 1 .. N PROVE Joins(f, after[k - 1], stored[k].link, after[k])
  <2>1. k - 1 \in 0 .. N
    BY <1>1
  <2>2. QED
    BY <1>3, <1>10, <1>11, <2>1
<1>14. QED
  BY <1>9, <1>10, <1>12, <1>13

-----------------------------------------------------------------------------
(* The two countings of ports.                                             *)

(* What the reader says of a link is so in the net. *)
MeetsAt(f, l, n) ==
  /\ l.link.from < f.switches =>
       /\ l.fromPort \in 1 .. Len(n.ports[l.link.from])
       /\ n.ports[l.link.from][l.fromPort] = EndAt(f, l.link.to, l.toPort)
  /\ l.link.to < f.switches =>
       /\ l.toPort \in 1 .. Len(n.ports[l.link.to])
       /\ n.ports[l.link.to][l.toPort] = EndAt(f, l.link.from, l.fromPort)

Agree(f, r, n) ==
  /\ \A s \in SwitchesOf(f) : r.counter[s] = Len(n.ports[s])
  /\ \A i \in 1 .. Len(r.links) : MeetsAt(f, r.links[i], n)

LEMMA MeetsStays ==
  ASSUME NEW f, IsFile(f), NEW n \in Nets(f), NEW link, NEW new, Joins(f, n, link, new),
         NEW l \in StoredLinks(f), MeetsAt(f, l, n)
  PROVE  MeetsAt(f, l, new)
<1>1. l.link \in LinksIn(f) /\ l.fromPort \in Nat /\ l.toPort \in Nat
  BY DEF StoredLinks
<1>2. l.link.from \in NodesIn(f) /\ l.link.to \in NodesIn(f)
  BY <1>1, LinkFields
<1>3. ASSUME NEW s \in SwitchesOf(f), NEW p \in 1 .. Len(n.ports[s])
      PROVE  p \in 1 .. Len(new.ports[s]) /\ new.ports[s][p] = n.ports[s][p]
  <2>1. Len(n.ports[s]) \in Nat /\ Len(new.ports[s]) = Len(n.ports[s]) + Added(link, s)
    BY DEF Joins
  <2>2. p \in 1 .. Len(new.ports[s])
    BY <2>1, AddedCases
  <2>3. QED
    BY <2>2 DEF Joins
<1>4. QED
  BY <1>2, <1>3, EndType DEF MeetsAt

LEMMA AgreeStep ==
  ASSUME NEW f, IsFile(f), NEW r \in Readers(f), NEW n \in Nets(f), Agree(f, r, n),
         NEW line \in LinksIn(f), NEW new, Joins(f, n, line, new)
  PROVE  Agree(f, ReadLink(r, line), new)
<1> DEFINE l == [link |-> line, fromPort |-> r.counter[line.from] + 1, toPort |-> r.counter[line.to] + 1]
           next == ReadLink(r, line)
<1>1. line.from \in NodesIn(f) /\ line.to \in NodesIn(f) /\ line.kind = "link"
  BY LinkFields
<1>2. r.counter \in [NodesIn(f) -> Nat] /\ r.links \in Seq(StoredLinks(f))
  BY DEF Readers
<1>3. next.counter = CountPorts(r.counter, line) /\ next.links = Append(r.links, l)
  BY <1>1 DEF ReadLink
<1>4. l \in StoredLinks(f)
  BY <1>1, <1>2 DEF StoredLinks
<1>5. ASSUME NEW s \in SwitchesOf(f) PROVE next.counter[s] = Len(new.ports[s])
  <2>1. s \in NodesIn(f)
    BY DEF SwitchesOf, NodesIn, IsFile
  <2>2. r.counter[s] = Len(n.ports[s]) /\ Len(n.ports[s]) \in Nat
    BY DEF Agree, Joins
  <2>3. Len(new.ports[s]) = Len(n.ports[s]) + Added(line, s)
    BY DEF Joins
  <2>4. CountPorts(r.counter, line)[s] = r.counter[s] + Added(line, s)
    BY <1>1, <1>2, <2>1, AddedCases DEF CountPorts
  <2>5. QED
    BY <1>3, <2>2, <2>3, <2>4
<1>6. MeetsAt(f, l, new)
  <2>1. ASSUME NEW a \in NodesIn(f), a < f.switches, a = line.from \/ a = line.to
        PROVE  /\ a \in SwitchesOf(f) /\ r.counter[a] + 1 = NextPort(n, a)
               /\ NextPort(n, a) \in 1 .. Len(new.ports[a])
    <3>1. a \in SwitchesOf(f)
      BY <2>1, EndType
    <3>2. /\ r.counter[a] = Len(n.ports[a]) /\ Len(n.ports[a]) \in Nat
          /\ Len(new.ports[a]) = Len(n.ports[a]) + Added(line, a)
      BY <3>1 DEF Agree, Joins
    <3>3. Added(line, a) \in {1, 2}
      BY <2>1, AddedCases
    <3>4. NextPort(n, a) = Len(n.ports[a]) + 1
      BY DEF NextPort
    <3>5. QED
      BY <3>1, <3>2, <3>3, <3>4
  <2>2. EndOf(f, n, line.to) = EndAt(f, line.to, l.toPort)
    BY <1>1, <2>1 DEF EndOf, EndAt
  <2>3. EndOf(f, n, line.from) = EndAt(f, line.from, l.fromPort)
    BY <1>1, <2>1 DEF EndOf, EndAt
  <2>4. line.from < f.switches => new.ports[line.from][NextPort(n, line.from)] = EndOf(f, n, line.to)
    BY <1>1, <2>1 DEF Joins
  <2>5. line.to < f.switches => new.ports[line.to][NextPort(n, line.to)] = EndOf(f, n, line.from)
    BY <1>1, <2>1 DEF Joins
  <2>6. QED
    BY <1>1, <2>1, <2>2, <2>3, <2>4, <2>5 DEF MeetsAt
<1>7. ASSUME NEW i \in 1 .. Len(next.links) PROVE MeetsAt(f, next.links[i], new)
  <2>1. Len(next.links) = Len(r.links) + 1 /\ Len(r.links) \in Nat
    BY <1>2, <1>3, <1>4
  <2> HIDE DEF l
  <2>2. CASE i = Len(r.links) + 1
    BY <1>2, <1>3, <1>4, <1>6, <2>2
  <2>3. CASE i # Len(r.links) + 1
    <3>1. i \in 1 .. Len(r.links)
      BY <2>1, <2>3
    <3>2. next.links[i] = r.links[i] /\ r.links[i] \in StoredLinks(f)
      BY <1>2, <1>3, <1>4, <3>1
    <3>3. MeetsAt(f, r.links[i], n)
      BY <3>1 DEF Agree
    <3>4. QED
      BY <3>2, <3>3, MeetsStays
  <2>4. QED
    BY <2>2, <2>3
<1>8. QED
  BY <1>5, <1>7 DEF Agree

(* The links read so far are the first ones of all. *)
BeginsWith(b, a) == Len(a) <= Len(b) /\ \A i \in 1 .. Len(a) : b[i] = a[i]

LEMMA BeginsTransitive ==
  ASSUME NEW a, NEW b, NEW c, Len(a) \in Nat, Len(b) \in Nat, Len(c) \in Nat,
         BeginsWith(b, a), BeginsWith(c, b)
  PROVE  BeginsWith(c, a)
<1>1. Len(a) <= Len(c)
  BY DEF BeginsWith
<1>2. ASSUME NEW i \in 1 .. Len(a) PROVE c[i] = a[i]
  <2>1. i \in 1 .. Len(b)
    BY DEF BeginsWith
  <2>2. QED
    BY <2>1 DEF BeginsWith
<1>3. QED
  BY <1>1, <1>2 DEF BeginsWith

LEMMA LinksReadStay ==
  ASSUME NEW f, IsFile(f), ~BadIndex(f), NEW k \in 0 .. Len(LinkLines(f))
  PROVE  BeginsWith(ReadLinks(f), Reading(f)[k].links)
<1> DEFINE N == Len(LinkLines(f))
           R == Reading(f)
           S == {j \in 0 .. N : BeginsWith(R[N].links, R[N - j].links)}
<1>1. N \in Nat /\ \A i \in 0 .. N : R[i].links \in Seq(StoredLinks(f)) /\ Len(R[i].links) \in Nat
  <2>1. N \in Nat
    BY LinkLinesType
  <2>2. \A i \in 0 .. N : R[i] \in Readers(f)
    BY ReadingSteps
  <2>3. \A i \in 0 .. N : R[i].links \in Seq(StoredLinks(f))
    BY <2>2 DEF Readers
  <2>4. QED
    BY <2>1, <2>3
<1>2. ASSUME NEW i \in 1 .. N PROVE BeginsWith(R[i].links, R[i - 1].links)
  <2>1. i - 1 \in 0 .. N /\ R[i] = ReadLink(R[i - 1], LinkLines(f)[i])
    BY <1>1, ReadingSteps
  <2> HIDE DEF R, N
  <2>2. CASE LinkLines(f)[i].kind # "link"
    BY <1>1, <2>1, <2>2 DEF ReadLink, BeginsWith
  <2>3. CASE LinkLines(f)[i].kind = "link"
    <3>1. PICK x : R[i].links = Append(R[i - 1].links, x)
      BY <2>1, <2>3 DEF ReadLink
    <3>2. QED
      BY <1>1, <2>1, <3>1 DEF BeginsWith
  <2>4. QED
    BY <2>2, <2>3
<1> HIDE DEF R, N
<1>3. 0 \in S
  BY <1>1 DEF BeginsWith
<1>4. ASSUME NEW j \in 1 .. N, j - 1 \in S PROVE j \in S
  <2>1. N - j \in 0 .. N /\ N - (j - 1) \in 1 .. N /\ (N - (j - 1)) - 1 = N - j
    BY <1>1
  <2>2. BeginsWith(R[N - (j - 1)].links, R[N - j].links)
    BY <1>2, <2>1
  <2>3. BeginsWith(R[N].links, R[N - (j - 1)].links)
    BY <1>4
  <2>4. BeginsWith(R[N].links, R[N - j].links)
    <3>1. Len(R[N].links) \in Nat /\ Len(R[N - (j - 1)].links) \in Nat /\ Len(R[N - j].links) \in Nat
      BY <1>1, <2>1
    <3>2. QED
      BY <2>2, <2>3, <3>1, BeginsTransitive
  <2>5. QED
    BY <2>4
<1>5. N - k \in 0 .. N /\ N - (N - k) = k
  BY <1>1 DEF N
<1>6. N - k \in S
  <2> HIDE DEF S
  <2>1. 0 .. N \subseteq S
    BY <1>1, <1>3, <1>4, Induction
  <2>2. QED
    BY <1>5, <2>1
<1>7. QED
  BY <1>5, <1>6 DEF R, N, ReadLinks

(* All of the links agree with what is installed at the end. *)
LEMMA AllAgree ==
  ASSUME NEW f, IsFile(f), ~BadIndex(f)
  PROVE  /\ Install(f, ReadLinks(f)) \in Nets(f)
         /\ \A i \in 1 .. Len(ReadLinks(f)) : MeetsAt(f, ReadLinks(f)[i], Install(f, ReadLinks(f)))
<1> DEFINE N == Len(LinkLines(f))
           R == Reading(f)
           L == ReadLinks(f)
           I == Installing(f, L)
           S == {k \in 0 .. N : Agree(f, R[k], I[Len(R[k].links)])}
<1>1. N \in Nat /\ L \in Seq(StoredLinks(f)) /\ Len(L) \in Nat
  BY LinkLinesType, ReadLinksType
<1>2. /\ I[0] = NewNet(f)
      /\ \A m \in 0 .. Len(L) : I[m] \in Nets(f)
      /\ \A m \in 1 .. Len(L) : Joins(f, I[m - 1], L[m].link, I[m])
  BY <1>1, InstallingSteps
<1>3. /\ R[0] = NewReader(f)
      /\ \A k \in 0 .. N : R[k] \in Readers(f)
      /\ \A k \in 1 .. N : R[k] = ReadLink(R[k - 1], LinkLines(f)[k])
  BY ReadingSteps
<1>4. \A k \in 0 .. N : BeginsWith(L, R[k].links)
  BY LinksReadStay
<1>5. L = R[N].links
  BY DEF ReadLinks
<1>6. \A k \in 1 .. N : LinkLines(f)[k].kind = "link" => LinkLines(f)[k] \in LinksIn(f)
  <2>1. NewReader(f) \in Readers(f)
    BY DEF NewReader, Readers
  <2>2. QED
    BY <2>1, ReadLinkType
<1>7. N \in 0 .. N /\ 0 \in 0 .. N
  BY <1>1
<1> HIDE DEF R, N, L, I
<1>8. 0 \in S
  <2>1. R[0].links = <<>> /\ Len(R[0].links) = 0
    BY <1>3 DEF NewReader
  <2>2. \A s \in SwitchesOf(f) : s \in NodesIn(f)
    BY DEF SwitchesOf, NodesIn, IsFile
  <2>3. \A s \in SwitchesOf(f) : R[0].counter[s] = 0 /\ Len(NewNet(f).ports[s]) = 0
    BY <1>3, <2>2 DEF NewReader, NewNet
  <2>4. QED
    BY <1>2, <1>7, <2>1, <2>3 DEF Agree
<1>9. ASSUME NEW k \in 1 .. N, k - 1 \in S PROVE k \in S
  <2> DEFINE r == R[k - 1]
             line == LinkLines(f)[k]
             m == Len(r.links)
  <2>1. k - 1 \in 0 .. N /\ k \in 0 .. N
    BY <1>1
  <2>2. r \in Readers(f) /\ R[k] \in Readers(f) /\ R[k] = ReadLink(r, line)
    BY <1>3, <2>1
  <2>3. r.links \in Seq(StoredLinks(f)) /\ m \in Nat
    BY <2>2 DEF Readers
  <2>4. Agree(f, r, I[m])
    BY <1>9
  <2>5. CASE line.kind # "link"
    BY <2>1, <2>2, <2>4, <2>5 DEF ReadLink
  <2>6. CASE line.kind = "link"
    <3>1. line \in LinksIn(f)
      BY <1>6, <2>6
    <3> DEFINE y == [link |-> line, fromPort |-> r.counter[line.from] + 1, toPort |-> r.counter[line.to] + 1]
    <3>a. ReadLink(r, line).links = Append(r.links, y) /\ y.link = line
      <4> HIDE DEF r, line
      <4>1. QED
        BY <2>6 DEF ReadLink
    <3> HIDE DEF y
    <3>2. PICK x : R[k].links = Append(r.links, x) /\ x.link = line
      BY <2>2, <3>a
    <3>3. Len(R[k].links) = m + 1 /\ R[k].links[m + 1] = x
      BY <2>3, <3>2
    <3>4. m + 1 \in 1 .. Len(L) /\ L[m + 1] = x /\ m \in 0 .. Len(L)
      <4>1. BeginsWith(L, R[k].links)
        BY <1>4, <2>1
      <4>2. m + 1 \in 1 .. Len(R[k].links) /\ m + 1 <= Len(L)
        BY <2>3, <3>3, <4>1 DEF BeginsWith
      <4>3. L[m + 1] = R[k].links[m + 1]
        BY <4>1, <4>2 DEF BeginsWith
      <4>4. QED
        BY <1>1, <2>3, <3>3, <4>2, <4>3
    <3>5. I[m] \in Nets(f) /\ Joins(f, I[m], line, I[m + 1])
      <4>1. (m + 1) - 1 = m
        BY <2>3
      <4>2. Joins(f, I[(m + 1) - 1], L[m + 1].link, I[m + 1])
        BY <1>2, <3>4
      <4>3. QED
        BY <1>2, <3>2, <3>4, <4>1, <4>2
    <3> HIDE DEF r, line, m
    <3>6. Agree(f, ReadLink(r, line), I[m + 1])
      BY <2>2, <2>4, <3>1, <3>5, AgreeStep
    <3>7. QED
      BY <2>1, <2>2, <3>3, <3>6
  <2>7. QED
    BY <2>5, <2>6
<1>10. Agree(f, R[N], I[Len(L)])
  <2> HIDE DEF S
  <2>1. 0 .. N \subseteq S
    BY <1>1, <1>8, <1>9, Induction
  <2>2. QED
    BY <1>5, <1>7, <2>1 DEF S
<1>11. QED
  BY <1>1, <1>2, <1>5, <1>10 DEF Agree, Install, L, I

-----------------------------------------------------------------------------
(* How far the program is.                                                 *)

Progress ==
  /\ program \in Programs
  /\ phase \in {"file", "links", "ports", "built", "running", "refused", "crashed"}
  /\ phase \in {"file", "links"} => net = Install(file, <<>>)
  /\ phase = "links" => ~BadIndex(file) /\ links = ReadLinks(file)
  /\ phase \in {"ports", "built", "running"} =>
       /\ ~BadIndex(file) /\ links = ReadLinks(file) /\ net = Install(file, links)
       /\ ~net.error /\ MissingHosts(file, links) = {}
  /\ net = Install(file, <<>>) \/ (~BadIndex(file) /\ net = Install(file, ReadLinks(file)))

LEMMA ProgressInductive ==
  ASSUME Progress, [Next]_vars PROVE Progress'
<1> USE DEF Progress, file
<1>1. CASE ReadTopology
  BY <1>1 DEF ReadTopology
<1>2. CASE InstallLinks
  BY <1>2 DEF InstallLinks
<1>3. CASE BuildTables
  BY <1>3 DEF BuildTables
<1>4. CASE InstallSwitches
  BY <1>4 DEF InstallSwitches
<1>5. CASE UNCHANGED <<program, phase, links, net>>
  BY <1>5
<1>6. (\E flow \in program.flows : BeginFlow(flow)) \/ Drop \/ Hop \/ UNCHANGED vars
        => UNCHANGED <<program, phase, links, net>>
  BY Zenon DEF BeginFlow, Drop, Hop, vars
<1>7. QED
  BY <1>1, <1>2, <1>3, <1>4, <1>5, <1>6 DEF Next

(* What phase a program is in tells how far the links are read and         *)
(* installed.                                                              *)
THEOREM ProgressHolds == Spec => []Progress
<1>1. Init => Progress
  BY DEF Init, Progress, file
<1>2. QED
  BY <1>1, ProgressInductive, PTL DEF Spec

LEMMA ProgramFile ==
  ASSUME Progress
  PROVE  IsFile(file) /\ IsProgram(program)
BY FlowTablesAssumption DEF Progress, IsProgram, file

(* The reader and the program that installs the devices number the ports   *)
(* of every switch alike: what is at each end of every link is what the    *)
(* reader says (P4TopologyReader::Read).                                   *)
THEOREM PortsAgreeHolds == Spec => []PortsAgree
<1>1. ASSUME Progress PROVE PortsAgree
  <2>1. SUFFICES ASSUME phase \in {"ports", "built", "running"}, NEW i \in DOMAIN links
                 PROVE  LET l == links[i].link
                            From == <<l.from, links[i].fromPort>>
                            To == <<l.to, links[i].toPort>>
                            Meets(a, b, bType) ==
                              net.ports[a[1]][a[2]] =
                                IF bType = "s" THEN ToSwitch(b[1], b[2]) ELSE ToHost(b[1] - file.switches)
                        IN /\ l.fromType = "s" => Meets(From, To, l.toType)
                           /\ l.toType = "s" => Meets(To, From, l.fromType)
    BY DEF PortsAgree
  <2>2. IsFile(file) /\ ~BadIndex(file) /\ links = ReadLinks(file) /\ net = Install(file, ReadLinks(file))
    BY <1>1, <2>1, ProgramFile DEF Progress
  <2>3. links \in Seq(StoredLinks(file)) /\ i \in 1 .. Len(links)
    BY <2>2, ReadLinksType
  <2>4. MeetsAt(file, links[i], net) /\ links[i] \in StoredLinks(file)
    BY <2>2, <2>3, AllAgree
  <2> DEFINE l == links[i].link
  <2>5. l \in LinksIn(file)
    BY <2>4 DEF StoredLinks
  <2>6. /\ l.fromType = "s" => l.from < file.switches
        /\ l.fromType # "s" => ~(l.from < file.switches)
        /\ l.toType = "s" => l.to < file.switches
        /\ l.toType # "s" => ~(l.to < file.switches)
    BY <2>5, LinkFields DEF Letter
  <2>7. QED
    BY <2>4, <2>6 DEF MeetsAt, EndAt
<1>2. QED
  BY <1>1, ProgressHolds, PTL

-----------------------------------------------------------------------------
(* What is installed.                                                      *)

(* The port of a switch exists and leads to a host, or to a switch.        *)
LeadsToHost(f, n, s, p, h) ==
  s \in SwitchesOf(f) /\ p \in 1 .. Len(n.ports[s]) /\ n.ports[s][p].flag = 0 /\ n.ports[s][p].node = h
LeadsToSwitch(f, n, s, p, t) ==
  s \in SwitchesOf(f) /\ p \in 1 .. Len(n.ports[s]) /\ n.ports[s][p].flag = 1 /\ n.ports[s][p].node = t

(* A port that leads to a switch leads to a port of it that leads back; a  *)
(* host that some port leads to has a home, and its home leads to it.      *)
Wired(f, n) ==
  /\ n \in Nets(f)
  /\ \A s \in SwitchesOf(f) : \A p \in 1 .. Len(n.ports[s]) :
       n.ports[s][p].flag = 1 => LeadsToSwitch(f, n, n.ports[s][p].node, n.ports[s][p].port, s)
  /\ \A s \in SwitchesOf(f) : \A p \in 1 .. Len(n.ports[s]) :
       n.ports[s][p].flag = 0 => n.home[n.ports[s][p].node] # NoHome
  /\ \A h \in HostsOf(f) : n.home[h] # NoHome =>
       LeadsToHost(f, n, n.home[h].switch, n.home[h].port, h)

LEMMA EndFields ==
  ASSUME NEW f, NEW n \in Nets(f), NEW s \in SwitchesOf(f), NEW p \in 1 .. Len(n.ports[s])
  PROVE  \/ /\ n.ports[s][p].flag = 1 /\ n.ports[s][p].node \in SwitchesOf(f)
            /\ n.ports[s][p].port \in Nat \ {0}
         \/ n.ports[s][p].flag = 0 /\ n.ports[s][p].node \in HostsOf(f)
<1>1. n.ports[s] \in Seq(Ends(f))
  BY DEF Nets, Portings
<1>2. n.ports[s][p] \in Ends(f)
  BY <1>1
<1>3. QED
  BY <1>2 DEF Ends, ToSwitch, ToHost

LEMMA EndAtFields ==
  ASSUME NEW f, NEW n, NEW port
  PROVE  /\ n < f.switches => EndAt(f, n, port).flag = 1 /\ EndAt(f, n, port).node = n
                               /\ EndAt(f, n, port).port = port
         /\ ~(n < f.switches) => EndAt(f, n, port).flag = 0 /\ EndAt(f, n, port).node = n - f.switches
BY DEF EndAt, ToSwitch, ToHost

(* A port is an earlier one or leads to the other end of the link.         *)
LEMMA PortsJoined ==
  ASSUME NEW f, IsFile(f), NEW acc \in Nets(f), NEW link \in LinksIn(f), NEW new,
         Joins(f, acc, link, new), NEW s \in SwitchesOf(f), NEW p \in 1 .. Len(new.ports[s])
  PROVE  \/ p \in 1 .. Len(acc.ports[s]) /\ new.ports[s][p] = acc.ports[s][p]
         \/ /\ s = link.from /\ new.ports[s][p] = EndOf(f, acc, link.to)
            /\ p = NextPort(acc, s) \/ (s = link.to /\ p = NextPort(acc, s) + 1)
         \/ /\ s = link.to /\ new.ports[s][p] = EndOf(f, acc, link.from) /\ p = NextPort(acc, s)
<1>1. Len(acc.ports[s]) \in Nat /\ Len(new.ports[s]) = Len(acc.ports[s]) + Added(link, s)
  BY DEF Joins
<1>2. CASE p \in 1 .. Len(acc.ports[s])
  BY <1>2 DEF Joins
<1>3. CASE p = Len(acc.ports[s]) + 1
  <2>1. s = link.from \/ s = link.to
    BY <1>1, <1>3, AddedCases
  <2>2. QED
    BY <1>3, <2>1 DEF Joins, NextPort
<1>4. CASE p > Len(acc.ports[s]) + 1
  <2>1. Added(link, s) = 2
    <3>1. Added(link, s) \in {0, 1, 2}
      BY AddedCases
    <3>2. QED
      BY <1>1, <1>4, <3>1
  <2>2. p = Len(acc.ports[s]) + 2
    BY <1>1, <1>4, <2>1
  <2>3. s = link.from /\ s = link.to
    BY <2>1, AddedCases
  <2>4. QED
    BY <1>1, <2>2, <2>3 DEF Joins, NextPort
<1>5. QED
  BY <1>1, <1>2, <1>3, <1>4

LEMMA JoinsStays ==
  ASSUME NEW f, NEW acc, NEW link, NEW new, Joins(f, acc, link, new),
         NEW s \in SwitchesOf(f), NEW p \in 1 .. Len(acc.ports[s])
  PROVE  p \in 1 .. Len(new.ports[s]) /\ new.ports[s][p] = acc.ports[s][p]
<1>1. Len(acc.ports[s]) \in Nat /\ Len(new.ports[s]) = Len(acc.ports[s]) + Added(link, s)
  BY DEF Joins
<1>2. p \in 1 .. Len(new.ports[s])
  BY <1>1, AddedCases
<1>3. QED
  BY <1>2 DEF Joins

LEMMA JoinedEnds ==
  ASSUME NEW f, IsFile(f), NEW acc \in Nets(f), NEW link \in LinksIn(f), NEW new,
         Joins(f, acc, link, new), NEW s \in SwitchesOf(f), s = link.from \/ s = link.to
  PROVE  /\ NextPort(acc, s) \in 1 .. Len(new.ports[s])
         /\ s = link.from => new.ports[s][NextPort(acc, s)] = EndOf(f, acc, link.to)
         /\ s = link.to => new.ports[s][NextPort(acc, s)] = EndOf(f, acc, link.from)
<1>1. Len(acc.ports[s]) \in Nat /\ Len(new.ports[s]) = Len(acc.ports[s]) + Added(link, s)
  BY DEF Joins
<1>a. Added(link, s) \in {1, 2}
  BY AddedCases
<1>2. NextPort(acc, s) \in 1 .. Len(new.ports[s])
  BY <1>1, <1>a DEF NextPort
<1>3. QED
  BY <1>2 DEF Joins

LEMMA WiredStep ==
  ASSUME NEW f, IsFile(f), NEW acc, Wired(f, acc), NEW link \in LinksIn(f), NEW new,
         Joins(f, acc, link, new)
  PROVE  Wired(f, new)
<1>1. acc \in Nets(f) /\ new \in Nets(f) /\ f.switches \in Nat
  BY DEF Wired, Joins, IsFile
<1>2. link.from \in NodesIn(f) /\ link.to \in NodesIn(f) /\ link.from \in Int /\ link.to \in Int
  BY LinkFields DEF NodesIn
<1>3. \A s \in SwitchesOf(f) : s < f.switches /\ s \in Int
  BY <1>1 DEF SwitchesOf
<1>4. \A h \in HostsOf(f) : acc.home[h] # NoHome => new.home[h] # NoHome
  <2>1. ASSUME NEW h \in HostsOf(f), acc.home[h] # NoHome, new.home[h] = NoHome PROVE FALSE
    <3>1. \/ new.home[h] = acc.home[h]
          \/ link.to < f.switches /\ new.home[h] = [switch |-> link.to, port |-> NextPort(acc, link.to)]
          \/ link.from < f.switches /\ new.home[h] = [switch |-> link.from, port |-> NextPort(acc, link.from)]
      BY DEF Joins
    <3>2. link.to # -1 /\ link.from # -1
      BY <1>2 DEF NodesIn
    <3>3. QED
      BY <2>1, <3>1, <3>2 DEF NoHome
  <2>2. QED
    BY <2>1
<1>5. ASSUME NEW s \in SwitchesOf(f), NEW p \in 1 .. Len(new.ports[s]), new.ports[s][p].flag = 1
      PROVE  LeadsToSwitch(f, new, new.ports[s][p].node, new.ports[s][p].port, s)
  <2>1. CASE p \in 1 .. Len(acc.ports[s]) /\ new.ports[s][p] = acc.ports[s][p]
    <3>1. LeadsToSwitch(f, acc, acc.ports[s][p].node, acc.ports[s][p].port, s)
      BY <1>5, <2>1 DEF Wired
    <3> DEFINE t == acc.ports[s][p].node
               q == acc.ports[s][p].port
    <3>2. t \in SwitchesOf(f) /\ q \in 1 .. Len(acc.ports[t])
      BY <3>1 DEF LeadsToSwitch
    <3> HIDE DEF t, q
    <3>3. q \in 1 .. Len(new.ports[t]) /\ new.ports[t][q] = acc.ports[t][q]
      BY <3>2, JoinsStays
    <3>4. new.ports[s][p].node = t /\ new.ports[s][p].port = q
      BY <2>1 DEF t, q
    <3>5. QED
      BY <3>1, <3>2, <3>3, <3>4 DEF LeadsToSwitch, t, q
  <2>2. CASE s = link.from /\ new.ports[s][p] = EndOf(f, acc, link.to)
    <3>1. link.to \in SwitchesOf(f) /\ new.ports[s][p].node = link.to
          /\ new.ports[s][p].port = NextPort(acc, link.to)
      BY <1>1, <1>2, <1>5, <2>2, EndAtFields, EndType DEF EndOf
    <3>2. /\ NextPort(acc, link.to) \in 1 .. Len(new.ports[link.to])
          /\ new.ports[link.to][NextPort(acc, link.to)] = EndOf(f, acc, s)
      BY <1>1, <2>2, <3>1, JoinedEnds
    <3>3. EndOf(f, acc, s).flag = 1 /\ EndOf(f, acc, s).node = s
      BY <1>3, EndAtFields DEF EndOf
    <3>4. QED
      BY <3>1, <3>2, <3>3 DEF LeadsToSwitch
  <2>3. CASE s = link.to /\ new.ports[s][p] = EndOf(f, acc, link.from)
    <3>1. link.from \in SwitchesOf(f) /\ new.ports[s][p].node = link.from
          /\ new.ports[s][p].port = NextPort(acc, link.from)
      BY <1>1, <1>2, <1>5, <2>3, EndAtFields, EndType DEF EndOf
    <3>2. /\ NextPort(acc, link.from) \in 1 .. Len(new.ports[link.from])
          /\ new.ports[link.from][NextPort(acc, link.from)] = EndOf(f, acc, s)
      BY <1>1, <2>3, <3>1, JoinedEnds
    <3>3. EndOf(f, acc, s).flag = 1 /\ EndOf(f, acc, s).node = s
      BY <1>3, EndAtFields DEF EndOf
    <3>4. QED
      BY <3>1, <3>2, <3>3 DEF LeadsToSwitch
  <2>4. QED
    BY <1>1, <2>1, <2>2, <2>3, PortsJoined
<1>6. ASSUME NEW s \in SwitchesOf(f), NEW p \in 1 .. Len(new.ports[s]), new.ports[s][p].flag = 0
      PROVE  new.home[new.ports[s][p].node] # NoHome
  <2>1. CASE p \in 1 .. Len(acc.ports[s]) /\ new.ports[s][p] = acc.ports[s][p]
    <3>1. acc.ports[s][p].node \in HostsOf(f) /\ acc.home[acc.ports[s][p].node] # NoHome
      BY <1>1, <1>6, <2>1, EndFields DEF Wired
    <3>2. QED
      BY <1>4, <2>1, <3>1
  <2>2. ASSUME NEW x \in NodesIn(f), new.ports[s][p] = EndOf(f, acc, x),
               (s = link.from /\ x = link.to) \/ (s = link.to /\ x = link.from)
        PROVE  new.home[new.ports[s][p].node] # NoHome
    <3>1. /\ ~(x < f.switches) /\ x - f.switches \in HostsOf(f) /\ x \in Int
          /\ new.ports[s][p].node = x - f.switches
      <4>1. x \in Int
        BY DEF NodesIn
      <4>2. ~(x < f.switches)
        BY <1>6, <2>2, EndAtFields DEF EndOf
      <4>3. QED
        BY <1>1, <2>2, <4>1, <4>2, EndAtFields, EndType DEF EndOf
    <3>2. new.home[x - f.switches] = [switch |-> s, port |-> NextPort(acc, s)]
      <4>1. (x - f.switches) + f.switches = x
        BY <1>1, <3>1
      <4>2. QED
        BY <1>3, <2>2, <3>1, <4>1 DEF Joins
    <3>3. s # -1
      BY <1>1 DEF SwitchesOf
    <3>4. QED
      BY <3>1, <3>2, <3>3 DEF NoHome
  <2>3. QED
    BY <1>1, <1>2, <2>1, <2>2, PortsJoined
<1>7. ASSUME NEW h \in HostsOf(f), new.home[h] # NoHome
      PROVE  LeadsToHost(f, new, new.home[h].switch, new.home[h].port, h)
  <2> DEFINE x == h + f.switches
  <2>1. x \in Int /\ ~(x < f.switches) /\ x - f.switches = h
    BY <1>1 DEF HostsOf
  <2>2. EndOf(f, acc, x).flag = 0 /\ EndOf(f, acc, x).node = h
    BY <2>1, EndAtFields DEF EndOf
  <2> HIDE DEF x
  <2>3. ASSUME NEW s \in NodesIn(f), s < f.switches,
               (s = link.from /\ x = link.to) \/ (s = link.to /\ x = link.from),
               new.home[h] = [switch |-> s, port |-> NextPort(acc, s)]
        PROVE  LeadsToHost(f, new, new.home[h].switch, new.home[h].port, h)
    <3>1. s \in SwitchesOf(f)
      BY <1>1, <2>3, EndType
    <3>2. /\ NextPort(acc, s) \in 1 .. Len(new.ports[s])
          /\ new.ports[s][NextPort(acc, s)] = EndOf(f, acc, x)
      BY <1>1, <2>3, <3>1, JoinedEnds
    <3>3. QED
      BY <2>2, <2>3, <3>1, <3>2 DEF LeadsToHost
  <2>4. CASE new.home[h] = acc.home[h]
    <3>1. LeadsToHost(f, acc, acc.home[h].switch, acc.home[h].port, h)
      BY <1>7, <2>4 DEF Wired
    <3> DEFINE t == acc.home[h].switch
               q == acc.home[h].port
    <3>2. t \in SwitchesOf(f) /\ q \in 1 .. Len(acc.ports[t])
      BY <3>1 DEF LeadsToHost
    <3> HIDE DEF t, q
    <3>3. q \in 1 .. Len(new.ports[t]) /\ new.ports[t][q] = acc.ports[t][q]
      BY <3>2, JoinsStays
    <3>4. new.home[h].switch = t /\ new.home[h].port = q
      BY <2>4 DEF t, q
    <3>5. QED
      BY <3>1, <3>2, <3>3, <3>4 DEF LeadsToHost, t, q
  <2>5. QED
    BY <1>2, <2>3, <2>4 DEF Joins, x
<1>8. QED
  BY <1>1, <1>5, <1>6, <1>7 DEF Wired

(* Links that join two nodes, and a host at most once: then a port to a    *)
(* host is the home of that host.                                          *)
Names(f, l, h) == h + f.switches = l.link.from \/ h + f.switches = l.link.to
PlainLinks(f, stored) ==
  /\ \A i \in 1 .. Len(stored) : stored[i].link.from # stored[i].link.to
  /\ \A i, j \in 1 .. Len(stored) : \A h \in HostsOf(f) :
       Names(f, stored[i], h) /\ Names(f, stored[j], h) => i = j
PlainNet(f, n) ==
  \A s \in SwitchesOf(f) : \A p \in 1 .. Len(n.ports[s]) :
    /\ n.ports[s][p].flag = 1 => n.ports[s][p].node # s
    /\ n.ports[s][p].flag = 0 => n.home[n.ports[s][p].node] = [switch |-> s, port |-> p]

Installed(f, stored, m, n) ==
  /\ Wired(f, n)
  /\ \A h \in HostsOf(f) : n.home[h] # NoHome => \E i \in 1 .. m : Names(f, stored[i], h)
  /\ ~n.error => \A i \in 1 .. m : \A h \in HostsOf(f) :
                   Names(f, stored[i], h) => n.home[h] # NoHome
  /\ PlainLinks(f, stored) => PlainNet(f, n)

LEMMA InstalledStep ==
  ASSUME NEW f, IsFile(f), NEW stored \in Seq(StoredLinks(f)), NEW m \in 1 .. Len(stored),
         NEW acc, Installed(f, stored, m - 1, acc), NEW new, Joins(f, acc, stored[m].link, new)
  PROVE  Installed(f, stored, m, new)
<1> DEFINE link == stored[m].link
<1>1. f.switches \in Nat /\ f.hosts \in Nat /\ Wired(f, acc) /\ m \in Nat
  BY DEF Installed, IsFile
<1>2. link \in LinksIn(f)
  <2>1. stored[m] \in StoredLinks(f)
    OBVIOUS
  <2>2. QED
    BY <2>1 DEF StoredLinks
<1> HIDE DEF link
<1>3. Joins(f, acc, link, new)
  BY DEF link
<1>4. Wired(f, new)
  BY <1>1, <1>2, <1>3, WiredStep
<1>5. link.from \in Int /\ link.to \in Int /\ link.from \in NodesIn(f) /\ link.to \in NodesIn(f)
  BY <1>2, LinkFields DEF NodesIn
<1>6. ASSUME NEW h \in HostsOf(f)
      PROVE  /\ h \in Nat /\ ~(h + f.switches < f.switches) /\ (h + f.switches) - f.switches = h
             /\ ~Names(f, stored[m], h) => new.home[h] = acc.home[h]
             /\ acc.home[h] # NoHome => new.home[h] # NoHome
             /\ Names(f, stored[m], h) /\ ~new.error => new.home[h] # NoHome
  <2>1. h \in Nat /\ ~(h + f.switches < f.switches) /\ (h + f.switches) - f.switches = h
    BY <1>1 DEF HostsOf
  <2>2. ~Names(f, stored[m], h) => new.home[h] = acc.home[h]
    BY <1>3 DEF Joins, Names, link
  <2>3. link.to # -1 /\ link.from # -1
    BY <1>5 DEF NodesIn
  <2>4. \A s, p : s # -1 => [switch |-> s, port |-> p] # NoHome
    BY DEF NoHome
  <2>5. acc.home[h] # NoHome => new.home[h] # NoHome
    BY <1>3, <2>3, <2>4 DEF Joins
  <2>6. ASSUME Names(f, stored[m], h), ~new.error PROVE new.home[h] # NoHome
    <3>1. link.from < f.switches \/ link.to < f.switches
      BY <1>3, <2>6 DEF Joins
    <3>2. h + f.switches = link.from \/ h + f.switches = link.to
      BY <2>6 DEF Names, link
    <3>3. \/ h + f.switches = link.from /\ link.to < f.switches
          \/ /\ ~(h + f.switches = link.from /\ link.to < f.switches)
             /\ h + f.switches = link.to /\ link.from < f.switches
      BY <1>1, <1>5, <2>1, <3>1, <3>2
    <3>4. \/ new.home[h] = [switch |-> link.to, port |-> NextPort(acc, link.to)]
          \/ new.home[h] = [switch |-> link.from, port |-> NextPort(acc, link.from)]
      BY <1>3, <3>3 DEF Joins
    <3>5. QED
      BY <2>3, <2>4, <3>4
  <2>7. QED
    BY <2>1, <2>2, <2>5, <2>6
<1>7. ASSUME NEW h \in HostsOf(f), new.home[h] # NoHome
      PROVE  \E i \in 1 .. m : Names(f, stored[i], h)
  <2>1. CASE Names(f, stored[m], h)
    <3>1. m \in 1 .. m
      BY <1>1
    <3>2. QED
      BY <2>1, <3>1
  <2>2. CASE ~Names(f, stored[m], h)
    <3>1. acc.home[h] # NoHome
      BY <1>6, <1>7, <2>2
    <3>2. PICK i \in 1 .. m - 1 : Names(f, stored[i], h)
      BY <3>1 DEF Installed
    <3>3. i \in 1 .. m
      BY <1>1
    <3>4. QED
      BY <3>2, <3>3
  <2>3. QED
    BY <2>1, <2>2
<1>8. ASSUME ~new.error, NEW i \in 1 .. m, NEW h \in HostsOf(f), Names(f, stored[i], h)
      PROVE  new.home[h] # NoHome
  <2>1. CASE i = m
    BY <1>6, <1>8, <2>1
  <2>2. CASE i # m
    <3>1. i \in 1 .. m - 1 /\ ~acc.error
      BY <1>1, <1>3, <1>8, <2>2 DEF Joins
    <3>2. acc.home[h] # NoHome
      BY <1>8, <3>1 DEF Installed
    <3>3. QED
      BY <1>6, <3>2
  <2>3. QED
    BY <2>1, <2>2
<1>9. ASSUME PlainLinks(f, stored) PROVE PlainNet(f, new)
  <2>1. link.from # link.to /\ PlainNet(f, acc)
    BY <1>9 DEF PlainLinks, Installed, link
  <2>2. ASSUME NEW s \in SwitchesOf(f), NEW p \in 1 .. Len(new.ports[s])
        PROVE  /\ new.ports[s][p].flag = 1 => new.ports[s][p].node # s
               /\ new.ports[s][p].flag = 0 => new.home[new.ports[s][p].node] = [switch |-> s, port |-> p]
    <3>1. CASE p \in 1 .. Len(acc.ports[s]) /\ new.ports[s][p] = acc.ports[s][p]
      <4>1. new.ports[s][p].flag = 1 => new.ports[s][p].node # s
        BY <2>1, <3>1 DEF PlainNet
      <4>2. ASSUME new.ports[s][p].flag = 0
            PROVE  new.home[new.ports[s][p].node] = [switch |-> s, port |-> p]
        <5> DEFINE h == acc.ports[s][p].node
        <5>1. h \in HostsOf(f)
          BY <1>1, <3>1, <4>2, EndFields DEF Wired
        <5>2. acc.home[h] = [switch |-> s, port |-> p] /\ acc.home[h] # NoHome
          BY <1>1, <2>1, <3>1, <4>2 DEF PlainNet, Wired
        <5>3. PICK i \in 1 .. m - 1 : Names(f, stored[i], h)
          BY <5>1, <5>2 DEF Installed
        <5>4. i \in 1 .. Len(stored) /\ i # m
          BY <1>1
        <5>5. ~Names(f, stored[m], h)
          BY <1>9, <5>1, <5>3, <5>4 DEF PlainLinks
        <5>6. new.home[h] = acc.home[h]
          BY <1>6, <5>1, <5>5
        <5>7. QED
          BY <3>1, <5>2, <5>6
      <4>3. QED
        BY <4>1, <4>2
    <3>2. ASSUME NEW x \in NodesIn(f), new.ports[s][p] = EndOf(f, acc, x), p = NextPort(acc, s),
                 (s = link.from /\ x = link.to) \/ (s = link.to /\ x = link.from)
          PROVE  /\ new.ports[s][p].flag = 1 => new.ports[s][p].node # s
                 /\ new.ports[s][p].flag = 0 => new.home[new.ports[s][p].node] = [switch |-> s, port |-> p]
      <4>1. x \in Int /\ s # x /\ s < f.switches
        BY <1>1, <2>1, <3>2 DEF NodesIn, SwitchesOf
      <4>2. CASE x < f.switches
        BY <3>2, <4>1, <4>2, EndAtFields DEF EndOf
      <4>3. CASE ~(x < f.switches)
        <5>1. /\ new.ports[s][p].flag = 0 /\ new.ports[s][p].node = x - f.switches
              /\ x - f.switches \in HostsOf(f) /\ (x - f.switches) + f.switches = x
          BY <1>1, <3>2, <4>1, <4>3, EndAtFields, EndType DEF EndOf, Wired
        <5>2. new.home[x - f.switches] = [switch |-> s, port |-> NextPort(acc, s)]
          BY <1>3, <3>2, <4>1, <5>1 DEF Joins
        <5>3. QED
          BY <3>2, <5>1, <5>2
      <4>4. QED
        BY <4>2, <4>3
    <3>3. acc \in Nets(f)
      BY <1>1 DEF Wired
    <3>4. \/ p \in 1 .. Len(acc.ports[s]) /\ new.ports[s][p] = acc.ports[s][p]
          \/ /\ s = link.from /\ new.ports[s][p] = EndOf(f, acc, link.to)
             /\ p = NextPort(acc, s) \/ (s = link.to /\ p = NextPort(acc, s) + 1)
          \/ /\ s = link.to /\ new.ports[s][p] = EndOf(f, acc, link.from) /\ p = NextPort(acc, s)
      <4> HIDE DEF link
      <4>1. QED
        BY <1>2, <1>3, <2>2, <3>3, PortsJoined
    <3> HIDE DEF link
    <3>5. QED
      BY <1>5, <2>1, <3>1, <3>2, <3>4
  <2>3. QED
    BY <2>2 DEF PlainNet
<1>10. QED
  BY <1>4, <1>7, <1>8, <1>9 DEF Installed

LEMMA InstallInstalls ==
  ASSUME NEW f, IsFile(f), NEW stored \in Seq(StoredLinks(f))
  PROVE  Installed(f, stored, Len(stored), Install(f, stored))
<1> DEFINE I == Installing(f, stored)
           N == Len(stored)
           S == {m \in 0 .. N : Installed(f, stored, m, I[m])}
<1>1. N \in Nat
  OBVIOUS
<1>2. 0 \in S
  <2>1. I[0] = NewNet(f) /\ NewNet(f) \in Nets(f)
    BY <1>1, InstallingSteps
  <2>2. \A s \in SwitchesOf(f) : NewNet(f).ports[s] = <<>> /\ Len(NewNet(f).ports[s]) = 0
    BY DEF NewNet
  <2>3. \A h \in HostsOf(f) : NewNet(f).home[h] = NoHome
    BY DEF NewNet
  <2>4. Wired(f, NewNet(f)) /\ PlainNet(f, NewNet(f))
    BY <2>1, <2>2, <2>3 DEF Wired, PlainNet
  <2>5. Installed(f, stored, 0, NewNet(f))
    BY <2>3, <2>4 DEF Installed
  <2>6. QED
    BY <1>1, <2>1, <2>5
<1>3. ASSUME NEW m \in 1 .. N, m - 1 \in S PROVE m \in S
  <2>1. Installed(f, stored, m - 1, I[m - 1]) /\ Joins(f, I[m - 1], stored[m].link, I[m])
    BY <1>3, InstallingSteps
  <2>2. Installed(f, stored, m, I[m])
    <3> HIDE DEF I
    <3>1. QED
      BY <2>1, InstalledStep
  <2>3. QED
    BY <2>2
<1>4. N \in S
  <2> HIDE DEF S
  <2>1. 0 .. N \subseteq S
    BY <1>1, <1>2, <1>3, Induction
  <2>2. QED
    BY <1>1, <2>1
<1>5. QED
  BY <1>4 DEF Install

(* Once the devices are installed every host has a home, which leads to it. *)
InPlace ==
  /\ Wired(file, net)
  /\ \A h \in HostsOf(file) : LeadsToHost(file, net, net.home[h].switch, net.home[h].port, h)
  /\ PlainLinks(file, ReadLinks(file)) => PlainNet(file, net)

LEMMA ProgressWired ==
  ASSUME Progress PROVE Wired(file, net) /\ IsFile(file)
<1>1. IsFile(file)
  BY ProgramFile
<1>2. CASE net = Install(file, <<>>)
  <2>1. <<>> \in Seq(StoredLinks(file))
    OBVIOUS
  <2>2. QED
    BY <1>1, <1>2, <2>1, InstallInstalls DEF Installed
<1>3. CASE ~BadIndex(file) /\ net = Install(file, ReadLinks(file))
  BY <1>1, <1>3, ReadLinksType, InstallInstalls DEF Installed
<1>4. QED
  BY <1>1, <1>2, <1>3 DEF Progress

LEMMA ProgressInPlace ==
  ASSUME Progress, phase \in {"ports", "built", "running"}
  PROVE  InPlace
<1>1. /\ IsFile(file) /\ ~BadIndex(file) /\ links = ReadLinks(file) /\ net = Install(file, links)
      /\ ~net.error /\ MissingHosts(file, links) = {}
  BY ProgramFile DEF Progress
<1>2. links \in Seq(StoredLinks(file))
  BY <1>1, ReadLinksType
<1>3. Installed(file, links, Len(links), net)
  BY <1>1, <1>2, InstallInstalls
<1>4. ASSUME NEW h \in HostsOf(file)
      PROVE  LeadsToHost(file, net, net.home[h].switch, net.home[h].port, h)
  <2>1. h + file.switches \in file.switches .. file.switches + file.hosts - 1
    BY <1>1 DEF IsFile, HostsOf
  <2>2. h + file.switches \in Created(links)
    BY <1>1, <2>1 DEF MissingHosts
  <2>3. PICK k \in DOMAIN links : h + file.switches \in {links[k].link.from, links[k].link.to}
    BY <2>2 DEF Created
  <2>4. k \in 1 .. Len(links) /\ Names(file, links[k], h)
    BY <1>2, <2>3 DEF Names
  <2>5. net.home[h] # NoHome
    BY <1>1, <1>3, <2>4 DEF Installed
  <2>6. QED
    BY <1>3, <2>5 DEF Installed, Wired
<1>5. QED
  BY <1>1, <1>3, <1>4 DEF InPlace, Installed

-----------------------------------------------------------------------------
(* The steps of a search.                                                  *)

Passes == [switch : SwitchesOf(file), in : Nat, out : Nat]
EntrySeqs == [SwitchesOf(file) -> Seq([dst : HostsOf(file), port : Nat])]
Results == [Calls -> Searches]

Here(call, port) == Append(call.d.passed, [switch |-> call.switch, in |-> call.in, out |-> port])
CallAcross(call, acc, port) ==
  [d |-> [acc EXCEPT !.passed = Here(call, port), !.recorded = @ \cup {call.switch}],
   host |-> call.host, switch |-> net.ports[call.switch][port].node, in |-> net.ports[call.switch][port].port]

LEMMA SearchFields ==
  ASSUME NEW d \in Searches
  PROVE  /\ d.passed \in Seq(Passes) /\ d.recorded \in SUBSET SwitchesOf(file)
         /\ d.linked \in SUBSET (HostsOf(file) \X HostsOf(file)) /\ d.entries \in EntrySeqs
         /\ d = [passed |-> d.passed, recorded |-> d.recorded, linked |-> d.linked, entries |-> d.entries]
BY DEF Searches, Passes, EntrySeqs

With(d, passed, recorded) == [d EXCEPT !.passed = passed, !.recorded = recorded]
LEMMA SearchWith ==
  ASSUME NEW d \in Searches, NEW passed \in Seq(Passes), NEW recorded \in SUBSET SwitchesOf(file)
  PROVE  /\ With(d, passed, recorded) \in Searches
         /\ With(d, passed, recorded).passed = passed /\ With(d, passed, recorded).recorded = recorded
         /\ With(d, passed, recorded).linked = d.linked /\ With(d, passed, recorded).entries = d.entries
<1> DEFINE e == [d EXCEPT !.passed = passed, !.recorded = recorded]
<1>1. e \in Searches
  BY SearchFields DEF Searches, Passes, EntrySeqs
<1>2. e.passed = passed /\ e.recorded = recorded
  BY DEF Searches
<1>3. e.linked = d.linked /\ e.entries = d.entries
  BY DEF Searches
<1>4. QED
  BY <1>1, <1>2, <1>3 DEF With

LEMMA CallFields ==
  ASSUME NEW call \in Calls
  PROVE  /\ call.d \in Searches /\ call.host \in HostsOf(file)
         /\ call.switch \in SwitchesOf(file) /\ call.in \in Nat
BY DEF Calls

(* What a call does at a port: it skips it, has reached a host, or goes on *)
(* to a switch.                                                            *)
Skips(call, acc, port) ==
  LET next == net.ports[call.switch][port]
  IN \/ port = call.in
     \/ next.flag = 0 /\ <<call.host, next.node>> \in acc.linked
     \/ next.flag = 1 /\ next.node \in acc.recorded
Reaches(call, port) ==
  LET next == net.ports[call.switch][port]
  IN port # call.in /\ next.flag = 0 /\ next.node \in HostsOf(file)
GoesOn(call, acc, port) ==
  LET next == net.ports[call.switch][port]
  IN port # call.in /\ next.flag = 1 /\ next.node \in SwitchesOf(file) /\ next.node \notin acc.recorded

(* The entries along a path are written from its end. *)
WithEntries(d, src, dst, entries) == [d EXCEPT !.linked = @ \cup {<<src, dst>>, <<dst, src>>}, !.entries = entries]
WrittenAlong(e, before, path, src, dst) ==
  /\ e \in [0 .. Len(path) -> EntrySeqs]
  /\ e[0] = before
  /\ \A k \in 1 .. Len(path) : e[k] = AddFlowtableEntry2(e[k - 1], src, dst, path[Len(path) + 1 - k])

LEMMA AddEntrySteps ==
  ASSUME NEW e \in EntrySeqs, NEW src \in HostsOf(file), NEW dst \in HostsOf(file), NEW pass \in Passes
  PROVE  AddFlowtableEntry2(e, src, dst, pass) \in EntrySeqs
<1>1. pass.switch \in SwitchesOf(file) /\ pass.in \in Nat /\ pass.out \in Nat
  BY DEF Passes
<1>2. <<[dst |-> src, port |-> pass.in], [dst |-> dst, port |-> pass.out]>> \in Seq([dst : HostsOf(file), port : Nat])
  BY <1>1
<1>3. e[pass.switch] \in Seq([dst : HostsOf(file), port : Nat])
  BY <1>1 DEF EntrySeqs
<1>4. ASSUME NEW A, NEW a \in Seq(A), NEW b \in Seq(A) PROVE a \o b \in Seq(A)
  OBVIOUS
<1>5. e[pass.switch] \o <<[dst |-> src, port |-> pass.in], [dst |-> dst, port |-> pass.out]>>
        \in Seq([dst : HostsOf(file), port : Nat])
  BY <1>2, <1>3, <1>4
<1>6. QED
  BY <1>1, <1>5 DEF AddFlowtableEntry2, EntrySeqs

LEMMA AddEntriesAlongSteps ==
  ASSUME NEW d \in Searches, NEW path \in Seq(Passes), NEW src \in HostsOf(file), NEW dst \in HostsOf(file)
  PROVE  \E e : /\ WrittenAlong(e, d.entries, path, src, dst)
                /\ AddEntriesAlong(d, path, src, dst) = WithEntries(d, src, dst, e[Len(path)])
<1> DEFINE N == Len(path)
           Turn(r) == [k \in 0 .. N |-> IF k = 0 THEN d.entries
                                        ELSE AddFlowtableEntry2(r[k - 1], src, dst, path[Len(path) + 1 - k])]
           after == CHOOSE r : r = Turn(r)
           F == [x \in (1 .. N) \X EntrySeqs |->
                  AddFlowtableEntry2(x[2], src, dst, path[Len(path) + 1 - x[1]])]
<1>1. N \in Nat /\ d.entries \in EntrySeqs
  BY SearchFields
<1>2. ASSUME NEW k \in 1 .. N, NEW e \in EntrySeqs
      PROVE  AddFlowtableEntry2(e, src, dst, path[Len(path) + 1 - k]) \in EntrySeqs
  <2>1. path[Len(path) + 1 - k] \in Passes
    OBVIOUS
  <2>2. QED
    BY <2>1, AddEntrySteps
<1>3. F \in Steps(EntrySeqs, N)
  BY <1>2 DEF Steps
<1>4. PICK r : Iterates(r, EntrySeqs, d.entries, N, F)
  <2> HIDE DEF N, F
  <2>1. QED
    BY <1>1, <1>3, Recursion
<1>5. ASSUME NEW k \in 1 .. N
      PROVE  r[k] = AddFlowtableEntry2(r[k - 1], src, dst, path[Len(path) + 1 - k])
  <2>1. k - 1 \in 0 .. N
    BY <1>1
  <2>2. <<k, r[k - 1]>> \in (1 .. N) \X EntrySeqs
    BY <1>4, <2>1 DEF Iterates
  <2>3. QED
    BY <1>4, <2>2 DEF Iterates
<1>6. r = Turn(r)
  BY <1>1, <1>4, <1>5 DEF Iterates
<1>7. after = Turn(after)
  BY <1>6
<1>8. AddEntriesAlong(d, path, src, dst) = WithEntries(d, src, dst, after[Len(path)])
  BY DEF AddEntriesAlong, WithEntries
<1> HIDE DEF after
<1>9. /\ after[0] = d.entries
      /\ \A k \in 1 .. N : after[k] = AddFlowtableEntry2(after[k - 1], src, dst, path[Len(path) + 1 - k])
  BY <1>1, <1>7
<1>10. \A k \in 0 .. N : after[k] \in EntrySeqs
  <2> DEFINE S == {k \in 0 .. N : after[k] \in EntrySeqs}
  <2>1. 0 \in S
    BY <1>1, <1>9
  <2>2. ASSUME NEW k \in 1 .. N, k - 1 \in S PROVE k \in S
    BY <1>2, <1>9, <2>2
  <2> HIDE DEF S
  <2>3. 0 .. N \subseteq S
    BY <1>1, <2>1, <2>2, Induction
  <2>4. QED
    BY <2>3 DEF S
<1>11. after \in [0 .. N -> EntrySeqs]
  BY <1>7, <1>10
<1>12. WrittenAlong(after, d.entries, path, src, dst)
  BY <1>9, <1>11 DEF WrittenAlong
<1>13. QED
  BY <1>8, <1>12

LEMMA AddEntriesAlongType ==
  ASSUME NEW d \in Searches, NEW path \in Seq(Passes), NEW src \in HostsOf(file), NEW dst \in HostsOf(file)
  PROVE  AddEntriesAlong(d, path, src, dst) \in Searches
<1>1. PICK e : /\ WrittenAlong(e, d.entries, path, src, dst)
               /\ AddEntriesAlong(d, path, src, dst) = WithEntries(d, src, dst, e[Len(path)])
  BY AddEntriesAlongSteps
<1>2. Len(path) \in 0 .. Len(path) /\ e[Len(path)] \in EntrySeqs
  BY <1>1 DEF WrittenAlong
<1>3. {<<src, dst>>, <<dst, src>>} \in SUBSET (HostsOf(file) \X HostsOf(file))
  OBVIOUS
<1>4. QED
  BY <1>1, <1>2, <1>3, SearchFields DEF Searches, EntrySeqs, WithEntries, Passes

LEMMA CallAcrossType ==
  ASSUME InPlace, NEW call \in Calls, NEW acc \in Searches,
         NEW port \in 1 .. Len(net.ports[call.switch]), net.ports[call.switch][port].flag = 1
  PROVE  /\ Here(call, port) \in Seq(Passes)
         /\ CallAcross(call, acc, port) \in Calls
         /\ CallAcross(call, acc, port).d =
              [acc EXCEPT !.passed = Here(call, port), !.recorded = @ \cup {call.switch}]
<1>1. net \in Nets(file)
  BY DEF InPlace, Wired
<1>2. call.switch \in SwitchesOf(file) /\ call.in \in Nat /\ port \in Nat /\ call.d.passed \in Seq(Passes)
  BY CallFields, SearchFields
<1>3. [switch |-> call.switch, in |-> call.in, out |-> port] \in Passes
  BY <1>2 DEF Passes
<1>4. Here(call, port) \in Seq(Passes)
  BY <1>2, <1>3 DEF Here
<1>5. net.ports[call.switch][port].node \in SwitchesOf(file) /\ net.ports[call.switch][port].port \in Nat
  BY <1>1, <1>2, EndFields
<1>6. acc.recorded \cup {call.switch} \in SUBSET SwitchesOf(file)
  BY <1>2, SearchFields
<1>7. [acc EXCEPT !.passed = Here(call, port), !.recorded = @ \cup {call.switch}] \in Searches
  BY <1>4, <1>6, SearchFields DEF Searches, Passes, EntrySeqs
<1>8. QED
  BY <1>4, <1>5, <1>7, CallFields DEF CallAcross, Calls

LEMMA VisitPortCases ==
  ASSUME InPlace, NEW deeper, NEW call \in Calls, NEW acc, NEW port \in 1 .. Len(net.ports[call.switch])
  PROVE  \/ Skips(call, acc, port) /\ VisitPort(deeper, call, acc, port) = acc
         \/ /\ Reaches(call, port)
            /\ VisitPort(deeper, call, acc, port) =
                 AddEntriesAlong(acc, Here(call, port), call.host, net.ports[call.switch][port].node)
         \/ /\ GoesOn(call, acc, port)
            /\ VisitPort(deeper, call, acc, port) = deeper[CallAcross(call, acc, port)]
<1>1. net \in Nets(file) /\ call.switch \in SwitchesOf(file)
  BY CallFields DEF InPlace, Wired
<1>2. \/ net.ports[call.switch][port].flag = 1 /\ net.ports[call.switch][port].node \in SwitchesOf(file)
      \/ net.ports[call.switch][port].flag = 0 /\ net.ports[call.switch][port].node \in HostsOf(file)
  BY <1>1, EndFields
<1>3. CASE Skips(call, acc, port)
  BY <1>3 DEF VisitPort, Skips
<1>4. CASE ~Skips(call, acc, port)
  <2> DEFINE next == net.ports[call.switch][port]
  <2>1. VisitPort(deeper, call, acc, port) =
          IF next.flag = 0 THEN AddEntriesAlong(acc, Here(call, port), call.host, next.node)
          ELSE deeper[CallAcross(call, acc, port)]
    BY <1>4 DEF VisitPort, Skips, Here, CallAcross
  <2>2. CASE next.flag = 0 /\ next.node \in HostsOf(file)
    BY <1>4, <2>1, <2>2 DEF Skips, Reaches
  <2>3. CASE next.flag = 1 /\ next.node \in SwitchesOf(file)
    <3>1. GoesOn(call, acc, port)
      BY <1>4, <2>3 DEF Skips, GoesOn
    <3>2. QED
      BY <2>1, <2>3, <3>1
  <2>4. QED
    BY <1>2, <2>2, <2>3
<1>5. QED
  BY <1>3, <1>4

LEMMA HereType ==
  ASSUME InPlace, NEW call \in Calls, NEW port \in 1 .. Len(net.ports[call.switch])
  PROVE  Here(call, port) \in Seq(Passes)
<1>1. net \in Nets(file)
  BY DEF InPlace, Wired
<1>2. call.switch \in SwitchesOf(file) /\ call.in \in Nat /\ call.d.passed \in Seq(Passes)
  BY CallFields, SearchFields
<1>3. Len(net.ports[call.switch]) \in Nat
  BY <1>1, <1>2 DEF Nets, Portings
<1>4. [switch |-> call.switch, in |-> call.in, out |-> port] \in Passes
  BY <1>2, <1>3 DEF Passes
<1>5. QED
  BY <1>2, <1>4 DEF Here

LEMMA VisitPortType ==
  ASSUME InPlace, NEW deeper \in Results, NEW call \in Calls, NEW acc \in Searches,
         NEW port \in 1 .. Len(net.ports[call.switch])
  PROVE  VisitPort(deeper, call, acc, port) \in Searches
<1>1. CASE VisitPort(deeper, call, acc, port) = acc
  BY <1>1
<1>2. CASE /\ Reaches(call, port)
           /\ VisitPort(deeper, call, acc, port) =
                 AddEntriesAlong(acc, Here(call, port), call.host, net.ports[call.switch][port].node)
  <2>1. call.host \in HostsOf(file) /\ net.ports[call.switch][port].node \in HostsOf(file)
    BY <1>2, CallFields DEF Reaches
  <2>2. QED
    BY <1>2, <2>1, HereType, AddEntriesAlongType
<1>3. CASE /\ GoesOn(call, acc, port)
           /\ VisitPort(deeper, call, acc, port) = deeper[CallAcross(call, acc, port)]
  <2>1. CallAcross(call, acc, port) \in Calls
    BY <1>3, CallAcrossType DEF GoesOn
  <2>2. QED
    BY <1>3, <2>1 DEF Results
<1>4. QED
  BY <1>1, <1>2, <1>3, VisitPortCases

(* The ports of a call, one after another. *)
Visits(a, deeper, call) ==
  /\ a \in [0 .. Len(net.ports[call.switch]) -> Searches]
  /\ a[0] = call.d
  /\ \A k \in 1 .. Len(net.ports[call.switch]) : a[k] = VisitPort(deeper, call, a[k - 1], k)

LEMMA VisitPortsSteps ==
  ASSUME InPlace, NEW deeper \in Results, NEW call \in Calls
  PROVE  \E a : /\ Visits(a, deeper, call)
                /\ VisitPorts(deeper, call) =
                     [a[Len(net.ports[call.switch])] EXCEPT !.passed = call.d.passed]
<1> DEFINE N == Len(net.ports[call.switch])
           Turn(r) == [k \in 0 .. N |-> IF k = 0 THEN call.d ELSE VisitPort(deeper, call, r[k - 1], k)]
           after == CHOOSE r : r = Turn(r)
           F == [x \in (1 .. N) \X Searches |-> VisitPort(deeper, call, x[2], x[1])]
<1>1. N \in Nat /\ call.d \in Searches
  BY CallFields DEF InPlace, Wired, Nets, Portings
<1>2. F \in Steps(Searches, N)
  BY VisitPortType DEF Steps
<1>3. PICK r : Iterates(r, Searches, call.d, N, F)
  <2> HIDE DEF N, F
  <2>1. QED
    BY <1>1, <1>2, Recursion
<1>4. ASSUME NEW k \in 1 .. N PROVE r[k] = VisitPort(deeper, call, r[k - 1], k)
  <2>1. k - 1 \in 0 .. N
    BY <1>1
  <2>2. <<k, r[k - 1]>> \in (1 .. N) \X Searches
    BY <1>3, <2>1 DEF Iterates
  <2>3. QED
    BY <1>3, <2>2 DEF Iterates
<1>5. r = Turn(r)
  BY <1>1, <1>3, <1>4 DEF Iterates
<1>6. after = Turn(after)
  BY <1>5
<1>7. VisitPorts(deeper, call) = [after[N] EXCEPT !.passed = call.d.passed]
  BY DEF VisitPorts
<1> HIDE DEF after
<1>8. after[0] = call.d /\ \A k \in 1 .. N : after[k] = VisitPort(deeper, call, after[k - 1], k)
  BY <1>1, <1>6
<1>9. \A k \in 0 .. N : after[k] \in Searches
  <2> DEFINE S == {k \in 0 .. N : after[k] \in Searches}
  <2>1. 0 \in S
    BY <1>1, <1>8
  <2>2. ASSUME NEW k \in 1 .. N, k - 1 \in S PROVE k \in S
    BY <1>8, <2>2, VisitPortType
  <2> HIDE DEF S
  <2>3. 0 .. N \subseteq S
    BY <1>1, <2>1, <2>2, Induction
  <2>4. QED
    BY <2>3 DEF S
<1>10. after \in [0 .. N -> Searches]
  BY <1>6, <1>9
<1>11. Visits(after, deeper, call)
  BY <1>8, <1>10 DEF Visits
<1>12. QED
  BY <1>7, <1>11

LEMMA VisitPortsType ==
  ASSUME InPlace, NEW deeper \in Results, NEW call \in Calls
  PROVE  VisitPorts(deeper, call) \in Searches
<1>1. PICK a : /\ Visits(a, deeper, call)
               /\ VisitPorts(deeper, call) = [a[Len(net.ports[call.switch])] EXCEPT !.passed = call.d.passed]
  BY VisitPortsSteps
<1>2. Len(net.ports[call.switch]) \in Nat
  BY CallFields DEF InPlace, Wired, Nets, Portings
<1>3. a[Len(net.ports[call.switch])] \in Searches
  BY <1>1, <1>2 DEF Visits
<1>4. call.d.passed \in Seq(Passes)
  BY CallFields, SearchFields
<1>5. QED
  BY <1>1, <1>3, <1>4, SearchFields DEF Searches, Passes, EntrySeqs

(* The calls by how deep they may go. *)
Depths(dfs) ==
  /\ dfs \in [0 .. MaxDepth -> Results]
  /\ \A call \in Calls : dfs[0][call] = call.d
  /\ \A depth \in 1 .. MaxDepth : \A call \in Calls :
       dfs[depth][call] = VisitPorts(dfs[depth - 1], call)

LEMMA DfsSteps ==
  ASSUME InPlace, IsFile(file)
  PROVE  \E dfs : Depths(dfs) /\ Dfs = dfs[MaxDepth]
<1> DEFINE N == MaxDepth
           Level(r, depth) == [call \in Calls |-> IF depth = 0 THEN call.d ELSE VisitPorts(r[depth - 1], call)]
           Turn(r) == [depth \in 0 .. N |-> Level(r, depth)]
           after == CHOOSE r : r = Turn(r)
           first == [call \in Calls |-> call.d]
           F == [x \in (1 .. N) \X Results |-> [call \in Calls |-> VisitPorts(x[2], call)]]
<1>1. N \in Nat /\ first \in Results
  BY CallFields DEF Results, IsFile, MaxDepth
<1>2. ASSUME NEW deeper \in Results PROVE [call \in Calls |-> VisitPorts(deeper, call)] \in Results
  BY VisitPortsType DEF Results
<1>3. F \in Steps(Results, N)
  BY <1>2 DEF Steps
<1>4. PICK r : Iterates(r, Results, first, N, F)
  <2> HIDE DEF N, F, first
  <2>1. QED
    BY <1>1, <1>3, Recursion
<1>5. ASSUME NEW depth \in 0 .. N PROVE r[depth] = Level(r, depth)
  <2>1. CASE depth = 0
    BY <1>4, <2>1 DEF Iterates
  <2>2. CASE depth # 0
    <3>1. depth \in 1 .. N /\ depth - 1 \in 0 .. N
      BY <1>1, <2>2
    <3>2. <<depth, r[depth - 1]>> \in (1 .. N) \X Results
      BY <1>4, <3>1 DEF Iterates
    <3>3. r[depth] = F[<<depth, r[depth - 1]>>]
      BY <1>4, <3>1 DEF Iterates
    <3>4. F[<<depth, r[depth - 1]>>] = [call \in Calls |-> VisitPorts(r[depth - 1], call)]
      BY <3>2
    <3>5. QED
      BY <2>2, <3>3, <3>4
  <2>3. QED
    BY <2>1, <2>2
<1>6. r = Turn(r)
  BY <1>4, <1>5 DEF Iterates
<1>7. after = Turn(after)
  BY <1>6
<1>8. Dfs = after[MaxDepth]
  BY DEF Dfs
<1> HIDE DEF after
<1>9. /\ after[0] = first
      /\ \A depth \in 1 .. N : after[depth] = [call \in Calls |-> VisitPorts(after[depth - 1], call)]
  <2>1. \A depth \in 0 .. N : after[depth] = Level(after, depth)
    BY <1>7
  <2>2. after[0] = first
    BY <1>1, <2>1
  <2>3. ASSUME NEW depth \in 1 .. N
        PROVE  after[depth] = [call \in Calls |-> VisitPorts(after[depth - 1], call)]
    <3>1. depth \in 0 .. N /\ depth # 0
      BY <1>1
    <3>2. QED
      BY <2>1, <3>1
  <2>4. QED
    BY <2>2, <2>3
<1>10. \A k \in 0 .. N : after[k] \in Results
  <2> DEFINE S == {k \in 0 .. N : after[k] \in Results}
  <2>1. 0 \in S
    BY <1>1, <1>9
  <2>2. ASSUME NEW k \in 1 .. N, k - 1 \in S PROVE k \in S
    <3>1. after[k - 1] \in Results /\ k \in 0 .. N
      BY <1>1, <2>2
    <3>2. after[k] \in Results
      BY <1>2, <1>9, <3>1
    <3>3. QED
      BY <3>1, <3>2
  <2> HIDE DEF S
  <2>3. 0 .. N \subseteq S
    BY <1>1, <2>1, <2>2, Induction
  <2>4. QED
    BY <2>3 DEF S
<1>11. after \in [0 .. N -> Results]
  BY <1>7, <1>10
<1>12. Depths(after)
  <2>1. \A call \in Calls : after[0][call] = call.d
    BY <1>9
  <2>2. \A depth \in 1 .. N : \A call \in Calls : after[depth][call] = VisitPorts(after[depth - 1], call)
    BY <1>9
  <2> HIDE DEF first
  <2>3. QED
    BY <1>11, <2>1, <2>2 DEF Depths
<1>13. QED
  BY <1>8, <1>12

(* The searches from the hosts, one after another. *)
FirstSearch ==
  [passed |-> <<>>, recorded |-> {}, linked |-> {}, entries |-> [s \in SwitchesOf(file) |-> <<>>]]
CallFrom(d, h) ==
  [d |-> [d EXCEPT !.passed = <<>>, !.recorded = {}], host |-> h,
   switch |-> net.home[h].switch, in |-> net.home[h].port]
FromHosts(a) ==
  /\ a \in [0 .. file.hosts -> Searches]
  /\ a[0] = FirstSearch
  /\ \A k \in 1 .. file.hosts : a[k] = DfsWhileUnlinked(a[k - 1], k - 1)

LEMMA DfsType ==
  ASSUME InPlace, IsFile(file) PROVE Dfs \in Results
<1>1. PICK dfs : Depths(dfs) /\ Dfs = dfs[MaxDepth]
  BY DfsSteps
<1>2. MaxDepth \in 0 .. MaxDepth
  BY DEF IsFile, MaxDepth
<1>3. QED
  BY <1>1, <1>2 DEF Depths

LEMMA CallFromType ==
  ASSUME InPlace, NEW d \in Searches, NEW h \in HostsOf(file)
  PROVE  /\ CallFrom(d, h) \in Calls
         /\ CallFrom(d, h).d.passed = <<>> /\ CallFrom(d, h).d.recorded = {}
         /\ CallFrom(d, h).d.linked = d.linked /\ CallFrom(d, h).d.entries = d.entries
<1>1. LeadsToHost(file, net, net.home[h].switch, net.home[h].port, h)
  BY DEF InPlace
<1>2. net \in Nets(file)
  BY DEF InPlace, Wired
<1>3. net.home[h].switch \in SwitchesOf(file) /\ net.home[h].port \in Nat
  <2>1. net.home[h].switch \in SwitchesOf(file) /\ Len(net.ports[net.home[h].switch]) \in Nat
    BY <1>1, <1>2 DEF LeadsToHost, Nets, Portings
  <2>2. QED
    BY <1>1, <2>1 DEF LeadsToHost
<1> DEFINE e == [d EXCEPT !.passed = <<>>, !.recorded = {}]
<1>4. e \in Searches /\ e.passed = <<>> /\ e.recorded = {} /\ e.linked = d.linked /\ e.entries = d.entries
  <2>0. <<>> \in Seq(Passes)
    OBVIOUS
  <2>1. PICK z \in Seq(Passes) : z = <<>>
    BY <2>0, Zenon
  <2>2. PICK r \in SUBSET SwitchesOf(file) : r = {}
    OBVIOUS
  <2>3. e = With(d, z, r)
    BY <2>1, <2>2 DEF With
  <2> HIDE DEF e
  <2>4. e \in Searches /\ e.passed = z /\ e.recorded = r /\ e.linked = d.linked /\ e.entries = d.entries
    BY <2>3, SearchWith
  <2>5. QED
    BY <2>1, <2>2, <2>4
<1>5. CallFrom(d, h).d = e
  BY DEF CallFrom
<1> HIDE DEF e
<1>6. CallFrom(d, h) \in Calls
  BY <1>3, <1>4 DEF CallFrom, Calls, e
<1>7. QED
  BY <1>4, <1>5, <1>6

LEMMA DfsFromHostIndexType ==
  ASSUME InPlace, IsFile(file), NEW d \in Searches, NEW h \in HostsOf(file)
  PROVE  /\ DfsFromHostIndex(d, h) \in Searches
         /\ DfsFromHostIndex(d, h) = [Dfs[CallFrom(d, h)] EXCEPT !.passed = <<>>]
<1>1. DfsFromHostIndex(d, h) = [Dfs[CallFrom(d, h)] EXCEPT !.passed = <<>>]
  BY DEF DfsFromHostIndex, CallFrom
<1>2. CallFrom(d, h) \in Calls
  BY CallFromType
<1>3. Dfs[CallFrom(d, h)] \in Searches
  BY <1>2, DfsType DEF Results
<1>4. QED
  <2>1. ASSUME NEW e \in Searches PROVE [e EXCEPT !.passed = <<>>] \in Searches
    <3>0. <<>> \in Seq(Passes)
      OBVIOUS
    <3>1. PICK z \in Seq(Passes) : z = <<>>
      BY <3>0, Zenon
    <3>2. [e EXCEPT !.passed = z] \in Searches
      BY SearchFields DEF Searches, EntrySeqs, Passes
    <3>3. QED
      BY <3>1, <3>2
  <2>2. QED
    BY <1>1, <1>3, <2>1

LEMMA DfsWhileUnlinkedType ==
  ASSUME InPlace, IsFile(file), NEW d \in Searches, NEW h \in HostsOf(file)
  PROVE  DfsWhileUnlinked(d, h) \in Searches
BY DfsFromHostIndexType DEF DfsWhileUnlinked

LEMMA DefaultEntriesSteps ==
  ASSUME InPlace, IsFile(file)
  PROVE  \E a : FromHosts(a) /\ DefaultEntries = a[file.hosts].entries
<1> DEFINE N == file.hosts
           Turn(r) == [h \in 0 .. N |-> IF h = 0 THEN FirstSearch ELSE DfsWhileUnlinked(r[h - 1], h - 1)]
           after == CHOOSE r : r = Turn(r)
           F == [x \in (1 .. N) \X Searches |-> DfsWhileUnlinked(x[2], x[1] - 1)]
<1>1. N \in Nat /\ FirstSearch \in Searches
  BY DEF IsFile, FirstSearch, Searches
<1>2. \A k \in 1 .. N : k - 1 \in HostsOf(file)
  BY <1>1 DEF HostsOf
<1>3. ASSUME NEW k \in 1 .. N, NEW d \in Searches PROVE DfsWhileUnlinked(d, k - 1) \in Searches
  BY <1>2, DfsWhileUnlinkedType
<1>4. F \in Steps(Searches, N)
  BY <1>3 DEF Steps
<1>5. PICK r : Iterates(r, Searches, FirstSearch, N, F)
  <2> HIDE DEF N, F
  <2>1. QED
    BY <1>1, <1>4, Recursion
<1>6. ASSUME NEW k \in 1 .. N PROVE r[k] = DfsWhileUnlinked(r[k - 1], k - 1)
  <2>1. k - 1 \in 0 .. N
    BY <1>1
  <2>2. <<k, r[k - 1]>> \in (1 .. N) \X Searches
    BY <1>5, <2>1 DEF Iterates
  <2>3. QED
    BY <1>5, <2>2 DEF Iterates
<1>7. r = Turn(r)
  BY <1>1, <1>5, <1>6 DEF Iterates
<1>8. after = Turn(after)
  BY <1>7
<1>9. DefaultEntries = after[file.hosts].entries
  BY DEF DefaultEntries, FirstSearch
<1> HIDE DEF after
<1>10. after[0] = FirstSearch /\ \A k \in 1 .. N : after[k] = DfsWhileUnlinked(after[k - 1], k - 1)
  BY <1>1, <1>8
<1>11. \A k \in 0 .. N : after[k] \in Searches
  <2> DEFINE S == {k \in 0 .. N : after[k] \in Searches}
  <2>1. 0 \in S
    BY <1>1, <1>10
  <2>2. ASSUME NEW k \in 1 .. N, k - 1 \in S PROVE k \in S
    BY <1>3, <1>10, <2>2
  <2> HIDE DEF S
  <2>3. 0 .. N \subseteq S
    BY <1>1, <2>1, <2>2, Induction
  <2>4. QED
    BY <2>3 DEF S
<1>12. after \in [0 .. N -> Searches]
  BY <1>8, <1>11
<1>13. FromHosts(after)
  BY <1>10, <1>12 DEF FromHosts
<1>14. QED
  BY <1>9, <1>13

(* Written takes the port of a destination's first entry.                  *)
FirstEntry(entries, dst, k) ==
  k \in 1 .. Len(entries) /\ entries[k].dst = dst /\ \A j \in 1 .. k - 1 : entries[j].dst # dst

LEMMA WrittenCases ==
  ASSUME NEW entries, NEW A, entries \in Seq(A), NEW dst
  PROVE  \/ Written(entries, dst) = {} /\ \A j \in 1 .. Len(entries) : entries[j].dst # dst
         \/ \E k : FirstEntry(entries, dst, k) /\ Written(entries, dst) = {entries[k].port}
<1> DEFINE found == {k \in DOMAIN entries : entries[k].dst = dst}
           Least(k) == \A j \in found : k <= j
<1>1. DOMAIN entries = 1 .. Len(entries) /\ Len(entries) \in Nat
  OBVIOUS
<1>2. CASE found = {}
  BY <1>1, <1>2 DEF Written
<1>3. CASE found # {}
  <2>1. found \in SUBSET Nat
    BY <1>1
  <2>2. PICK k \in found : Least(k)
    BY <1>3, <2>1, LeastNatural
  <2>3. \A x \in found : Least(x) => x = k
    BY <2>1, <2>2
  <2>4. (CHOOSE x \in found : \A j \in found : x <= j) = k
    BY <2>2, <2>3
  <2>5. Written(entries, dst) = {entries[k].port}
    BY <1>3, <2>4 DEF Written
  <2>6. FirstEntry(entries, dst, k)
    BY <1>1, <2>1, <2>2 DEF FirstEntry
  <2>7. QED
    BY <2>5, <2>6
<1>4. QED
  BY <1>2, <1>3

-----------------------------------------------------------------------------
(* The ports in the entries.                                               *)

GoodPasses(passed) ==
  \A k \in 1 .. Len(passed) : /\ passed[k].in \in 1 .. Len(net.ports[passed[k].switch])
                              /\ passed[k].out \in 1 .. Len(net.ports[passed[k].switch])
GoodEntries(entries) ==
  \A s \in SwitchesOf(file) : \A k \in 1 .. Len(entries[s]) : entries[s][k].port \in 1 .. Len(net.ports[s])
GoodCall(call) ==
  /\ GoodPasses(call.d.passed) /\ GoodEntries(call.d.entries)
  /\ call.in \in 1 .. Len(net.ports[call.switch])

(* Two entries more for the switch of a pass.                              *)
LEMMA EntriesAdded ==
  ASSUME NEW e \in EntrySeqs, NEW src \in HostsOf(file), NEW dst \in HostsOf(file), NEW pass \in Passes
  PROVE  /\ \A s \in SwitchesOf(file) : s # pass.switch => AddFlowtableEntry2(e, src, dst, pass)[s] = e[s]
         /\ Len(e[pass.switch]) \in Nat
         /\ Len(AddFlowtableEntry2(e, src, dst, pass)[pass.switch]) = Len(e[pass.switch]) + 2
         /\ \A k \in 1 .. Len(e[pass.switch]) :
              AddFlowtableEntry2(e, src, dst, pass)[pass.switch][k] = e[pass.switch][k]
         /\ AddFlowtableEntry2(e, src, dst, pass)[pass.switch][Len(e[pass.switch]) + 1] =
              [dst |-> src, port |-> pass.in]
         /\ AddFlowtableEntry2(e, src, dst, pass)[pass.switch][Len(e[pass.switch]) + 2] =
              [dst |-> dst, port |-> pass.out]
<1> DEFINE A == [dst : HostsOf(file), port : Nat]
           b == [dst |-> src, port |-> pass.in]
           c == [dst |-> dst, port |-> pass.out]
           q == e[pass.switch]
<1>1. pass.switch \in SwitchesOf(file) /\ pass.in \in Nat /\ pass.out \in Nat
  BY DEF Passes
<1>2. q \in Seq(A) /\ b \in A /\ c \in A
  BY <1>1 DEF EntrySeqs
<1>3. e \in [SwitchesOf(file) -> Seq(A)]
  BY DEF EntrySeqs
<1>4. AddFlowtableEntry2(e, src, dst, pass) = [e EXCEPT ![pass.switch] = q \o <<b, c>>]
  BY <1>1 DEF AddFlowtableEntry2
<1>5. AddFlowtableEntry2(e, src, dst, pass)[pass.switch] = q \o <<b, c>>
  BY <1>1, <1>3, <1>4
<1> HIDE DEF A, b, c, q
<1>6. /\ Len(q) \in Nat /\ Len(q \o <<b, c>>) = Len(q) + 2
      /\ \A k \in 1 .. Len(q) : (q \o <<b, c>>)[k] = q[k]
      /\ (q \o <<b, c>>)[Len(q) + 1] = b /\ (q \o <<b, c>>)[Len(q) + 2] = c
  <2>1. <<b, c>> \in Seq(A) /\ Len(<<b, c>>) = 2 /\ <<b, c>>[1] = b /\ <<b, c>>[2] = c
    BY <1>2
  <2>2. Len(q) \in Nat /\ Len(q \o <<b, c>>) = Len(q) + 2
    BY <1>2, <2>1
  <2>3. \A k \in 1 .. Len(q) : (q \o <<b, c>>)[k] = q[k]
    BY <1>2, <2>1
  <2>4. (q \o <<b, c>>)[Len(q) + 1] = b
    BY <1>2, <2>1, <2>2
  <2>5. (q \o <<b, c>>)[Len(q) + 2] = c
    BY <1>2, <2>1, <2>2
  <2>6. QED
    BY <2>2, <2>3, <2>4, <2>5
<1>7. \A s \in SwitchesOf(file) : s # pass.switch => AddFlowtableEntry2(e, src, dst, pass)[s] = e[s]
  BY <1>3, <1>4
<1>8. QED
  BY <1>5, <1>6, <1>7 DEF q, b, c

LEMMA AddedGood ==
  ASSUME NEW e \in EntrySeqs, NEW src \in HostsOf(file), NEW dst \in HostsOf(file), NEW pass \in Passes,
         GoodEntries(e), pass.in \in 1 .. Len(net.ports[pass.switch]),
         pass.out \in 1 .. Len(net.ports[pass.switch])
  PROVE  GoodEntries(AddFlowtableEntry2(e, src, dst, pass))
<1> DEFINE new == AddFlowtableEntry2(e, src, dst, pass)
           x == pass.switch
<1>0. /\ \A s \in SwitchesOf(file) : s # x => new[s] = e[s]
      /\ Len(e[x]) \in Nat /\ Len(new[x]) = Len(e[x]) + 2
      /\ \A k \in 1 .. Len(e[x]) : new[x][k] = e[x][k]
      /\ new[x][Len(e[x]) + 1] = [dst |-> src, port |-> pass.in]
      /\ new[x][Len(e[x]) + 2] = [dst |-> dst, port |-> pass.out]
  BY EntriesAdded
<1> HIDE DEF new
<1>1. ASSUME NEW s \in SwitchesOf(file), NEW k \in 1 .. Len(new[s])
      PROVE  new[s][k].port \in 1 .. Len(net.ports[s])
  <2>1. CASE s # pass.switch
    <3>1. new[s] = e[s]
      BY <1>0, <2>1
    <3>2. QED
      BY <3>1 DEF GoodEntries
  <2>2. CASE s = pass.switch
    <3>1. Len(e[s]) \in Nat /\ Len(new[s]) = Len(e[s]) + 2
      BY <1>0, <2>2
    <3>2. k \in 1 .. Len(e[s]) \/ k = Len(e[s]) + 1 \/ k = Len(e[s]) + 2
      BY <3>1
    <3>3. CASE k \in 1 .. Len(e[s])
      BY <1>0, <2>2, <3>3 DEF GoodEntries
    <3>4. CASE k = Len(e[s]) + 1
      BY <1>0, <2>2, <3>4
    <3>5. CASE k = Len(e[s]) + 2
      BY <1>0, <2>2, <3>5
    <3>6. QED
      BY <3>2, <3>3, <3>4, <3>5
  <2>3. QED
    BY <2>1, <2>2
<1>2. QED
  BY <1>1 DEF GoodEntries, new

LEMMA AlongGood ==
  ASSUME NEW d \in Searches, NEW path \in Seq(Passes), NEW src \in HostsOf(file), NEW dst \in HostsOf(file),
         GoodEntries(d.entries), GoodPasses(path)
  PROVE  GoodEntries(AddEntriesAlong(d, path, src, dst).entries)
<1>1. PICK e : /\ WrittenAlong(e, d.entries, path, src, dst)
               /\ AddEntriesAlong(d, path, src, dst) = WithEntries(d, src, dst, e[Len(path)])
  BY AddEntriesAlongSteps
<1> DEFINE N == Len(path)
           S == {k \in 0 .. N : GoodEntries(e[k])}
<1>2. N \in Nat
  OBVIOUS
<1>3. 0 \in S
  BY <1>1, <1>2 DEF WrittenAlong
<1>4. ASSUME NEW k \in 1 .. N, k - 1 \in S PROVE k \in S
  <2>1. N + 1 - k \in 1 .. N
    BY <1>2
  <2>2. path[N + 1 - k] \in Passes /\ e[k - 1] \in EntrySeqs
    BY <1>1, <1>4, <2>1 DEF WrittenAlong
  <2>3. e[k] = AddFlowtableEntry2(e[k - 1], src, dst, path[N + 1 - k])
    BY <1>1 DEF WrittenAlong
  <2>4. GoodEntries(e[k])
    BY <1>4, <2>1, <2>2, <2>3, AddedGood DEF GoodPasses
  <2>5. QED
    BY <1>2, <2>4
<1>5. N \in S
  <2> HIDE DEF S
  <2>1. 0 .. N \subseteq S
    BY <1>2, <1>3, <1>4, Induction
  <2>2. QED
    BY <1>2, <2>1
<1>6. AddEntriesAlong(d, path, src, dst).entries = e[N]
  BY <1>1, SearchFields DEF WithEntries
<1>7. QED
  BY <1>5, <1>6

LEMMA HereGood ==
  ASSUME InPlace, NEW call \in Calls, GoodCall(call), NEW port \in 1 .. Len(net.ports[call.switch])
  PROVE  GoodPasses(Here(call, port))
<1> DEFINE pass == [switch |-> call.switch, in |-> call.in, out |-> port]
<1>1. call.d.passed \in Seq(Passes) /\ Len(call.d.passed) \in Nat
  BY CallFields, SearchFields
<1>2. /\ Len(Here(call, port)) = Len(call.d.passed) + 1
      /\ \A k \in 1 .. Len(call.d.passed) : Here(call, port)[k] = call.d.passed[k]
      /\ Here(call, port)[Len(call.d.passed) + 1] = pass
  BY <1>1 DEF Here
<1>3. pass.switch = call.switch /\ pass.in = call.in /\ pass.out = port
  OBVIOUS
<1> HIDE DEF pass
<1>4. ASSUME NEW k \in 1 .. Len(Here(call, port))
      PROVE  /\ Here(call, port)[k].in \in 1 .. Len(net.ports[Here(call, port)[k].switch])
             /\ Here(call, port)[k].out \in 1 .. Len(net.ports[Here(call, port)[k].switch])
  <2>1. k \in 1 .. Len(call.d.passed) \/ k = Len(call.d.passed) + 1
    BY <1>1, <1>2
  <2>2. QED
    BY <1>2, <1>3, <2>1 DEF GoodCall, GoodPasses
<1>5. QED
  BY <1>4 DEF GoodPasses

LEMMA VisitPortGood ==
  ASSUME InPlace, NEW deeper \in Results, NEW call \in Calls, NEW acc \in Searches,
         NEW port \in 1 .. Len(net.ports[call.switch]),
         \A c \in Calls : GoodCall(c) => GoodEntries(deeper[c].entries),
         GoodCall(call), GoodEntries(acc.entries)
  PROVE  GoodEntries(VisitPort(deeper, call, acc, port).entries)
<1>1. CASE VisitPort(deeper, call, acc, port) = acc
  BY <1>1
<1>2. CASE /\ Reaches(call, port)
           /\ VisitPort(deeper, call, acc, port) =
                 AddEntriesAlong(acc, Here(call, port), call.host, net.ports[call.switch][port].node)
  <2>1. call.host \in HostsOf(file) /\ net.ports[call.switch][port].node \in HostsOf(file)
    BY <1>2, CallFields DEF Reaches
  <2>2. QED
    BY <1>2, <2>1, HereType, HereGood, AlongGood
<1>3. CASE /\ GoesOn(call, acc, port)
           /\ VisitPort(deeper, call, acc, port) = deeper[CallAcross(call, acc, port)]
  <2> DEFINE c == CallAcross(call, acc, port)
  <2>1. c \in Calls /\ c.d = [acc EXCEPT !.passed = Here(call, port), !.recorded = @ \cup {call.switch}]
    BY <1>3, CallAcrossType DEF GoesOn
  <2>2. c.d.passed = Here(call, port) /\ c.d.entries = acc.entries
    BY <2>1, SearchFields
  <2>3. c.in \in 1 .. Len(net.ports[c.switch])
    <3>1. LeadsToSwitch(file, net, net.ports[call.switch][port].node, net.ports[call.switch][port].port, call.switch)
      BY <1>3, CallFields DEF GoesOn, InPlace, Wired
    <3>2. QED
      BY <3>1 DEF LeadsToSwitch, CallAcross
  <2> HIDE DEF c
  <2>4. GoodCall(c)
    BY <2>2, <2>3, HereGood DEF GoodCall
  <2>5. QED
    BY <1>3, <2>1, <2>4 DEF c
<1>4. QED
  BY <1>1, <1>2, <1>3, VisitPortCases

LEMMA VisitPortsGood ==
  ASSUME InPlace, NEW deeper \in Results, NEW call \in Calls,
         \A c \in Calls : GoodCall(c) => GoodEntries(deeper[c].entries), GoodCall(call)
  PROVE  GoodEntries(VisitPorts(deeper, call).entries)
<1>1. PICK a : /\ Visits(a, deeper, call)
               /\ VisitPorts(deeper, call) = [a[Len(net.ports[call.switch])] EXCEPT !.passed = call.d.passed]
  BY VisitPortsSteps
<1> DEFINE N == Len(net.ports[call.switch])
           S == {k \in 0 .. N : GoodEntries(a[k].entries)}
<1>2. N \in Nat
  BY CallFields DEF InPlace, Wired, Nets, Portings
<1>3. 0 \in S
  BY <1>1, <1>2 DEF Visits, GoodCall
<1>4. ASSUME NEW k \in 1 .. N, k - 1 \in S PROVE k \in S
  <2>1. a[k - 1] \in Searches /\ a[k] = VisitPort(deeper, call, a[k - 1], k)
    BY <1>1, <1>4 DEF Visits
  <2>2. GoodEntries(a[k].entries)
    BY <1>4, <2>1, VisitPortGood
  <2>3. QED
    BY <1>2, <2>2
<1>5. N \in S
  <2> HIDE DEF S
  <2>1. 0 .. N \subseteq S
    BY <1>2, <1>3, <1>4, Induction
  <2>2. QED
    BY <1>2, <2>1
<1>6. a[N] \in Searches
  BY <1>1, <1>2 DEF Visits
<1>7. VisitPorts(deeper, call).entries = a[N].entries
  BY <1>1, <1>6, SearchFields
<1>8. QED
  BY <1>5, <1>7

LEMMA DefaultGood ==
  ASSUME InPlace, IsFile(file)
  PROVE  DefaultEntries \in EntrySeqs /\ GoodEntries(DefaultEntries)
<1>1. ASSUME NEW call \in Calls, GoodCall(call) PROVE GoodEntries(Dfs[call].entries)
  <2>1. PICK dfs : Depths(dfs) /\ Dfs = dfs[MaxDepth]
    BY DfsSteps
  <2> DEFINE N == MaxDepth
             S == {k \in 0 .. N : \A c \in Calls : GoodCall(c) => GoodEntries(dfs[k][c].entries)}
  <2>2. N \in Nat
    BY DEF IsFile, MaxDepth
  <2>3. 0 \in S
    BY <2>1, <2>2 DEF Depths, GoodCall
  <2>4. ASSUME NEW k \in 1 .. N, k - 1 \in S PROVE k \in S
    <3>1. dfs[k - 1] \in Results /\ \A c \in Calls : dfs[k][c] = VisitPorts(dfs[k - 1], c)
      BY <2>1, <2>4 DEF Depths
    <3>2. \A c \in Calls : GoodCall(c) => GoodEntries(dfs[k][c].entries)
      BY <2>4, <3>1, VisitPortsGood
    <3>3. QED
      BY <2>2, <3>2
  <2>5. N \in S
    <3> HIDE DEF S
    <3>1. 0 .. N \subseteq S
      BY <2>2, <2>3, <2>4, Induction
    <3>2. QED
      BY <2>2, <3>1
  <2>6. QED
    BY <1>1, <2>1, <2>5
<1>2. PICK a : FromHosts(a) /\ DefaultEntries = a[file.hosts].entries
  BY DefaultEntriesSteps
<1> DEFINE N == file.hosts
           S == {k \in 0 .. N : GoodEntries(a[k].entries)}
<1>3. N \in Nat
  BY DEF IsFile
<1>4. 0 \in S
  BY <1>2, <1>3 DEF FromHosts, FirstSearch, GoodEntries
<1>5. ASSUME NEW k \in 1 .. N, k - 1 \in S PROVE k \in S
  <2>0. /\ a[k - 1] \in Searches /\ k - 1 \in HostsOf(file) /\ a[k] \in Searches
        /\ GoodEntries(a[k - 1].entries)
        /\ a[k] = a[k - 1] \/ a[k] = DfsFromHostIndex(a[k - 1], k - 1)
    <3>1. k \in 0 .. N /\ k - 1 \in 0 .. N /\ k - 1 \in HostsOf(file)
      BY <1>3 DEF HostsOf
    <3>2. a[k - 1] \in Searches /\ a[k] \in Searches /\ a[k] = DfsWhileUnlinked(a[k - 1], k - 1)
      BY <1>2, <3>1 DEF FromHosts
    <3>3. a[k] = a[k - 1] \/ a[k] = DfsFromHostIndex(a[k - 1], k - 1)
      BY <3>2 DEF DfsWhileUnlinked
    <3>4. QED
      BY <1>5, <3>1, <3>2, <3>3
  <2>1. ASSUME a[k] = DfsFromHostIndex(a[k - 1], k - 1) PROVE GoodEntries(a[k].entries)
    <3> DEFINE c == CallFrom(a[k - 1], k - 1)
    <3>1. c \in Calls /\ c.d.passed = <<>> /\ c.d.entries = a[k - 1].entries
      BY <2>0, CallFromType
    <3>2. c.in \in 1 .. Len(net.ports[c.switch])
      <4>1. LeadsToHost(file, net, net.home[k - 1].switch, net.home[k - 1].port, k - 1)
        BY <2>0 DEF InPlace
      <4>2. QED
        BY <4>1 DEF LeadsToHost, CallFrom
    <3>3. a[k] = [Dfs[c] EXCEPT !.passed = <<>>]
      BY <2>0, <2>1, DfsFromHostIndexType
    <3> HIDE DEF c
    <3>4. Dfs[c] \in Searches
      BY <3>1, DfsType DEF Results
    <3>5. a[k].entries = Dfs[c].entries
      BY <3>3, <3>4, SearchFields
    <3>6. GoodCall(c)
      BY <2>0, <3>1, <3>2 DEF GoodCall, GoodPasses
    <3>7. QED
      BY <1>1, <3>1, <3>5, <3>6
  <2>2. QED
    BY <1>3, <2>0, <2>1
<1>6. N \in S
  <2> HIDE DEF S
  <2>1. 0 .. N \subseteq S
    BY <1>3, <1>4, <1>5, Induction
  <2>2. QED
    BY <1>3, <2>1
<1>7. a[N].entries \in EntrySeqs
  BY <1>2, <1>3, SearchFields DEF FromHosts
<1>8. QED
  BY <1>2, <1>6, <1>7

LEMMA PortsOf ==
  ASSUME Wired(file, net), NEW s \in SwitchesOf(file)
  PROVE  Ports(s) = 1 .. Len(net.ports[s]) /\ Len(net.ports[s]) \in Nat /\ Ports(s) \in SUBSET Nat
<1>1. net.ports[s] \in Seq(Ends(file))
  BY DEF Wired, Nets, Portings
<1>2. QED
  BY <1>1 DEF Ports

LEMMA WrittenPorts ==
  ASSUME InPlace, IsFile(file), NEW s \in SwitchesOf(file), NEW h
  PROVE  Written(DefaultEntries[s], h) \subseteq Ports(s)
<1>1. DefaultEntries[s] \in Seq([dst : HostsOf(file), port : Nat])
  BY DefaultGood DEF EntrySeqs
<1>2. Ports(s) = 1 .. Len(net.ports[s])
  BY PortsOf DEF InPlace
<1>3. CASE Written(DefaultEntries[s], h) = {}
  BY <1>3
<1>4. ASSUME NEW k, FirstEntry(DefaultEntries[s], h, k),
             Written(DefaultEntries[s], h) = {DefaultEntries[s][k].port}
      PROVE  Written(DefaultEntries[s], h) \subseteq Ports(s)
  BY <1>2, <1>4, DefaultGood DEF FirstEntry, GoodEntries
<1>5. QED
  BY <1>1, <1>3, <1>4, WrittenCases

LEMMA LeastOf ==
  ASSUME NEW S \in SUBSET Nat, S # {}
  PROVE  (CHOOSE p \in S : \A q \in S : p <= q) \in S
<1>1. \E p \in S : \A q \in S : p <= q
  BY LeastNatural
<1>2. QED
  BY <1>1

LEMMA FattreePortsExist ==
  ASSUME InPlace, NEW s \in SwitchesOf(file), NEW h
  PROVE  FattreePorts(s, h) \subseteq Ports(s)
<1> DEFINE down ==
             IF s \in Edges THEN {p \in HostPorts(s) : net.ports[s][p].node = h}
             ELSE IF s \in Aggrs
                  THEN {p \in DownPorts(s) : \E q \in HostPorts(net.ports[s][p].node) :
                          net.ports[net.ports[s][p].node][q].node = h}
             ELSE {p \in Ports(s) : net.ports[s][p].flag = 1 /\ h \in ReachHosts(net.ports[s][p].node)}
<1>1. Ports(s) \in SUBSET Nat
  BY PortsOf DEF InPlace
<1>2. HostPorts(s) \subseteq Ports(s) /\ DownPorts(s) \subseteq Ports(s) /\ OtherPorts(s) \subseteq Ports(s)
  BY DEF HostPorts, DownPorts, OtherPorts
<1>3. down \subseteq Ports(s)
  BY <1>2
<1>4. FattreePorts(s, h) = IF down # {} THEN {CHOOSE p \in down : \A q \in down : p <= q}
                           ELSE IF s \in Edges \cup Aggrs THEN OtherPorts(s) ELSE {}
  BY DEF FattreePorts
<1> HIDE DEF down
<1>5. CASE down # {}
  BY <1>1, <1>3, <1>4, <1>5, LeastOf
<1>6. CASE down = {}
  BY <1>2, <1>4, <1>6
<1>7. QED
  BY <1>5, <1>6

-----------------------------------------------------------------------------
(* Types.                                                                  *)

Fillings == [SwitchesOf(file) -> [HostsOf(file) -> SUBSET Nat]]
Tables == [DOMAIN program.tables -> Fillings]
PortsExist ==
  \A c \in DOMAIN program.tables : \A s \in SwitchesOf(file) : \A h \in HostsOf(file) :
    table[c][s][h] \subseteq Ports(s)
Packets ==
  [flow : program.flows, kind : {"request", "reply", "data"}, dst : HostsOf(file),
   at : SwitchesOf(file), path : Seq(SwitchesOf(file))]
OnItsWay ==
  /\ phase = "running" /\ packet \in Packets /\ 1 \in Ports(packet.at)
  /\ packet.kind # "data" => program.arp \in DOMAIN program.tables

Typed ==
  /\ Progress
  /\ table \in Tables
  /\ phase \notin {"built", "running", "crashed"} => table = program.tables
  /\ phase \in {"built", "running"} => PortsExist
  /\ packet # NoPacket => OnItsWay
  /\ begun \subseteq program.flows

LEMMA PacketFields ==
  ASSUME NEW p \in Packets
  PROVE  /\ p.flow \in program.flows /\ p.kind \in {"request", "reply", "data"}
         /\ p.dst \in HostsOf(file) /\ p.at \in SwitchesOf(file) /\ p.path \in Seq(SwitchesOf(file))
BY DEF Packets

Moved(p, t) == [p EXCEPT !.at = t, !.path = Append(@, p.at)]

LEMMA PacketMoves ==
  ASSUME NEW p \in Packets, NEW t \in SwitchesOf(file)
  PROVE  /\ Moved(p, t) \in Packets
         /\ Moved(p, t).flow = p.flow /\ Moved(p, t).kind = p.kind /\ Moved(p, t).dst = p.dst
         /\ Moved(p, t).at = t /\ Moved(p, t).path = Append(p.path, p.at)
<1>1. Append(p.path, p.at) \in Seq(SwitchesOf(file))
  BY DEF Packets
<1>2. QED
  BY <1>1 DEF Packets, Moved

LEMMA PacketStarts ==
  ASSUME NEW flow \in program.flows, NEW kind \in {"request", "reply", "data"},
         NEW from, NEW to \in HostsOf(file), net.home[from].switch \in SwitchesOf(file)
  PROVE  /\ Packet(flow, kind, from, to) \in Packets
         /\ Packet(flow, kind, from, to).at = net.home[from].switch
         /\ Packet(flow, kind, from, to).path = <<>>
<1>1. <<>> \in Seq(SwitchesOf(file))
  OBVIOUS
<1>2. PICK z \in Seq(SwitchesOf(file)) : z = <<>>
  BY <1>1, Zenon
<1>3. Packet(flow, kind, from, to) =
        [flow |-> flow, kind |-> kind, dst |-> to, at |-> net.home[from].switch, path |-> z]
  BY <1>2 DEF Packet
<1>4. QED
  BY <1>2, <1>3 DEF Packets

LEMMA ProgramFields ==
  ASSUME Progress
  PROVE  /\ program.buildType \in {"default", "fattree", "silkroad", "stored"}
         /\ program.tables \in Tables
         /\ program.buildType # "stored" => DOMAIN program.tables = {"forward"} /\ program.route = <<>>
         /\ program.arp \in DOMAIN program.tables \cup {"none"}
         /\ \A flow \in program.flows : /\ flow.client \in HostsOf(file) /\ flow.to \in HostsOf(file)
                                        /\ flow.table \in DOMAIN program.tables
         /\ ~BadIndex(file) => \A s \in SwitchesOf(file) : \A c \in DOMAIN program.tables :
              \A h \in HostsOf(file) :
                program.tables[c][s][h] \subseteq DOMAIN Install(file, ReadLinks(file)).ports[s]
         /\ ~BadIndex(file) => \A s \in SwitchesOf(file) :
              \A k \in DOMAIN program.route : program.route[k] \in DOMAIN Install(file, ReadLinks(file)).ports[s]
<1>1. IsProgram(program)
  BY ProgramFile
<1>2. QED
  BY <1>1 DEF IsProgram, file, Tables, Fillings, ToSet

(* The three ways a table is built. *)
LEMMA BuildTablesCases ==
  ASSUME Progress, BuildTables
  PROVE  \/ /\ program.buildType = "default"
            /\ table' = [table EXCEPT !["forward"] =
                 [s \in SwitchesOf(file) |-> [h \in HostsOf(file) |-> Written(DefaultEntries[s], h)]]]
         \/ /\ program.buildType = "fattree" /\ ~NothingToDraw
            /\ table' = [table EXCEPT !["forward"] =
                 [s \in SwitchesOf(file) |-> [h \in HostsOf(file) |-> FattreePorts(s, h)]]]
         \/ /\ program.buildType # "default" /\ (program.buildType = "fattree" => NothingToDraw)
            /\ table' = table
<1>1. CASE program.buildType = "default"
  BY <1>1 DEF BuildTables
<1>2. CASE program.buildType = "fattree" /\ ~NothingToDraw
  BY <1>2 DEF BuildTables
<1>3. CASE program.buildType # "default" /\ ~(program.buildType = "fattree" /\ ~NothingToDraw)
  BY <1>3 DEF BuildTables
<1>4. QED
  BY <1>1, <1>2, <1>3

LEMMA BuildTablesTyped ==
  ASSUME Typed, BuildTables
  PROVE  /\ table' \in Tables
         /\ \A c \in DOMAIN program.tables : \A s \in SwitchesOf(file) : \A h \in HostsOf(file) :
              table'[c][s][h] \subseteq Ports(s)
<1>1. Progress /\ phase = "ports" /\ table = program.tables /\ table \in Tables
  BY DEF Typed, BuildTables
<1>2. InPlace /\ IsFile(file)
  BY <1>1, ProgressInPlace, ProgramFile
<1>3. ASSUME NEW filled \in Fillings, program.buildType # "stored",
             \A s \in SwitchesOf(file) : \A h \in HostsOf(file) : filled[s][h] \subseteq Ports(s),
             table' = [table EXCEPT !["forward"] = filled]
      PROVE  /\ table' \in Tables
             /\ \A c \in DOMAIN program.tables : \A s \in SwitchesOf(file) : \A h \in HostsOf(file) :
                  table'[c][s][h] \subseteq Ports(s)
  <2>1. DOMAIN program.tables = {"forward"}
    BY <1>1, <1>3, ProgramFields
  <2>2. table' \in Tables /\ table'["forward"] = filled
    BY <1>1, <1>3, <2>1 DEF Tables, Fillings
  <2>3. QED
    BY <1>3, <2>1, <2>2
<1>4. CASE /\ program.buildType = "default"
           /\ table' = [table EXCEPT !["forward"] =
                 [s \in SwitchesOf(file) |-> [h \in HostsOf(file) |-> Written(DefaultEntries[s], h)]]]
  <2> DEFINE filled == [s \in SwitchesOf(file) |-> [h \in HostsOf(file) |-> Written(DefaultEntries[s], h)]]
  <2>1. \A s \in SwitchesOf(file) : \A h \in HostsOf(file) :
          Written(DefaultEntries[s], h) \subseteq Ports(s) /\ Written(DefaultEntries[s], h) \in SUBSET Nat
    BY <1>2, WrittenPorts, PortsOf DEF InPlace
  <2>2. filled \in Fillings
    BY <2>1 DEF Fillings
  <2>3. \A s \in SwitchesOf(file) : \A h \in HostsOf(file) : filled[s][h] \subseteq Ports(s)
    BY <2>1
  <2> HIDE DEF filled
  <2>4. program.buildType # "stored" /\ table' = [table EXCEPT !["forward"] = filled]
    BY <1>4 DEF filled
  <2>5. QED
    BY <1>3, <2>2, <2>3, <2>4
<1>5. CASE /\ program.buildType = "fattree" /\ ~NothingToDraw
           /\ table' = [table EXCEPT !["forward"] =
                 [s \in SwitchesOf(file) |-> [h \in HostsOf(file) |-> FattreePorts(s, h)]]]
  <2> DEFINE filled == [s \in SwitchesOf(file) |-> [h \in HostsOf(file) |-> FattreePorts(s, h)]]
  <2>1. \A s \in SwitchesOf(file) : \A h \in HostsOf(file) :
          FattreePorts(s, h) \subseteq Ports(s) /\ FattreePorts(s, h) \in SUBSET Nat
    BY <1>2, FattreePortsExist, PortsOf DEF InPlace
  <2>2. filled \in Fillings
    BY <2>1 DEF Fillings
  <2>3. \A s \in SwitchesOf(file) : \A h \in HostsOf(file) : filled[s][h] \subseteq Ports(s)
    BY <2>1
  <2> HIDE DEF filled
  <2>4. program.buildType # "stored" /\ table' = [table EXCEPT !["forward"] = filled]
    BY <1>5 DEF filled
  <2>5. QED
    BY <1>3, <2>2, <2>3, <2>4
<1>6. CASE table' = table
  <2>1. ~BadIndex(file) /\ net = Install(file, ReadLinks(file))
    BY <1>1 DEF Progress
  <2>2. QED
    BY <1>1, <1>6, <2>1, ProgramFields DEF Ports
<1>7. QED
  BY <1>1, <1>4, <1>5, <1>6, BuildTablesCases

LEMMA HomeHasPort ==
  ASSUME InPlace, NEW h \in HostsOf(file)
  PROVE  net.home[h].switch \in SwitchesOf(file) /\ 1 \in Ports(net.home[h].switch)
<1>1. LeadsToHost(file, net, net.home[h].switch, net.home[h].port, h)
  BY DEF InPlace
<1>2. net.home[h].switch \in SwitchesOf(file) /\ net.home[h].port \in Ports(net.home[h].switch)
  BY <1>1, PortsOf DEF InPlace, LeadsToHost
<1>3. QED
  BY <1>2, PortsOf DEF InPlace

LEMMA OutPortsExist ==
  ASSUME Typed, packet # NoPacket
  PROVE  /\ OutPorts(packet) \subseteq Ports(packet.at)
         /\ TableOf(packet) \in DOMAIN program.tables
<1>1. OnItsWay /\ Progress /\ table \in Tables /\ PortsExist
  BY DEF Typed, OnItsWay
<1>2. TableOf(packet) \in DOMAIN program.tables
  BY <1>1, ProgramFields, PacketFields DEF OnItsWay, TableOf
<1>3. Found(packet) \subseteq Ports(packet.at)
  <2>1. CASE program.route = <<>>
    BY <1>1, <1>2, <2>1, PacketFields DEF Found, PortsExist, OnItsWay
  <2>2. CASE program.route # <<>>
    <3>1. ~BadIndex(file) /\ net = Install(file, ReadLinks(file))
      BY <1>1 DEF Progress, OnItsWay
    <3>2. \A k \in DOMAIN program.route : program.route[k] \in Ports(packet.at)
      BY <1>1, <3>1, ProgramFields, PacketFields DEF Ports, OnItsWay
    <3>3. QED
      BY <2>2, <3>2 DEF Found
  <2>3. QED
    BY <2>1, <2>2
<1>4. QED
  BY <1>1, <1>2, <1>3 DEF OutPorts, OnItsWay

(* What a hop is: along a port to a switch, or to a host, which answers,   *)
(* sends its data, or where the packet stays.                              *)
Passed(port) ==
  /\ net.ports[packet.at][port].flag = 1
  /\ packet' = [packet EXCEPT !.at = net.ports[packet.at][port].node, !.path = Append(@, packet.at)]
  /\ UNCHANGED arrived
Received(port) ==
  /\ net.ports[packet.at][port].flag = 0 /\ net.ports[packet.at][port].node \in HostsOf(file)
  /\ HostReceives(net.ports[packet.at][port].node)
Shown(port) ==
  table' = IF program.buildType # "fattree" THEN table
           ELSE [table EXCEPT ![TableOf(packet)][packet.at][packet.dst] = {port}]

LEMMA HopCases ==
  ASSUME Typed, Hop
  PROVE  \E port \in OutPorts(packet) :
           /\ port \in 1 .. Len(net.ports[packet.at])
           /\ Shown(port)
           /\ Passed(port) \/ Received(port)
<1>1. OnItsWay /\ Progress /\ Wired(file, net) /\ packet.at \in SwitchesOf(file)
  BY ProgressWired, PacketFields DEF Typed, Hop, OnItsWay
<1>2. PICK port \in OutPorts(packet) :
        /\ Shown(port)
        /\ \/ net.ports[packet.at][port].flag = 0 /\ HostReceives(net.ports[packet.at][port].node)
           \/ Passed(port)
  BY DEF Hop, Shown, Passed
<1>3. port \in 1 .. Len(net.ports[packet.at])
  BY <1>1, OutPortsExist, PortsOf DEF Hop
<1>4. net.ports[packet.at][port].flag = 0 => net.ports[packet.at][port].node \in HostsOf(file)
  BY <1>1, <1>3, EndFields DEF Wired
<1>5. QED
  BY <1>2, <1>3, <1>4 DEF Received

LEMMA PacketTyped ==
  ASSUME Progress, phase = "running", NEW flow \in program.flows,
         NEW kind \in {"request", "reply", "data"},
         kind # "data" => program.arp \in DOMAIN program.tables,
         NEW from \in HostsOf(file), NEW to \in HostsOf(file),
         packet' = Packet(flow, kind, from, to), UNCHANGED <<program, phase, net>>
  PROVE  OnItsWay'
<1>1. InPlace
  BY ProgressInPlace
<1>2. packet' \in Packets /\ packet'.kind = kind /\ packet'.at = net.home[from].switch
  <2>1. net.home[from].switch \in SwitchesOf(file)
    BY <1>1, HomeHasPort
  <2>2. Packet(flow, kind, from, to) \in Packets /\ Packet(flow, kind, from, to).kind = kind
        /\ Packet(flow, kind, from, to).at = net.home[from].switch
    BY <2>1, PacketStarts DEF Packet
  <2>3. QED
    BY <2>2
<1>3. 1 \in Ports(packet'.at)
  BY <1>1, <1>2, HomeHasPort
<1>4. Packets' = Packets /\ Ports(packet'.at) = DOMAIN net'.ports[packet'.at]
  BY DEF Packets, file, Ports
<1>5. QED
  BY <1>2, <1>3, <1>4 DEF OnItsWay, Ports

LEMMA TypedInductive ==
  ASSUME Typed, [Next]_vars PROVE Typed'
<1>1. Progress /\ Progress'
  BY ProgressInductive DEF Typed
<1>2. program' = program
  BY Zenon DEF Next, ReadTopology, InstallLinks, BuildTables, InstallSwitches, BeginFlow, Drop, Hop, vars
<1>3. file' = file /\ Tables' = Tables
  BY <1>2 DEF file, Tables, Fillings
<1>4. CASE ReadTopology
  <2>1. packet = NoPacket
    BY <1>4 DEF ReadTopology, Typed, OnItsWay
  <2>2. QED
    BY <1>1, <1>2, <1>3, <1>4, <2>1 DEF ReadTopology, Typed
<1>5. CASE InstallLinks
  <2>1. packet = NoPacket
    BY <1>5 DEF InstallLinks, Typed, OnItsWay
  <2>2. QED
    BY <1>1, <1>2, <1>3, <1>5, <2>1 DEF InstallLinks, Typed
<1>6. CASE BuildTables
  <2>1. packet = NoPacket
    BY <1>6 DEF BuildTables, Typed, OnItsWay
  <2>2. table' \in Tables /\ PortsExist'
    BY <1>2, <1>3, <1>6, BuildTablesTyped DEF PortsExist, Ports, BuildTables
  <2>3. phase' \in {"built", "crashed"} /\ packet' = packet /\ begun' = begun
    BY <1>6 DEF BuildTables
  <2>4. QED
    BY <1>1, <1>2, <1>3, <2>1, <2>2, <2>3 DEF Typed
<1>7. CASE InstallSwitches
  <2>1. packet = NoPacket
    BY <1>7 DEF InstallSwitches, Typed, OnItsWay
  <2>2. phase = "built" /\ phase' \in {"running", "crashed"}
        /\ UNCHANGED <<program, links, net, table, packet, arrived, begun>>
    BY <1>7 DEF InstallSwitches
  <2>3. PortsExist'
    BY <1>3, <2>2 DEF Typed, PortsExist, Ports
  <2>4. QED
    BY <1>1, <1>2, <1>3, <2>1, <2>2, <2>3 DEF Typed
<1>8. ASSUME NEW flow \in program.flows, BeginFlow(flow) PROVE Typed'
  <2>1. phase = "running" /\ UNCHANGED <<program, phase, links, net, table>> /\ begun' = begun \cup {flow}
    BY <1>8 DEF BeginFlow
  <2>2. PortsExist'
    BY <1>3, <2>1 DEF Typed, PortsExist, Ports
  <2>3. packet' # NoPacket => OnItsWay'
    <3>1. CASE packet' = NoPacket
      BY <3>1
    <3>2. CASE packet' # NoPacket
      <4> DEFINE kind == IF program.arp = "none" THEN "data" ELSE "request"
      <4>1. packet' = Packet(flow, kind, flow.client, flow.to)
        BY <1>8, <3>2 DEF BeginFlow
      <4>2. kind \in {"request", "reply", "data"} /\ (kind # "data" => program.arp \in DOMAIN program.tables)
        BY <1>1, ProgramFields
      <4>3. flow.client \in HostsOf(file) /\ flow.to \in HostsOf(file)
        BY <1>1, ProgramFields
      <4> HIDE DEF kind
      <4>4. QED
        BY <1>1, <2>1, <4>1, <4>2, <4>3, PacketTyped
    <3>3. QED
      BY <3>1, <3>2
  <2>4. QED
    BY <1>1, <1>2, <1>3, <2>1, <2>2, <2>3 DEF Typed
<1>9. CASE Drop
  <2>1. packet' = NoPacket /\ UNCHANGED <<program, phase, links, net, table, begun>>
    BY <1>9 DEF Drop, Leave
  <2>2. PortsExist => PortsExist'
    BY <1>3, <2>1 DEF PortsExist, Ports
  <2>3. QED
    BY <1>1, <1>2, <1>3, <2>1, <2>2 DEF Typed
<1>10. CASE Hop
  <2>1. PICK port \in OutPorts(packet) :
          /\ port \in 1 .. Len(net.ports[packet.at])
          /\ Shown(port)
          /\ Passed(port) \/ Received(port)
    BY <1>10, HopCases
  <2>2. packet # NoPacket /\ UNCHANGED <<program, phase, links, net, begun>>
    BY <1>10 DEF Hop
  <2>3. OnItsWay /\ phase = "running" /\ table \in Tables /\ PortsExist /\ packet \in Packets
    BY <2>2 DEF Typed, OnItsWay
  <2>4. InPlace /\ Wired(file, net)
    BY <1>1, <2>3, ProgressInPlace, ProgressWired
  <2>5. table' \in Tables /\ PortsExist'
    <3>1. CASE program.buildType # "fattree"
      BY <1>3, <2>1, <2>2, <2>3, <3>1 DEF Shown, PortsExist, Ports
    <3>2. CASE program.buildType = "fattree"
      <4> DEFINE c0 == TableOf(packet)
                 s0 == packet.at
                 h0 == packet.dst
      <4>1. table' = [table EXCEPT ![c0][s0][h0] = {port}]
        BY <2>1, <3>2 DEF Shown
      <4>2. c0 \in DOMAIN program.tables /\ s0 \in SwitchesOf(file) /\ h0 \in HostsOf(file)
        BY <2>2, <2>3, OutPortsExist, PacketFields
      <4>3. {port} \subseteq Ports(s0) /\ {port} \in SUBSET Nat
        BY <2>1, <2>2, <4>2, <2>4, OutPortsExist, PortsOf
      <4> HIDE DEF c0, s0, h0
      <4>4. table' \in Tables
        BY <2>3, <4>1, <4>2, <4>3 DEF Tables, Fillings
      <4>5. \A c \in DOMAIN program.tables : \A s \in SwitchesOf(file) : \A h \in HostsOf(file) :
              table'[c][s][h] = IF c = c0 /\ s = s0 /\ h = h0 THEN {port} ELSE table[c][s][h]
        BY <2>3, <4>1, <4>2 DEF Tables, Fillings
      <4>6. PortsExist'
        BY <1>2, <1>3, <2>2, <2>3, <4>3, <4>5 DEF PortsExist, Ports
      <4>7. QED
        BY <4>4, <4>6
    <3>3. QED
      BY <3>1, <3>2
  <2>6. packet' # NoPacket => OnItsWay'
    <3>1. CASE Passed(port)
      <4>1. LeadsToSwitch(file, net, net.ports[packet.at][port].node, net.ports[packet.at][port].port, packet.at)
        BY <2>1, <2>3, <2>4, <3>1, PacketFields DEF Wired, Passed
      <4> DEFINE t == net.ports[packet.at][port].node
      <4>a. t \in SwitchesOf(file) /\ net.ports[packet.at][port].port \in 1 .. Len(net.ports[t])
        BY <4>1 DEF LeadsToSwitch
      <4> HIDE DEF t
      <4>2. t \in SwitchesOf(file) /\ 1 \in Ports(t)
        BY <2>4, <4>a, PortsOf
      <4>3. packet' = Moved(packet, t)
        BY <3>1 DEF Passed, Moved, t
      <4>4. packet' \in Packets /\ packet'.at = t /\ packet'.kind = packet.kind
        BY <2>3, <4>2, <4>3, PacketMoves
      <4>5. Packets' = Packets
        BY <2>2 DEF Packets, file
      <4>6. 1 \in DOMAIN net'.ports[packet'.at]
        BY <4>2, <4>4, <2>2 DEF Ports
      <4>7. packet'.kind # "data" => program'.arp \in DOMAIN program'.tables
        BY <2>2, <2>3, <4>4 DEF OnItsWay
      <4>8. phase' = "running" /\ packet' \in Packets'
        BY <2>2, <2>3, <4>4, <4>5
      <4>9. QED
        BY <4>6, <4>7, <4>8 DEF OnItsWay, Ports
    <3>2. CASE Received(port)
      <4> DEFINE h == net.ports[packet.at][port].node
      <4>1. h \in HostsOf(file) /\ HostReceives(h)
        BY <3>2 DEF Received
      <4> HIDE DEF h
      <4>2. CASE packet' = NoPacket
        BY <4>2
      <4>3. CASE packet.kind = "request" /\ packet' = Packet(packet.flow, "reply", h, packet.flow.client)
        BY <1>1, <2>2, <2>3, <4>1, <4>3, PacketTyped, ProgramFields, PacketFields DEF OnItsWay
      <4>4. CASE packet' = Packet(packet.flow, "data", h, packet.flow.to)
        BY <1>1, <2>2, <2>3, <4>1, <4>4, PacketTyped, ProgramFields, PacketFields DEF OnItsWay
      <4>5. QED
        BY <4>1, <4>2, <4>3, <4>4 DEF HostReceives, Leave
    <3>3. QED
      BY <2>1, <3>1, <3>2
  <2>7. QED
    BY <1>1, <1>2, <1>3, <2>2, <2>3, <2>5, <2>6 DEF Typed
<1>11. CASE UNCHANGED vars
  <2>1. PortsExist => PortsExist'
    BY <1>3, <1>11 DEF PortsExist, Ports, vars
  <2>2. OnItsWay => OnItsWay'
    BY <1>3, <1>11 DEF OnItsWay, Packets, Ports, vars
  <2>3. QED
    BY <1>1, <1>2, <1>3, <1>11, <2>1, <2>2 DEF Typed, vars
<1>12. QED
  BY <1>4, <1>5, <1>6, <1>7, <1>8, <1>9, <1>10, <1>11 DEF Next

LEMMA TypedStarts ==
  ASSUME Init PROVE Typed
<1>1. Progress
  BY DEF Init, Progress, file
<1>2. program.tables \in Tables
  BY <1>1, ProgramFields
<1>3. QED
  BY <1>1, <1>2 DEF Init, Typed

LEMMA TypedTypes ==
  ASSUME Typed PROVE TypeOK
<1>1. Progress /\ table \in Tables /\ begun \subseteq program.flows
  BY DEF Typed
<1>2. Wired(file, net) /\ program \in Programs
      /\ phase \in {"file", "links", "ports", "built", "running", "refused", "crashed"}
  BY <1>1, ProgressWired DEF Progress
<1>3. ASSUME phase \in {"built", "running"}, NEW c \in DOMAIN table, NEW s \in SwitchesOf(file),
             NEW h \in HostsOf(file)
      PROVE  table[c][s][h] \subseteq Ports(s)
  BY <1>1, <1>3 DEF Typed, PortsExist, Tables
<1>4. ASSUME NEW h \in HostsOf(file), net.home[h] # NoHome
      PROVE  net.home[h].port \in Ports(net.home[h].switch)
  <2>1. LeadsToHost(file, net, net.home[h].switch, net.home[h].port, h)
    BY <1>2, <1>4 DEF Wired
  <2>2. QED
    BY <1>2, <2>1, PortsOf DEF LeadsToHost
<1>5. packet = NoPacket \/ packet.at \in SwitchesOf(file)
  BY PacketFields DEF Typed, OnItsWay
<1>6. QED
  BY <1>1, <1>2, <1>3, <1>4, <1>5 DEF TypeOK

(* Every variable keeps its type; no table, built, stored or narrowed by    *)
(* what a draw has shown, names a port that its switch does not have, and   *)
(* every home that is noted is a port that exists                           *)
(* (BuildFlowtableHelper::Write).                                           *)
THEOREM TypeOKHolds == Spec => []TypeOK
<1>1. Spec => []Typed
  BY TypedStarts, TypedInductive, PTL DEF Spec
<1>2. QED
  BY <1>1, TypedTypes, PTL

-----------------------------------------------------------------------------
(* Routes.                                                                 *)

(* A switch has an entry for a host, and its first entry names a port.     *)
Has(e, s, h) == \E k \in 1 .. Len(e[s]) : e[s][k].dst = h
First(e, s, h, p) == \E k : FirstEntry(e[s], h, k) /\ e[s][k].port = p

LEMMA EntryFirst ==
  ASSUME NEW e \in EntrySeqs, NEW src \in HostsOf(file), NEW dst \in HostsOf(file), NEW pass \in Passes,
         NEW new, new = AddFlowtableEntry2(e, src, dst, pass)
  PROVE  /\ \A s \in SwitchesOf(file) : \A h : Has(e, s, h) => Has(new, s, h)
         /\ Has(new, pass.switch, src) /\ Has(new, pass.switch, dst)
         /\ \A s \in SwitchesOf(file) : \A h, p : First(new, s, h, p) =>
              \/ First(e, s, h, p)
              \/ /\ ~Has(e, s, h) /\ s = pass.switch
                 /\ (h = src /\ p = pass.in) \/ (h = dst /\ p = pass.out)
<1> DEFINE x == pass.switch
           n == Len(e[x])
<1>0. /\ \A s \in SwitchesOf(file) : s # x => new[s] = e[s]
      /\ n \in Nat /\ Len(new[x]) = n + 2
      /\ \A k \in 1 .. n : new[x][k] = e[x][k]
      /\ new[x][n + 1] = [dst |-> src, port |-> pass.in]
      /\ new[x][n + 2] = [dst |-> dst, port |-> pass.out]
  BY EntriesAdded
<1>a. /\ new[x][n + 1].dst = src /\ new[x][n + 1].port = pass.in
      /\ new[x][n + 2].dst = dst /\ new[x][n + 2].port = pass.out
  BY <1>0
<1> HIDE DEF n
<1>1. 1 .. n \subseteq 1 .. Len(new[x]) /\ n + 1 \in 1 .. Len(new[x]) /\ n + 2 \in 1 .. Len(new[x])
  BY <1>0
<1>2. \A s \in SwitchesOf(file) : \A h : Has(e, s, h) => Has(new, s, h)
  <2>1. ASSUME NEW s \in SwitchesOf(file), NEW h, Has(e, s, h) PROVE Has(new, s, h)
    <3>1. CASE s # x
      BY <1>0, <2>1, <3>1 DEF Has
    <3>2. CASE s = x
      BY <1>0, <1>1, <2>1, <3>2 DEF Has, n
    <3>3. QED
      BY <3>1, <3>2
  <2>2. QED
    BY <2>1
<1>3. Has(new, x, src) /\ Has(new, x, dst)
  BY <1>a, <1>1 DEF Has
<1>4. ASSUME NEW s \in SwitchesOf(file), NEW h, NEW p, First(new, s, h, p)
      PROVE  \/ First(e, s, h, p)
             \/ /\ ~Has(e, s, h) /\ s = x
                /\ (h = src /\ p = pass.in) \/ (h = dst /\ p = pass.out)
  <2>1. CASE s # x
    BY <1>0, <1>4, <2>1 DEF First
  <2>2. CASE s = x
    <3>1. PICK k : FirstEntry(new[x], h, k) /\ new[x][k].port = p
      BY <1>4, <2>2 DEF First
    <3>2. k \in 1 .. Len(new[x]) /\ new[x][k].dst = h /\ \A j \in 1 .. k - 1 : new[x][j].dst # h
      BY <3>1 DEF FirstEntry
    <3>3. k \in 1 .. n \/ k = n + 1 \/ k = n + 2
      BY <1>0, <3>2
    <3>4. CASE k \in 1 .. n
      <4>1. \A j \in 1 .. k - 1 : j \in 1 .. n
        BY <1>0, <3>4
      <4>2. e[x][k] = new[x][k] /\ \A j \in 1 .. k - 1 : e[x][j].dst # h
        BY <1>0, <3>2, <3>4, <4>1
      <4>3. FirstEntry(e[x], h, k) /\ e[x][k].port = p
        BY <3>1, <3>2, <3>4, <4>2 DEF FirstEntry, n
      <4>4. QED
        BY <2>2, <4>3 DEF First
    <3>5. CASE k = n + 1 \/ k = n + 2
      <4>1. \A j \in 1 .. n : j \in 1 .. k - 1
        BY <1>0, <3>5
      <4>2. \A j \in 1 .. n : e[x][j].dst # h
        BY <1>0, <3>2, <4>1
      <4>3. ~Has(e, x, h)
        BY <4>2 DEF Has, n
      <4>4. QED
        BY <1>a, <2>2, <3>1, <3>2, <3>5, <4>3
    <3>6. QED
      BY <3>3, <3>4, <3>5
  <2>3. QED
    BY <2>1, <2>2
<1>5. QED
  BY <1>2, <1>3, <1>4

(* What the entries along a path add to those before. *)
AddedAlong(e, new, path, src, dst) ==
  /\ \A s \in SwitchesOf(file) : \A h : Has(e, s, h) => Has(new, s, h)
  /\ \A i \in 1 .. Len(path) : Has(new, path[i].switch, src) /\ Has(new, path[i].switch, dst)
  /\ \A s \in SwitchesOf(file) : \A h, p : First(new, s, h, p) =>
       \/ First(e, s, h, p)
       \/ /\ ~Has(e, s, h)
          /\ \E i \in 1 .. Len(path) : /\ s = path[i].switch
                                       /\ (h = src /\ p = path[i].in) \/ (h = dst /\ p = path[i].out)

LEMMA AlongAdded ==
  ASSUME NEW d \in Searches, NEW path \in Seq(Passes), NEW src \in HostsOf(file), NEW dst \in HostsOf(file),
         NEW new, new = AddEntriesAlong(d, path, src, dst)
  PROVE  /\ AddedAlong(d.entries, new.entries, path, src, dst)
         /\ new.linked = d.linked \cup {<<src, dst>>, <<dst, src>>}
         /\ new.recorded = d.recorded /\ new.passed = d.passed
<1>1. PICK e : /\ WrittenAlong(e, d.entries, path, src, dst)
               /\ new = WithEntries(d, src, dst, e[Len(path)])
  BY AddEntriesAlongSteps
<1> DEFINE N == Len(path)
           Kept(k) == \A s \in SwitchesOf(file) : \A h : Has(d.entries, s, h) => Has(e[k], s, h)
           Given(k) == \A i \in N + 1 - k .. N : Has(e[k], path[i].switch, src) /\ Has(e[k], path[i].switch, dst)
           Others(k) == \A s \in SwitchesOf(file) : \A h, p : First(e[k], s, h, p) =>
                 \/ First(d.entries, s, h, p)
                 \/ /\ ~Has(d.entries, s, h)
                    /\ \E i \in 1 .. N : /\ s = path[i].switch
                                         /\ (h = src /\ p = path[i].in) \/ (h = dst /\ p = path[i].out)
           S == {k \in 0 .. N : Kept(k) /\ Given(k) /\ Others(k)}
<1>2. N \in Nat
  OBVIOUS
<1>3. 0 \in S
  BY <1>1, <1>2 DEF WrittenAlong
<1>4. ASSUME NEW k \in 1 .. N, k - 1 \in S PROVE k \in S
  <2> DEFINE i0 == N + 1 - k
  <2>1. i0 \in 1 .. N /\ k - 1 \in 0 .. N /\ k \in 0 .. N
    BY <1>2
  <2>2. path[i0] \in Passes /\ e[k - 1] \in EntrySeqs
    BY <1>1, <2>1 DEF WrittenAlong
  <2>3. e[k] = AddFlowtableEntry2(e[k - 1], src, dst, path[i0])
    BY <1>1 DEF WrittenAlong
  <2>4. Kept(k - 1) /\ Given(k - 1) /\ Others(k - 1)
    BY <1>4
  <2>5. N + 1 - k .. N = (N + 1 - (k - 1) .. N) \cup {i0}
    BY <1>2
  <2>6. \A i \in 1 .. N : path[i].switch \in SwitchesOf(file)
    <3>1. \A i \in 1 .. N : path[i] \in Passes
      OBVIOUS
    <3>2. QED
      BY <3>1 DEF Passes
  <2>7. \A i \in N + 1 - k .. N : i \in 1 .. N
    BY <1>2
  <2> HIDE DEF i0, N
  <2>8. /\ \A s \in SwitchesOf(file) : \A h : Has(e[k - 1], s, h) => Has(e[k], s, h)
        /\ Has(e[k], path[i0].switch, src) /\ Has(e[k], path[i0].switch, dst)
        /\ \A s \in SwitchesOf(file) : \A h, p : First(e[k], s, h, p) =>
              \/ First(e[k - 1], s, h, p)
              \/ /\ ~Has(e[k - 1], s, h) /\ s = path[i0].switch
                 /\ (h = src /\ p = path[i0].in) \/ (h = dst /\ p = path[i0].out)
    BY <2>2, <2>3, EntryFirst
  <2>9. Kept(k)
    BY <2>4, <2>8
  <2>10. Given(k)
    BY <2>4, <2>5, <2>6, <2>7, <2>8
  <2>11. Others(k)
    <3>1. ASSUME NEW s \in SwitchesOf(file), NEW h, NEW p, First(e[k], s, h, p)
          PROVE  \/ First(d.entries, s, h, p)
                 \/ /\ ~Has(d.entries, s, h)
                    /\ \E i \in 1 .. N : /\ s = path[i].switch
                                         /\ (h = src /\ p = path[i].in) \/ (h = dst /\ p = path[i].out)
      <4>1. CASE First(e[k - 1], s, h, p)
        BY <2>4, <4>1
      <4>2. CASE /\ ~Has(e[k - 1], s, h) /\ s = path[i0].switch
                 /\ (h = src /\ p = path[i0].in) \/ (h = dst /\ p = path[i0].out)
        BY <2>1, <2>4, <4>2
      <4>3. QED
        BY <2>8, <3>1, <4>1, <4>2
    <3>2. QED
      BY <3>1
  <2>12. QED
    BY <2>1, <2>9, <2>10, <2>11
<1>5. N \in S
  <2> HIDE DEF S
  <2>1. 0 .. N \subseteq S
    BY <1>2, <1>3, <1>4, Induction
  <2>2. QED
    BY <1>2, <2>1
<1>6. /\ new.entries = e[N] /\ new.linked = d.linked \cup {<<src, dst>>, <<dst, src>>}
      /\ new.recorded = d.recorded /\ new.passed = d.passed
  BY <1>1, SearchFields DEF WithEntries
<1>7. Kept(N) /\ Given(N) /\ Others(N)
  BY <1>5
<1>8. N + 1 - N = 1
  BY <1>2
<1>9. QED
  BY <1>6, <1>7, <1>8 DEF AddedAlong

(* The first entries for a host lead to it by falling ranks.               *)
Leads(s, p, h) == LeadsToHost(file, net, s, p, h)
LeadsOn(s, p, t) == LeadsToSwitch(file, net, s, p, t)
Ranks == [SwitchesOf(file) -> [HostsOf(file) -> Nat]]
Falls(e, rank, s, h, p) ==
  \/ Leads(s, p, h)
  \/ \E t \in SwitchesOf(file) : LeadsOn(s, p, t) /\ Has(e, t, h) /\ rank[t][h] < rank[s][h]
RoutedBy(e, rank) ==
  \A s \in SwitchesOf(file) : \A h \in HostsOf(file) : \A p :
    First(e, s, h, p) => Falls(e, rank, s, h, p)
Below(rank, m) == \A s \in SwitchesOf(file) : \A h \in HostsOf(file) : rank[s][h] <= m
Routed(e) == \E rank \in Ranks : \E m \in Nat : Below(rank, m) /\ RoutedBy(e, rank)

(* A path from a host leads in and out by the same links and visits no     *)
(* switch twice.                                                           *)
Path(path, src) ==
  /\ \A i, j \in 1 .. Len(path) : path[i].switch = path[j].switch => i = j
  /\ Len(path) # 0 => Leads(path[1].switch, path[1].in, src)
  /\ \A i \in 1 .. Len(path) : i # 1 => LeadsOn(path[i].switch, path[i].in, path[i - 1].switch)
  /\ \A i \in 1 .. Len(path) : i # Len(path) => LeadsOn(path[i].switch, path[i].out, path[i + 1].switch)

LEMMA AlongRouted ==
  ASSUME NEW e, NEW new, NEW path \in Seq(Passes), NEW src \in HostsOf(file), NEW dst \in HostsOf(file),
         src # dst, Path(path, src), path # <<>>, Leads(path[Len(path)].switch, path[Len(path)].out, dst),
         AddedAlong(e, new, path, src, dst), Routed(e)
  PROVE  Routed(new)
<1>1. PICK rank \in Ranks, m \in Nat : Below(rank, m) /\ RoutedBy(e, rank)
  BY DEF Routed
<1> DEFINE N == Len(path)
           At(s) == CHOOSE i \in 1 .. N : path[i].switch = s
           On(s) == \E i \in 1 .. N : path[i].switch = s
           Rank(s, h) == IF Has(e, s, h) \/ ~On(s) THEN rank[s][h]
                         ELSE IF h = dst THEN m + 1 + N - At(s)
                         ELSE IF h = src THEN m + At(s) ELSE rank[s][h]
           ranks == [s \in SwitchesOf(file) |-> [h \in HostsOf(file) |-> Rank(s, h)]]
           top == m + 1 + N
<1>2. N \in Nat /\ N # 0 /\ top \in Nat /\ m <= top
  OBVIOUS
<1>3. \A i \in 1 .. N : path[i].switch \in SwitchesOf(file)
  <2>1. \A i \in 1 .. N : path[i] \in Passes
    OBVIOUS
  <2>2. QED
    BY <2>1 DEF Passes
<1>4. \A i \in 1 .. N : On(path[i].switch) /\ At(path[i].switch) = i
  BY DEF Path
<1>5. \A s \in SwitchesOf(file) : On(s) => At(s) \in 1 .. N
  OBVIOUS
<1>6. \A s \in SwitchesOf(file) : \A h \in HostsOf(file) : rank[s][h] \in Nat /\ rank[s][h] <= m
  BY <1>1 DEF Ranks, Below
<1>7. ASSUME NEW s \in SwitchesOf(file), NEW h \in HostsOf(file)
      PROVE  Rank(s, h) \in Nat /\ Rank(s, h) <= top
  <2> HIDE DEF N, At, On
  <2>1. CASE Rank(s, h) = rank[s][h]
    BY <1>2, <1>6, <2>1
  <2>2. CASE Rank(s, h) # rank[s][h]
    <3>1. On(s) /\ (Rank(s, h) = m + 1 + N - At(s) \/ Rank(s, h) = m + At(s))
      BY <2>2
    <3>2. At(s) \in 1 .. N
      BY <1>5, <3>1
    <3> HIDE DEF Rank
    <3>3. QED
      BY <1>2, <3>1, <3>2
  <2>3. QED
    BY <2>1, <2>2
<1>8. ranks \in Ranks /\ Below(ranks, top)
  BY <1>7 DEF Ranks, Below
<1>9. \A s \in SwitchesOf(file) : \A h \in HostsOf(file) : ranks[s][h] = Rank(s, h)
  OBVIOUS
(* The switches on the path have these ranks, or lower ones from before.   *)
<1>10. ASSUME NEW i \in 1 .. N
       PROVE  /\ Has(e, path[i].switch, dst) => ranks[path[i].switch][dst] \in 0 .. m
              /\ ~Has(e, path[i].switch, dst) => ranks[path[i].switch][dst] = m + 1 + N - i
              /\ Has(e, path[i].switch, src) => ranks[path[i].switch][src] \in 0 .. m
              /\ ~Has(e, path[i].switch, src) => ranks[path[i].switch][src] = m + i
  <2> DEFINE x == path[i].switch
  <2>1. x \in SwitchesOf(file) /\ On(x) /\ At(x) = i
    BY <1>3, <1>4
  <2> HIDE DEF x, N, At, On
  <2>2. Has(e, x, dst) => Rank(x, dst) = rank[x][dst]
    OBVIOUS
  <2>3. ~Has(e, x, dst) => Rank(x, dst) = m + 1 + N - i
    BY <2>1
  <2>4. Has(e, x, src) => Rank(x, src) = rank[x][src]
    OBVIOUS
  <2>5. ~Has(e, x, src) => Rank(x, src) = m + i
    BY <2>1
  <2>6. ranks[x][dst] = Rank(x, dst) /\ ranks[x][src] = Rank(x, src)
    BY <1>9, <2>1
  <2> HIDE DEF Rank, ranks
  <2>7. rank[x][dst] \in 0 .. m /\ rank[x][src] \in 0 .. m
    BY <1>6, <2>1
  <2>8. QED
    BY <2>2, <2>3, <2>4, <2>5, <2>6, <2>7 DEF x
<1> HIDE DEF N, top
<1>11. ASSUME NEW s \in SwitchesOf(file), NEW h \in HostsOf(file), NEW p, First(new, s, h, p)
       PROVE  Falls(new, ranks, s, h, p)
  <2>1. CASE First(e, s, h, p)
    <3>1. Falls(e, rank, s, h, p)
      BY <1>1, <2>1 DEF RoutedBy
    <3>2. Has(e, s, h)
      BY <2>1 DEF First, FirstEntry, Has
    <3>3. \A t \in SwitchesOf(file) : Has(e, t, h) => ranks[t][h] = rank[t][h] /\ Has(new, t, h)
      BY <1>9 DEF AddedAlong
    <3> HIDE DEF ranks
    <3>4. QED
      BY <3>1, <3>2, <3>3 DEF Falls
  <2>2. ASSUME NEW i \in 1 .. N, ~Has(e, s, h), s = path[i].switch, h = src, p = path[i].in
        PROVE  Falls(new, ranks, s, h, p)
    <3>1. CASE i = 1
      BY <1>2, <2>2, <3>1 DEF Falls, Path, N
    <3>2. CASE i # 1
      <4>1. i - 1 \in 1 .. N /\ LeadsOn(s, p, path[i - 1].switch) /\ path[i - 1].switch \in SwitchesOf(file)
        BY <1>2, <1>3, <2>2, <3>2 DEF Path, N
      <4>2. Has(new, path[i - 1].switch, h)
        BY <2>2, <4>1 DEF AddedAlong, N
      <4>3. ranks[s][h] = m + i
        BY <1>10, <2>2
      <4>4. ranks[path[i - 1].switch][h] \in 0 .. m \/ ranks[path[i - 1].switch][h] = m + (i - 1)
        BY <1>10, <2>2, <4>1
      <4> HIDE DEF ranks
      <4>5. ranks[path[i - 1].switch][h] < ranks[s][h]
        BY <1>2, <4>3, <4>4
      <4>6. QED
        BY <4>1, <4>2, <4>5 DEF Falls
    <3>3. QED
      BY <3>1, <3>2
  <2>3. ASSUME NEW i \in 1 .. N, ~Has(e, s, h), s = path[i].switch, h = dst, p = path[i].out
        PROVE  Falls(new, ranks, s, h, p)
    <3>1. CASE i = N
      BY <2>3, <3>1 DEF Falls, N
    <3>2. CASE i # N
      <4>1. i + 1 \in 1 .. N /\ LeadsOn(s, p, path[i + 1].switch) /\ path[i + 1].switch \in SwitchesOf(file)
        BY <1>2, <1>3, <2>3, <3>2 DEF Path, N
      <4>2. Has(new, path[i + 1].switch, h)
        BY <2>3, <4>1 DEF AddedAlong, N
      <4>3. ranks[s][h] = m + 1 + N - i
        BY <1>10, <2>3
      <4>4. ranks[path[i + 1].switch][h] \in 0 .. m \/ ranks[path[i + 1].switch][h] = m + 1 + N - (i + 1)
        BY <1>10, <2>3, <4>1
      <4> HIDE DEF ranks
      <4>5. ranks[path[i + 1].switch][h] < ranks[s][h]
        <5>1. ASSUME NEW a, NEW b, a = m + 1 + N - i, b \in 0 .. m \/ b = m + 1 + N - (i + 1)
              PROVE  b < a
          <6>1. i \in Nat /\ N \in Nat /\ i <= N /\ m \in Nat
            BY <1>2
          <6>2. QED
            BY <5>1, <6>1
        <5>2. QED
          BY <4>3, <4>4, <5>1
      <4>6. QED
        BY <4>1, <4>2, <4>5 DEF Falls
    <3>3. QED
      BY <3>1, <3>2
  <2>4. QED
    BY <1>11, <2>1, <2>2, <2>3 DEF AddedAlong, N
<1> HIDE DEF ranks
<1>12. QED
  BY <1>2, <1>8, <1>11 DEF Routed, RoutedBy

-----------------------------------------------------------------------------
(* A search from a host, in a network of plain links.                      *)

(* Linked hosts have entries at each other's home, and all entries lead.   *)
Sound(d) ==
  /\ Routed(d.entries)
  /\ \A a, b \in HostsOf(file) : <<a, b>> \in d.linked =>
       a # b /\ <<b, a>> \in d.linked /\ Has(d.entries, net.home[a].switch, b)

(* What a call starts from. *)
Ready(call) ==
  /\ Path(call.d.passed, call.host)
  /\ Len(call.d.passed) = 0 => Leads(call.switch, call.in, call.host)
  /\ Len(call.d.passed) # 0 =>
       LET last == call.d.passed[Len(call.d.passed)]
       IN LeadsOn(call.switch, call.in, last.switch) /\ LeadsOn(last.switch, last.out, call.switch)
  /\ \A i \in 1 .. Len(call.d.passed) : call.d.passed[i].switch \in call.d.recorded
  /\ call.switch \notin call.d.recorded
  /\ Sound(call.d)

LEMMA HereFields ==
  ASSUME InPlace, NEW call \in Calls, NEW port
  PROVE  /\ Len(Here(call, port)) = Len(call.d.passed) + 1 /\ Len(call.d.passed) \in Nat
         /\ \A i \in 1 .. Len(call.d.passed) : Here(call, port)[i] = call.d.passed[i]
         /\ Here(call, port)[Len(call.d.passed) + 1].switch = call.switch
         /\ Here(call, port)[Len(call.d.passed) + 1].in = call.in
         /\ Here(call, port)[Len(call.d.passed) + 1].out = port
<1>1. call.d.passed \in Seq(Passes) /\ Len(call.d.passed) \in Nat
  BY CallFields, SearchFields
<1> DEFINE pass == [switch |-> call.switch, in |-> call.in, out |-> port]
<1>2. pass.switch = call.switch /\ pass.in = call.in /\ pass.out = port
  OBVIOUS
<1>3. Here(call, port) = Append(call.d.passed, pass)
  BY DEF Here
<1> HIDE DEF pass
<1>4. QED
  BY <1>1, <1>2, <1>3

LEMMA HerePath ==
  ASSUME InPlace, NEW call \in Calls, NEW port, Ready(call)
  PROVE  Path(Here(call, port), call.host)
<1> DEFINE n == Len(call.d.passed)
           old == call.d.passed
           new == Here(call, port)
<1>1. /\ n \in Nat /\ Len(new) = n + 1
      /\ \A i \in 1 .. n : new[i] = old[i]
      /\ new[n + 1].switch = call.switch /\ new[n + 1].in = call.in /\ new[n + 1].out = port
  BY HereFields
<1>2. Path(old, call.host) /\ \A i \in 1 .. n : old[i].switch # call.switch
  BY DEF Ready
<1>a. n = 0 => Leads(call.switch, call.in, call.host)
  BY DEF Ready
<1>b. n # 0 => LeadsOn(call.switch, call.in, old[n].switch) /\ LeadsOn(old[n].switch, old[n].out, call.switch)
  BY DEF Ready
<1>c. n = Len(old)
  OBVIOUS
<1> HIDE DEF n, old, new
<1>3. \A i \in 1 .. n + 1 : i \in 1 .. n \/ i = n + 1
  BY <1>1
<1>4. \A i, j \in 1 .. n + 1 : new[i].switch = new[j].switch => i = j
  BY <1>1, <1>2, <1>3, <1>c DEF Path
<1>5. Leads(new[1].switch, new[1].in, call.host)
  <2>1. CASE n = 0
    BY <1>1, <1>a, <2>1
  <2>2. CASE n # 0
    <3>1. 1 \in 1 .. n
      BY <1>1, <2>2
    <3>2. QED
      BY <1>1, <1>2, <1>c, <2>2, <3>1 DEF Path
  <2>3. QED
    BY <2>1, <2>2
<1>6. ASSUME NEW i \in 1 .. n + 1, i # 1 PROVE LeadsOn(new[i].switch, new[i].in, new[i - 1].switch)
  <2>1. i - 1 \in 1 .. n
    BY <1>1, <1>6
  <2>2. CASE i \in 1 .. n
    BY <1>1, <1>2, <1>6, <1>c, <2>1, <2>2 DEF Path
  <2>3. CASE i = n + 1
    BY <1>1, <1>b, <2>1, <2>3
  <2>4. QED
    BY <1>3, <2>2, <2>3
<1>7. ASSUME NEW i \in 1 .. n + 1, i # n + 1 PROVE LeadsOn(new[i].switch, new[i].out, new[i + 1].switch)
  <2>1. i \in 1 .. n
    BY <1>1, <1>7
  <2>2. CASE i = n
    BY <1>1, <1>b, <2>1, <2>2
  <2>3. CASE i # n
    <3>1. i + 1 \in 1 .. n
      BY <1>1, <2>1, <2>3
    <3>2. QED
      BY <1>1, <1>2, <1>c, <2>1, <2>3, <3>1 DEF Path
  <2>4. QED
    BY <2>2, <2>3
<1>8. Path(new, call.host)
  BY <1>1, <1>4, <1>5, <1>6, <1>7 DEF Path
<1>9. QED
  BY <1>8 DEF new

(* A host that is reached by another port is another one, and at home.     *)
LEMMA ReachedHome ==
  ASSUME InPlace, PlainNet(file, net), NEW call \in Calls, NEW port \in 1 .. Len(net.ports[call.switch]),
         Ready(call), Reaches(call, port)
  PROVE  /\ net.ports[call.switch][port].node # call.host
         /\ Leads(call.switch, port, net.ports[call.switch][port].node)
         /\ net.home[net.ports[call.switch][port].node].switch = call.switch
         /\ Here(call, port)[1].switch = net.home[call.host].switch
<1>1. call.switch \in SwitchesOf(file)
  BY CallFields
<1>2. /\ Leads(call.switch, port, net.ports[call.switch][port].node)
      /\ net.home[net.ports[call.switch][port].node] = [switch |-> call.switch, port |-> port]
      /\ port # call.in
  BY <1>1 DEF Reaches, Leads, LeadsToHost, PlainNet
<1>3. \A s, p : Leads(s, p, call.host) => net.home[call.host] = [switch |-> s, port |-> p]
  BY DEF Leads, LeadsToHost, PlainNet
<1>4. CASE Len(call.d.passed) = 0
  <2>1. net.home[call.host] = [switch |-> call.switch, port |-> call.in]
    BY <1>3, <1>4 DEF Ready
  <2>2. Here(call, port)[1].switch = call.switch
    BY <1>4, HereFields
  <2>3. QED
    BY <1>2, <2>1, <2>2
<1>5. CASE Len(call.d.passed) # 0
  <2>1. 1 \in 1 .. Len(call.d.passed)
    BY <1>5, HereFields
  <2>2. net.home[call.host] = [switch |-> call.d.passed[1].switch, port |-> call.d.passed[1].in]
    BY <1>3, <1>5 DEF Ready, Path
  <2>3. call.d.passed[1].switch # call.switch
    BY <2>1 DEF Ready
  <2>4. Here(call, port)[1].switch = call.d.passed[1].switch
    BY <2>1, HereFields
  <2>5. QED
    BY <1>2, <2>2, <2>3, <2>4
<1>6. QED
  BY <1>4, <1>5

(* Entries along the path to a host keep a search sound. *)
HostReached(call, acc, port, new) ==
  /\ Sound(new) /\ new.recorded = acc.recorded
  /\ new.linked = acc.linked \cup {<<call.host, net.ports[call.switch][port].node>>,
                                   <<net.ports[call.switch][port].node, call.host>>}

LEMMA ReachedSound ==
  ASSUME InPlace, PlainNet(file, net), NEW call \in Calls, NEW acc \in Searches,
         NEW port \in 1 .. Len(net.ports[call.switch]), Ready(call), Reaches(call, port), Sound(acc),
         NEW new,
         new = AddEntriesAlong(acc, Here(call, port), call.host, net.ports[call.switch][port].node)
  PROVE  HostReached(call, acc, port, new)
<1> DEFINE path == Here(call, port)
           src == call.host
           dst == net.ports[call.switch][port].node
           N == Len(path)
<1>1. src \in HostsOf(file) /\ dst \in HostsOf(file) /\ path \in Seq(Passes)
  BY CallFields, HereType DEF Reaches
<1>2. /\ src # dst /\ Leads(call.switch, port, dst) /\ net.home[dst].switch = call.switch
      /\ path[1].switch = net.home[src].switch
  BY ReachedHome
<1>3. N \in Nat /\ N # 0 /\ path[N].switch = call.switch /\ path[N].out = port
  BY HereFields
<1>4. Path(path, src)
  BY HerePath
<1> HIDE DEF path, src, dst
<1>5. /\ AddedAlong(acc.entries, new.entries, path, src, dst)
      /\ new.linked = acc.linked \cup {<<src, dst>>, <<dst, src>>}
      /\ new.recorded = acc.recorded
  BY <1>1, AlongAdded DEF path, src, dst
<1>6. Routed(new.entries)
  <2>1. path # <<>> /\ Leads(path[Len(path)].switch, path[Len(path)].out, dst)
    BY <1>2, <1>3
  <2>2. Routed(acc.entries)
    BY DEF Sound
  <2>3. QED
    BY <1>1, <1>2, <1>4, <1>5, <2>1, <2>2, AlongRouted
<1>7. ASSUME NEW a \in HostsOf(file), NEW b \in HostsOf(file), <<a, b>> \in new.linked
      PROVE  a # b /\ <<b, a>> \in new.linked /\ Has(new.entries, net.home[a].switch, b)
  <2>1. 1 \in 1 .. N /\ N \in 1 .. N
    BY <1>3
  <2>2. Has(new.entries, net.home[src].switch, dst) /\ Has(new.entries, net.home[dst].switch, src)
    BY <1>2, <1>3, <1>5, <2>1 DEF AddedAlong
  <2>3. CASE a = src /\ b = dst
    BY <1>2, <1>5, <2>2, <2>3
  <2>4. CASE a = dst /\ b = src
    BY <1>2, <1>5, <2>2, <2>4
  <2>5. CASE <<a, b>> \in acc.linked
    <3>1. a # b /\ <<b, a>> \in acc.linked /\ Has(acc.entries, net.home[a].switch, b)
      BY <2>5 DEF Sound
    <3>2. net.home[a].switch \in SwitchesOf(file)
      BY HomeHasPort
    <3>3. QED
      BY <1>5, <3>1, <3>2 DEF AddedAlong
  <2>6. QED
    BY <1>5, <1>7, <2>3, <2>4, <2>5
<1>8. Sound(new)
  BY <1>5, <1>6, <1>7, Zenon DEF Sound
<1>9. QED
  BY <1>5, <1>8 DEF HostReached, path, src, dst

(* What a port leads to is linked, or among the switches R. *)
Covered(call, R, linked, t, q) ==
  IF net.ports[t][q].flag = 0
  THEN net.ports[t][q].node = call.host \/ <<call.host, net.ports[t][q].node>> \in linked
  ELSE net.ports[t][q].node \in R

(* The search has seen the ports of the switches V, and the first k ports  *)
(* of the switch of the call.                                              *)
Seen(call, V, k, d) ==
  LET R == call.d.recorded \cup V \cup {call.switch}
  IN /\ V \in SUBSET SwitchesOf(file)
     /\ d.recorded \subseteq R
     /\ \A t \in V : \A q \in 1 .. Len(net.ports[t]) : Covered(call, R, d.linked, t, q)
     /\ \A q \in 1 .. k : Covered(call, R, d.linked, call.switch, q)
Grown(call, d) ==
  /\ d \in Searches /\ Sound(d)
  /\ call.d.recorded \subseteq d.recorded /\ call.d.linked \subseteq d.linked

(* What a call has done when it returns. *)
Done(call, d) == Grown(call, d) /\ \E V : Seen(call, V, Len(net.ports[call.switch]), d)

LEMMA CoveredStays ==
  ASSUME NEW call, NEW R, NEW linked, NEW t, NEW q, Covered(call, R, linked, t, q),
         NEW more, NEW R2, linked \subseteq more, R \subseteq R2
  PROVE  Covered(call, R2, more, t, q)
BY DEF Covered

(* The port by which the call came is covered. *)
LEMMA InCovered ==
  ASSUME InPlace, PlainNet(file, net), NEW call \in Calls, Ready(call), NEW R, NEW linked,
         call.d.recorded \subseteq R
  PROVE  Covered(call, R, linked, call.switch, call.in)
<1>1. CASE Len(call.d.passed) = 0
  BY <1>1 DEF Ready, Leads, LeadsToHost, Covered
<1>2. CASE Len(call.d.passed) # 0
  <2> DEFINE n == Len(call.d.passed)
             last == call.d.passed[n]
  <2>1. n \in 1 .. n
    BY <1>2, HereFields
  <2>2. LeadsOn(call.switch, call.in, last.switch) /\ last.switch \in call.d.recorded
    BY <1>2, <2>1 DEF Ready
  <2> HIDE DEF last
  <2>3. QED
    BY <2>2 DEF LeadsOn, LeadsToSwitch, Covered
<1>3. QED
  BY <1>1, <1>2

LEMMA FiniteNodes ==
  ASSUME IsFile(file)
  PROVE  /\ IsFiniteSet(SwitchesOf(file)) /\ Cardinality(SwitchesOf(file)) = file.switches
         /\ IsFiniteSet(HostsOf(file)) /\ Cardinality(HostsOf(file)) = file.hosts
<1>1. \A n \in Nat : IsFiniteSet(0 .. n - 1) /\ Cardinality(0 .. n - 1) = n
  <2>1. ASSUME NEW n \in Nat PROVE IsFiniteSet(0 .. n - 1) /\ Cardinality(0 .. n - 1) = n
    <3>1. 0 \in Int /\ n - 1 \in Int
      OBVIOUS
    <3>2. /\ IsFiniteSet(0 .. n - 1)
          /\ Cardinality(0 .. n - 1) = IF 0 > n - 1 THEN 0 ELSE (n - 1) - 0 + 1
      BY <3>1, FS_Interval
    <3>3. QED
      BY <3>2
  <2>2. QED
    BY <2>1
<1>2. QED
  BY <1>1 DEF SwitchesOf, HostsOf, IsFile

(* How many switches are left to be recorded. *)
Left(call) == Cardinality(SwitchesOf(file) \ call.d.recorded)

LEMMA LeftFalls ==
  ASSUME IsFile(file), NEW a \in SUBSET SwitchesOf(file), NEW b \in SUBSET SwitchesOf(file),
         NEW s \in SwitchesOf(file), s \notin a, a \cup {s} \subseteq b
  PROVE  /\ Cardinality(SwitchesOf(file) \ a) \in Nat /\ Cardinality(SwitchesOf(file) \ b) \in Nat
         /\ Cardinality(SwitchesOf(file) \ b) < Cardinality(SwitchesOf(file) \ a)
<1> DEFINE A == SwitchesOf(file) \ a
           B == SwitchesOf(file) \ b
<1>1. IsFiniteSet(SwitchesOf(file))
  BY FiniteNodes
<1>2. IsFiniteSet(A) /\ IsFiniteSet(B)
  BY <1>1, FS_Subset
<1>3. s \in A /\ B \subseteq A \ {s}
  OBVIOUS
<1> HIDE DEF A, B
<1>4. Cardinality(A) \in Nat /\ Cardinality(B) \in Nat
  BY <1>2, FS_CardinalityType
<1>5. IsFiniteSet(A \ {s}) /\ Cardinality(A \ {s}) = Cardinality(A) - 1
  BY <1>2, <1>3, FS_RemoveElement
<1>6. Cardinality(B) <= Cardinality(A \ {s})
  BY <1>3, <1>5, FS_Subset
<1>7. QED
  BY <1>4, <1>5, <1>6 DEF A, B

(* A call one level down is ready, with fewer switches left. *)
LEMMA AcrossReady ==
  ASSUME InPlace, IsFile(file), PlainNet(file, net), NEW call \in Calls, NEW acc,
         NEW port \in 1 .. Len(net.ports[call.switch]), Ready(call), Grown(call, acc),
         GoesOn(call, acc, port)
  PROVE  LET c == CallAcross(call, acc, port)
         IN /\ c \in Calls /\ Ready(c) /\ Left(c) < Left(call)
            /\ c.host = call.host /\ c.switch = net.ports[call.switch][port].node
            /\ c.d.recorded = acc.recorded \cup {call.switch} /\ c.d.linked = acc.linked
<1> DEFINE c == CallAcross(call, acc, port)
<1>1. acc \in Searches /\ call.switch \in SwitchesOf(file)
  BY CallFields DEF Grown
<1>2. LeadsOn(call.switch, port, net.ports[call.switch][port].node)
  BY <1>1 DEF GoesOn, LeadsOn, LeadsToSwitch
<1>3. LeadsOn(net.ports[call.switch][port].node, net.ports[call.switch][port].port, call.switch)
  BY <1>1 DEF GoesOn, InPlace, Wired, LeadsOn
<1>4. net.ports[call.switch][port].node # call.switch
  BY <1>1 DEF GoesOn, PlainNet
<1>5. /\ c \in Calls
      /\ c.d = [acc EXCEPT !.passed = Here(call, port), !.recorded = @ \cup {call.switch}]
  BY <1>1, CallAcrossType DEF GoesOn
<1>6. /\ c.d.passed = Here(call, port) /\ c.d.recorded = acc.recorded \cup {call.switch}
      /\ c.d.linked = acc.linked /\ c.d.entries = acc.entries
  BY <1>1, <1>5, SearchFields
<1>7. /\ c.host = call.host /\ c.switch = net.ports[call.switch][port].node
      /\ c.in = net.ports[call.switch][port].port
  BY DEF CallAcross
<1> HIDE DEF c
<1> DEFINE path == Here(call, port)
           n == Len(call.d.passed)
<1>8. /\ n \in Nat /\ Len(path) = n + 1
      /\ \A i \in 1 .. n : path[i] = call.d.passed[i]
      /\ path[n + 1].switch = call.switch /\ path[n + 1].in = call.in /\ path[n + 1].out = port
  BY HereFields
<1>9. Path(path, call.host)
  BY HerePath
<1> HIDE DEF path, n
<1>10. \A i \in 1 .. Len(path) : path[i].switch \in c.d.recorded
  <2>1. \A i \in 1 .. n : call.d.passed[i].switch \in call.d.recorded
    BY DEF Ready, n
  <2>2. \A i \in 1 .. n + 1 : i \in 1 .. n \/ i = n + 1
    BY <1>8
  <2>3. QED
    BY <1>6, <1>8, <2>1, <2>2 DEF Grown
<1>11. Sound(c.d)
  BY <1>6 DEF Sound, Grown
<1>12. c.switch \notin c.d.recorded
  BY <1>4, <1>6, <1>7 DEF GoesOn
<1>13. Ready(c)
  <2>1. Len(c.d.passed) # 0 /\ c.d.passed[Len(c.d.passed)].switch = call.switch
        /\ c.d.passed[Len(c.d.passed)].out = port
    BY <1>6, <1>8 DEF path
  <2>2. LeadsOn(c.switch, c.in, call.switch) /\ LeadsOn(call.switch, port, c.switch)
    BY <1>2, <1>3, <1>7
  <2>3. Path(c.d.passed, c.host)
    BY <1>6, <1>7, <1>9 DEF path
  <2>4. \A i \in 1 .. Len(c.d.passed) : c.d.passed[i].switch \in c.d.recorded
    BY <1>6, <1>10 DEF path
  <2>5. QED
    BY <1>11, <1>12, <2>1, <2>2, <2>3, <2>4 DEF Ready
<1>14. Left(c) < Left(call)
  <2>1. call.d.recorded \in SUBSET SwitchesOf(file) /\ c.d.recorded \in SUBSET SwitchesOf(file)
    BY <1>5, CallFields, SearchFields
  <2>2. call.switch \notin call.d.recorded /\ call.d.recorded \cup {call.switch} \subseteq c.d.recorded
    BY <1>6 DEF Ready, Grown
  <2>3. QED
    BY <1>1, <2>1, <2>2, LeftFalls DEF Left
<1>15. QED
  BY <1>5, <1>6, <1>7, <1>13, <1>14 DEF c

(* A port, if the calls one level down do what they should. *)
LEMMA VisitPortSeen ==
  ASSUME InPlace, IsFile(file), PlainNet(file, net), NEW deeper, NEW call \in Calls, NEW acc,
         NEW port \in 1 .. Len(net.ports[call.switch]), Ready(call), Grown(call, acc),
         NEW V, Seen(call, V, port - 1, acc),
         \A c \in Calls : Ready(c) /\ Left(c) < Left(call) => Done(c, deeper[c]),
         NEW new, new = VisitPort(deeper, call, acc, port)
  PROVE  Grown(call, new) /\ \E W : Seen(call, W, port, new)
<1> DEFINE R == call.d.recorded \cup V \cup {call.switch}
           s == call.switch
<1>0. \A q \in 1 .. port : q \in 1 .. port - 1 \/ q = port
  BY PortsOf, CallFields DEF InPlace
<1>1. /\ V \in SUBSET SwitchesOf(file) /\ acc.recorded \subseteq R
      /\ \A t \in V : \A q \in 1 .. Len(net.ports[t]) : Covered(call, R, acc.linked, t, q)
      /\ \A q \in 1 .. port - 1 : Covered(call, R, acc.linked, s, q)
  BY DEF Seen
<1>2. CASE Skips(call, acc, port) /\ new = acc
  <2>1. Covered(call, R, acc.linked, s, port)
    <3>1. CASE port = call.in
      BY <3>1, InCovered
    <3>2. CASE port # call.in
      <4>1. \/ net.ports[s][port].flag = 0 /\ <<call.host, net.ports[s][port].node>> \in acc.linked
            \/ net.ports[s][port].flag = 1 /\ net.ports[s][port].node \in R
        BY <1>1, <1>2, <3>2 DEF Skips
      <4> HIDE DEF R
      <4>2. QED
        BY <4>1 DEF Covered
    <3>3. QED
      BY <3>1, <3>2
  <2>2. Seen(call, V, port, new)
    BY <1>0, <1>1, <1>2, <2>1 DEF Seen
  <2>3. QED
    BY <1>2, <2>2
<1>3. CASE /\ Reaches(call, port)
           /\ new = AddEntriesAlong(acc, Here(call, port), call.host, net.ports[call.switch][port].node)
  <2>1. /\ Sound(new) /\ new.recorded = acc.recorded
        /\ new.linked = acc.linked \cup {<<call.host, net.ports[call.switch][port].node>>,
                                         <<net.ports[call.switch][port].node, call.host>>}
    <3>1. acc \in Searches /\ Sound(acc)
      BY DEF Grown
    <3>2. HostReached(call, acc, port, new)
      BY <1>3, <3>1, ReachedSound
    <3>3. QED
      BY <3>2 DEF HostReached
  <2>2. new \in Searches
    BY <1>3, CallFields, HereType, AddEntriesAlongType DEF Reaches, Grown
  <2>3. Grown(call, new)
    BY <2>1, <2>2 DEF Grown
  <2>4. Covered(call, R, new.linked, s, port)
    BY <1>3, <2>1 DEF Covered, Reaches
  <2>5. /\ \A t \in V : \A q \in 1 .. Len(net.ports[t]) : Covered(call, R, new.linked, t, q)
        /\ \A q \in 1 .. port - 1 : Covered(call, R, new.linked, s, q)
    <3>1. acc.linked \subseteq new.linked
      BY <2>1
    <3>2. QED
      BY <1>1, <3>1 DEF Covered
  <2>6. Seen(call, V, port, new)
    BY <1>0, <1>1, <2>1, <2>4, <2>5 DEF Seen
  <2>7. QED
    BY <2>3, <2>6
<1>4. CASE GoesOn(call, acc, port) /\ new = deeper[CallAcross(call, acc, port)]
  <2> DEFINE c == CallAcross(call, acc, port)
  <2>1. /\ c \in Calls /\ Ready(c) /\ Left(c) < Left(call)
        /\ c.host = call.host /\ c.switch = net.ports[call.switch][port].node
        /\ c.d.recorded = acc.recorded \cup {call.switch} /\ c.d.linked = acc.linked
    BY <1>4, AcrossReady
  <2>2. new = deeper[c]
    BY <1>4
  <2> HIDE DEF c
  <2>3. Done(c, new)
    BY <2>1, <2>2
  <2>4. PICK U : Seen(c, U, Len(net.ports[c.switch]), new)
    BY <2>3 DEF Done
  <2> DEFINE W == V \cup U \cup {c.switch}
             R2 == call.d.recorded \cup W \cup {call.switch}
             Q == c.d.recorded \cup U \cup {c.switch}
  <2>5. /\ U \in SUBSET SwitchesOf(file) /\ new.recorded \subseteq Q
        /\ \A t \in U : \A q \in 1 .. Len(net.ports[t]) : Covered(c, Q, new.linked, t, q)
        /\ \A q \in 1 .. Len(net.ports[c.switch]) : Covered(c, Q, new.linked, c.switch, q)
    BY <2>4 DEF Seen
  <2>6. Q \subseteq R2 /\ R \subseteq R2 /\ W \in SUBSET SwitchesOf(file)
    BY <1>1, <2>1, <2>5, CallFields
  <2>7. new \in Searches /\ Sound(new) /\ acc.linked \subseteq new.linked /\ acc.recorded \subseteq new.recorded
    BY <2>1, <2>3 DEF Done, Grown
  <2>8. Grown(call, new)
    BY <2>7 DEF Grown
  <2> HIDE DEF R2, Q, R
  <2>9. ASSUME NEW t, NEW q, Covered(c, Q, new.linked, t, q) PROVE Covered(call, R2, new.linked, t, q)
    BY <2>1, <2>6, <2>9 DEF Covered
  <2>10. ASSUME NEW t, NEW q, Covered(call, R, acc.linked, t, q) PROVE Covered(call, R2, new.linked, t, q)
    BY <2>6, <2>7, <2>10 DEF Covered
  <2>11. Covered(call, R2, new.linked, s, port)
    BY <1>4, <2>1 DEF Covered, GoesOn, R2
  <2>12. ASSUME NEW t \in W, NEW q \in 1 .. Len(net.ports[t]) PROVE Covered(call, R2, new.linked, t, q)
    BY <1>1, <2>5, <2>9, <2>10, <2>12
  <2>13. \A q \in 1 .. port : Covered(call, R2, new.linked, s, q)
    BY <1>0, <1>1, <2>10, <2>11
  <2>14. new.recorded \subseteq R2
    BY <2>5, <2>6
  <2>15. Seen(call, W, port, new)
    BY <2>6, <2>12, <2>13, <2>14 DEF Seen, R2
  <2>16. QED
    BY <2>8, <2>15
<1>5. QED
  BY <1>2, <1>3, <1>4, VisitPortCases

LEMMA VisitPortsDone ==
  ASSUME InPlace, IsFile(file), PlainNet(file, net), NEW deeper \in Results, NEW call \in Calls, Ready(call),
         \A c \in Calls : Ready(c) /\ Left(c) < Left(call) => Done(c, deeper[c])
  PROVE  Done(call, VisitPorts(deeper, call))
<1>1. PICK a : /\ Visits(a, deeper, call)
               /\ VisitPorts(deeper, call) = [a[Len(net.ports[call.switch])] EXCEPT !.passed = call.d.passed]
  BY VisitPortsSteps
<1> DEFINE N == Len(net.ports[call.switch])
           Fine(k) == Grown(call, a[k]) /\ \E V : Seen(call, V, k, a[k])
           S == {k \in 0 .. N : Fine(k)}
<1>2. N \in Nat
  BY CallFields DEF InPlace, Wired, Nets, Portings
<1>3. 0 \in S
  <2>1. a[0] = call.d
    BY <1>1 DEF Visits
  <2>2. Grown(call, call.d)
    BY CallFields DEF Grown, Ready
  <2>3. Seen(call, {}, 0, call.d)
    BY DEF Seen
  <2>4. QED
    BY <1>2, <2>1, <2>2, <2>3
<1>4. ASSUME NEW k \in 1 .. N, k - 1 \in S PROVE k \in S
  <2>1. a[k] = VisitPort(deeper, call, a[k - 1], k)
    BY <1>1 DEF Visits
  <2>2. Grown(call, a[k - 1])
    BY <1>4
  <2>3. PICK V : Seen(call, V, k - 1, a[k - 1])
    BY <1>4
  <2>4. Grown(call, a[k]) /\ \E W : Seen(call, W, k, a[k])
    BY <2>1, <2>2, <2>3, VisitPortSeen
  <2>5. QED
    BY <1>2, <2>4
<1>5. Fine(N)
  <2> HIDE DEF Fine
  <2>1. 0 .. N \subseteq S
    <3> HIDE DEF S
    <3>1. QED
      BY <1>2, <1>3, <1>4, Induction
  <2>2. QED
    BY <1>2, <2>1
<1>6. a[N] \in Searches /\ call.d.passed \in Seq(Passes)
  BY <1>5, CallFields, SearchFields DEF Grown
<1> DEFINE d == VisitPorts(deeper, call)
<1>7. /\ d \in Searches /\ d.recorded = a[N].recorded /\ d.linked = a[N].linked
      /\ d.entries = a[N].entries
  BY <1>1, <1>6, VisitPortsType, SearchFields
<1> HIDE DEF d
<1>8. Grown(call, d)
  BY <1>5, <1>7 DEF Grown, Sound
<1>9. \E V : Seen(call, V, N, d)
  BY <1>5, <1>7 DEF Seen
<1>10. QED
  BY <1>8, <1>9 DEF Done, d

LEMMA DfsDone ==
  ASSUME InPlace, IsFile(file), PlainNet(file, net), NEW call \in Calls, Ready(call)
  PROVE  Done(call, Dfs[call])
<1>1. PICK dfs : Depths(dfs) /\ Dfs = dfs[MaxDepth]
  BY DfsSteps
<1> DEFINE N == MaxDepth
           Fine(k) == \A c \in Calls : Ready(c) /\ Left(c) < k => Done(c, dfs[k][c])
           S == {k \in 0 .. N : Fine(k)}
<1>2. N \in Nat /\ file.switches < N
  BY DEF IsFile, MaxDepth
<1>3. \A c \in Calls : Left(c) \in Nat /\ Left(c) <= file.switches
  <2>1. ASSUME NEW c \in Calls PROVE Left(c) \in Nat /\ Left(c) <= file.switches
    <3>1. IsFiniteSet(SwitchesOf(file) \ c.d.recorded)
      BY FiniteNodes, FS_Subset
    <3>2. Cardinality(SwitchesOf(file) \ c.d.recorded) <= Cardinality(SwitchesOf(file))
      BY FiniteNodes, FS_Subset
    <3>3. QED
      BY <3>1, <3>2, FS_CardinalityType, FiniteNodes DEF Left
  <2>2. QED
    BY <2>1
<1>4. 0 \in S
  BY <1>2, <1>3
<1>5. ASSUME NEW k \in 1 .. N, k - 1 \in S PROVE k \in S
  <2>1. dfs[k - 1] \in Results /\ \A c \in Calls : dfs[k][c] = VisitPorts(dfs[k - 1], c)
    BY <1>1, <1>2, <1>5 DEF Depths
  <2>2. ASSUME NEW c \in Calls, Ready(c), Left(c) < k PROVE Done(c, dfs[k][c])
    <3>1. ASSUME NEW b \in Calls, Ready(b), Left(b) < Left(c) PROVE Done(b, dfs[k - 1][b])
      <4>1. Left(b) < k - 1
        BY <1>2, <1>3, <2>2, <3>1
      <4>2. QED
        BY <1>5, <3>1, <4>1
    <3>2. QED
      BY <2>1, <2>2, <3>1, VisitPortsDone
  <2>3. QED
    BY <1>2, <2>2
<1>6. Fine(N)
  <2> HIDE DEF Fine, N
  <2>1. 0 .. N \subseteq S
    <3> HIDE DEF S
    <3>1. QED
      BY <1>2, <1>4, <1>5, Induction
  <2>2. QED
    BY <1>2, <2>1
<1>7. Left(call) < N
  BY <1>2, <1>3 DEF IsFile
<1>8. QED
  BY <1>1, <1>6, <1>7

-----------------------------------------------------------------------------
(* What links join.                                                        *)

Closed(V) == \A t \in V : Neighbours(t) \subseteq V
Spread(V) == V \cup UNION {Neighbours(t) : t \in V}
Spreads(r, s) ==
  /\ r \in [0 .. file.switches -> SUBSET SwitchesOf(file)]
  /\ r[0] = {s}
  /\ \A k \in 1 .. file.switches : r[k] = Spread(r[k - 1])

LEMMA NeighboursType ==
  ASSUME Wired(file, net), NEW t \in SwitchesOf(file)
  PROVE  Neighbours(t) \subseteq SwitchesOf(file)
<1>1. \A q \in Ports(t) : net.ports[t][q].flag = 1 => net.ports[t][q].node \in SwitchesOf(file)
  <2>1. ASSUME NEW q \in 1 .. Len(net.ports[t]), net.ports[t][q].flag = 1
        PROVE  net.ports[t][q].node \in SwitchesOf(file)
    BY <2>1, EndFields DEF Wired
  <2>2. QED
    BY <2>1, PortsOf
<1>2. QED
  BY <1>1 DEF Neighbours

LEMMA SpreadType ==
  ASSUME Wired(file, net), NEW V \in SUBSET SwitchesOf(file)
  PROVE  Spread(V) \in SUBSET SwitchesOf(file)
BY NeighboursType DEF Spread

LEMMA JoinedSteps ==
  ASSUME Wired(file, net), IsFile(file), NEW s \in SwitchesOf(file)
  PROVE  \E r : Spreads(r, s) /\ Joined(s) = r[file.switches]
<1> DEFINE N == file.switches
           A == SUBSET SwitchesOf(file)
           Turn(r) == [k \in 0 .. N |-> IF k = 0 THEN {s} ELSE Spread(r[k - 1])]
           after == CHOOSE r : r = Turn(r)
           F == [x \in (1 .. N) \X A |-> Spread(x[2])]
<1>1. N \in Nat /\ {s} \in A
  BY DEF IsFile
<1>2. F \in Steps(A, N)
  BY SpreadType DEF Steps
<1>3. PICK r : Iterates(r, A, {s}, N, F)
  <2> HIDE DEF N, F, A
  <2>1. QED
    BY <1>1, <1>2, Recursion
<1>4. ASSUME NEW k \in 1 .. N PROVE r[k] = Spread(r[k - 1])
  <2>1. k - 1 \in 0 .. N
    BY <1>1
  <2>2. <<k, r[k - 1]>> \in (1 .. N) \X A
    BY <1>3, <2>1 DEF Iterates
  <2>3. QED
    BY <1>3, <2>2 DEF Iterates
<1>5. r = Turn(r)
  BY <1>1, <1>3, <1>4 DEF Iterates
<1>6. after = Turn(after)
  BY <1>5
<1>7. Joined(s) = after[file.switches]
  BY DEF Joined, Spread
<1> HIDE DEF after
<1>8. after[0] = {s} /\ \A k \in 1 .. N : after[k] = Spread(after[k - 1])
  <2>1. \A k \in 0 .. N : after[k] = IF k = 0 THEN {s} ELSE Spread(after[k - 1])
    <3> HIDE DEF N
    <3>1. QED
      BY <1>6
  <2>2. 0 \in 0 .. N /\ \A k \in 1 .. N : k \in 0 .. N /\ k # 0
    BY <1>1
  <2>3. QED
    BY <2>1, <2>2
<1>9. \A k \in 0 .. N : after[k] \in A
  <2> DEFINE S == {k \in 0 .. N : after[k] \in A}
  <2>1. 0 \in S
    BY <1>1, <1>8
  <2>2. ASSUME NEW k \in 1 .. N, k - 1 \in S PROVE k \in S
    <3>1. after[k - 1] \in SUBSET SwitchesOf(file) /\ k \in 0 .. N
      BY <1>1, <2>2
    <3>2. Spread(after[k - 1]) \in SUBSET SwitchesOf(file)
      BY <3>1, SpreadType
    <3>3. QED
      BY <1>8, <3>1, <3>2
  <2> HIDE DEF S
  <2>3. 0 .. N \subseteq S
    BY <1>1, <2>1, <2>2, Induction
  <2>4. QED
    BY <2>3 DEF S
<1>10. after \in [0 .. N -> A]
  BY <1>6, <1>9
<1>11. Spreads(after, s)
  BY <1>8, <1>10 DEF Spreads
<1>12. QED
  BY <1>7, <1>11

(* A closed set of switches holds all that links join to any of them. *)
LEMMA JoinedWithin ==
  ASSUME Wired(file, net), IsFile(file), NEW s \in SwitchesOf(file), NEW V, s \in V, Closed(V)
  PROVE  Joined(s) \subseteq V
<1>1. PICK r : Spreads(r, s) /\ Joined(s) = r[file.switches]
  BY JoinedSteps
<1> DEFINE N == file.switches
           S == {k \in 0 .. N : r[k] \subseteq V}
<1>2. N \in Nat
  BY DEF IsFile
<1>3. 0 \in S
  BY <1>1, <1>2 DEF Spreads
<1>4. ASSUME NEW k \in 1 .. N, k - 1 \in S PROVE k \in S
  BY <1>1, <1>2, <1>4 DEF Spreads, Spread, Closed
<1>5. 0 .. N \subseteq S
  <2> HIDE DEF S
  <2>1. QED
    BY <1>2, <1>3, <1>4, Induction
<1>6. QED
  BY <1>1, <1>2, <1>5

(* They are closed: each spread adds a switch until nothing is added.      *)
LEMMA JoinedClosed ==
  ASSUME Wired(file, net), IsFile(file), NEW s \in SwitchesOf(file)
  PROVE  s \in Joined(s) /\ Joined(s) \subseteq SwitchesOf(file) /\ Closed(Joined(s))
<1>1. PICK r : Spreads(r, s) /\ Joined(s) = r[file.switches]
  BY JoinedSteps
<1> DEFINE N == file.switches
           Size(k) == Cardinality(r[k])
           S == {k \in 0 .. N : s \in r[k] /\ (Closed(r[k]) \/ k + 1 <= Size(k))}
<1>2. N \in Nat
  BY DEF IsFile
<1>3. ASSUME NEW k \in 0 .. N
      PROVE  r[k] \subseteq SwitchesOf(file) /\ IsFiniteSet(r[k]) /\ Size(k) \in Nat /\ Size(k) <= N
  <2>1. r[k] \subseteq SwitchesOf(file)
    BY <1>1, <1>3 DEF Spreads
  <2>2. IsFiniteSet(r[k]) /\ Cardinality(r[k]) <= Cardinality(SwitchesOf(file))
    BY <2>1, FiniteNodes, FS_Subset
  <2>3. QED
    BY <2>1, <2>2, FiniteNodes, FS_CardinalityType
<1>4. 0 \in S
  <2>1. r[0] = {s} /\ Cardinality({s}) = 1
    BY <1>1, FS_Singleton DEF Spreads
  <2>2. QED
    BY <1>2, <2>1
<1>5. ASSUME NEW k \in 1 .. N, k - 1 \in S PROVE k \in S
  <2>1. k \in 0 .. N /\ k - 1 \in 0 .. N /\ r[k] = Spread(r[k - 1]) /\ s \in r[k - 1]
    BY <1>1, <1>2, <1>5 DEF Spreads
  <2>2. r[k - 1] \subseteq r[k]
    BY <2>1 DEF Spread
  <2>3. CASE Closed(r[k - 1])
    <3>1. r[k] = r[k - 1]
      BY <2>1, <2>3 DEF Spread, Closed
    <3>2. QED
      BY <2>1, <2>3, <3>1
  <2>4. CASE ~Closed(r[k - 1])
    <3>1. k <= Size(k - 1)
      BY <1>5, <2>1, <2>4
    <3>2. r[k - 1] # r[k]
      BY <2>1, <2>4 DEF Spread, Closed
    <3>3. PICK t : t \in r[k] /\ t \notin r[k - 1]
      BY <2>2, <3>2
    <3>4. IsFiniteSet(r[k] \ {t}) /\ Cardinality(r[k] \ {t}) = Size(k) - 1
      BY <1>3, <2>1, <3>3, FS_RemoveElement
    <3>5. r[k - 1] \subseteq r[k] \ {t}
      BY <2>2, <3>3
    <3>6. Size(k - 1) <= Cardinality(r[k] \ {t})
      BY <3>4, <3>5, FS_Subset
    <3>7. Size(k) \in Nat /\ Size(k - 1) \in Nat
      BY <1>3, <2>1
    <3> HIDE DEF Size
    <3>8. k + 1 <= Size(k)
      BY <1>2, <3>1, <3>4, <3>6, <3>7
    <3>9. QED
      BY <2>1, <2>2, <3>8
  <2>5. QED
    BY <2>3, <2>4
<1>6. N \in S
  <2> HIDE DEF S
  <2>1. 0 .. N \subseteq S
    BY <1>2, <1>4, <1>5, Induction
  <2>2. QED
    BY <1>2, <2>1
<1>7. N \in 0 .. N
  BY <1>2
<1> HIDE DEF Size
<1>8. s \in r[N] /\ Closed(r[N])
  BY <1>2, <1>3, <1>6, <1>7
<1>9. QED
  BY <1>1, <1>3, <1>7, <1>8

-----------------------------------------------------------------------------
(* All the searches.                                                       *)

(* The pairs of a host and another that links join to it are linked. *)
Complete(g, d) ==
  \A b \in HostsOf(file) :
    b # g /\ net.home[b].switch \in Joined(net.home[g].switch) => <<g, b>> \in d.linked

LEMMA SearchFromHost ==
  ASSUME InPlace, IsFile(file), PlainNet(file, net), NEW d \in Searches, NEW h \in HostsOf(file), Sound(d)
  PROVE  LET new == DfsFromHostIndex(d, h)
         IN Sound(new) /\ d.linked \subseteq new.linked /\ Complete(h, new)
<1> DEFINE new == DfsFromHostIndex(d, h)
           c == CallFrom(d, h)
           found == Dfs[c]
<1>1. /\ c \in Calls /\ c.d.passed = <<>> /\ c.d.recorded = {}
      /\ c.d.linked = d.linked /\ c.d.entries = d.entries
  BY CallFromType
<1>2. c.host = h /\ c.switch = net.home[h].switch /\ c.in = net.home[h].port
  BY DEF CallFrom
<1>3. new = [found EXCEPT !.passed = <<>>] /\ new \in Searches
  BY DfsFromHostIndexType
<1> HIDE DEF c
<1>4. Ready(c)
  <2>1. Leads(c.switch, c.in, c.host)
    BY <1>2 DEF InPlace, Leads
  <2>2. Len(c.d.passed) = 0
    BY <1>1
  <2>3. Path(c.d.passed, c.host)
    BY <2>2 DEF Path
  <2>4. Sound(c.d)
    BY <1>1 DEF Sound
  <2>5. QED
    BY <1>1, <2>1, <2>2, <2>3, <2>4 DEF Ready
<1>5. Done(c, found)
  BY <1>1, <1>4, DfsDone
<1> HIDE DEF found, new
<1>6. /\ found \in Searches /\ Sound(found) /\ d.linked \subseteq found.linked
  BY <1>1, <1>5 DEF Done, Grown
<1>7. new.linked = found.linked /\ new.entries = found.entries
  BY <1>3, <1>6, SearchFields
<1>8. PICK V : Seen(c, V, Len(net.ports[c.switch]), found)
  BY <1>5 DEF Done
<1> DEFINE R == c.d.recorded \cup V \cup {c.switch}
<1>9. /\ V \in SUBSET SwitchesOf(file) /\ R = V \cup {c.switch} /\ c.switch \in SwitchesOf(file)
      /\ \A t \in R : \A q \in 1 .. Len(net.ports[t]) : Covered(c, R, found.linked, t, q)
  BY <1>1, <1>8, CallFields DEF Seen
<1> HIDE DEF R
<1>10. Closed(R)
  <2>1. ASSUME NEW t \in R PROVE Neighbours(t) \subseteq R
    <3>1. Ports(t) = 1 .. Len(net.ports[t])
      BY <1>9, PortsOf DEF InPlace
    <3>2. ASSUME NEW p \in Ports(t), net.ports[t][p].flag = 1 PROVE net.ports[t][p].node \in R
      <4>1. Covered(c, R, found.linked, t, p)
        BY <1>9, <3>1
      <4>2. QED
        BY <3>2, <4>1 DEF Covered
    <3>3. QED
      BY <3>2 DEF Neighbours
  <2>2. QED
    BY <2>1 DEF Closed
<1>11. Joined(c.switch) \subseteq R
  BY <1>9, <1>10, JoinedWithin DEF InPlace
<1>12. ASSUME NEW b \in HostsOf(file), b # h, net.home[b].switch \in Joined(net.home[h].switch)
       PROVE  <<h, b>> \in new.linked
  <2>1. LeadsToHost(file, net, net.home[b].switch, net.home[b].port, b)
    BY DEF InPlace
  <2>2. net.home[b].switch \in R
    BY <1>2, <1>11, <1>12
  <2>3. Covered(c, R, found.linked, net.home[b].switch, net.home[b].port)
    BY <1>9, <2>1, <2>2 DEF LeadsToHost
  <2>4. QED
    BY <1>2, <1>7, <1>12, <2>1, <2>3 DEF LeadsToHost, Covered
<1>13. QED
  BY <1>6, <1>7, <1>12 DEF Sound, Complete, new

(* When the loop counts no search as needed, every two hosts are linked.   *)
LEMMA AllLinked ==
  ASSUME IsFile(file), NEW d \in Searches, Sound(d), ~(LinkCounter(d) < file.hosts * (file.hosts - 1))
  PROVE  \A a, b \in HostsOf(file) : a # b => <<a, b>> \in d.linked
<1> DEFINE H == HostsOf(file)
           n == file.hosts
           Same == {pair \in H \X H : pair[1] = pair[2]}
           Pairs == (H \X H) \ Same
<1>1. n \in Nat /\ IsFiniteSet(H) /\ Cardinality(H) = n
  BY FiniteNodes DEF IsFile
<1>2. IsFiniteSet(H \X H) /\ Cardinality(H \X H) = n * n
  BY <1>1, FS_Product
<1>3. Cardinality(Same) = n
  <2> DEFINE f == [h \in H |-> <<h, h>>]
  <2>1. f \in [H -> Same] /\ \A a, b \in H : f[a] = f[b] => a = b
    OBVIOUS
  <2>2. \A t \in Same : \E h \in H : f[h] = t
    <3>1. ASSUME NEW t \in Same PROVE t[1] \in H /\ t = <<t[1], t[1]>>
      OBVIOUS
    <3>2. QED
      BY <3>1
  <2>3. f \in Bijection(H, Same)
    BY <2>1, <2>2, Zenon DEF Bijection, Injection, Surjection, IsInjective
  <2>4. ExistsBijection(H, Same)
    BY <2>3, Zenon DEF ExistsBijection
  <2> HIDE DEF H, Same
  <2>5. QED
    BY <1>1, <2>4, FS_Bijection
<1>4. IsFiniteSet(Pairs) /\ Cardinality(Pairs) = n * n - n
  <2>1. (H \X H) \cap Same = Same
    OBVIOUS
  <2> DEFINE P == H \X H
  <2>2. IsFiniteSet(P) /\ Cardinality(P) = n * n /\ P \cap Same = Same /\ Pairs = P \ Same
    BY <1>2, <2>1
  <2> HIDE DEF P, H, Same, Pairs
  <2>3. IsFiniteSet(P \ Same) /\ Cardinality(P \ Same) = Cardinality(P) - Cardinality(P \cap Same)
    BY <2>2, FS_Difference
  <2>4. QED
    BY <1>3, <2>2, <2>3
<1>5. d.linked \in SUBSET Pairs
  <2>1. d.linked \in SUBSET (H \X H)
    BY SearchFields
  <2>2. \A pair \in d.linked : pair \notin Same
    BY <2>1 DEF Sound
  <2>3. QED
    BY <2>1, <2>2
<1>6. {pair \in d.linked : pair[1] = pair[2]} = {}
  BY <1>5
<1>7. LinkCounter(d) = Cardinality(d.linked) + 0
  BY <1>6, FS_EmptySet DEF LinkCounter
<1> HIDE DEF Pairs
<1>8. /\ IsFiniteSet(d.linked) /\ Cardinality(d.linked) <= Cardinality(Pairs)
      /\ Cardinality(Pairs) = Cardinality(d.linked) => Pairs = d.linked
  BY <1>4, <1>5, FS_Subset
<1>9. Cardinality(d.linked) \in Nat
  BY <1>8, FS_CardinalityType
<1>10. Pairs = d.linked
  <2>1. n * (n - 1) = n * n - n /\ n * n \in Int /\ n * n - n \in Int
    BY <1>1
  <2> DEFINE c == Cardinality(d.linked)
  <2>2. ~(c < n * n - n) /\ c <= n * n - n /\ c \in Nat
    BY <1>4, <1>7, <1>8, <1>9, <2>1
  <2> HIDE DEF c
  <2>3. c = n * n - n
    <3>1. ASSUME NEW y \in Int, ~(c < y), c <= y PROVE c = y
      BY <2>2, <3>1
    <3>2. QED
      BY <2>1, <2>2, <3>1
  <2>4. QED
    BY <1>4, <1>8, <2>3 DEF c
<1>11. QED
  BY <1>10 DEF Pairs

(* All entries lead, and hosts that links join have entries at both homes. *)
LEMMA DefaultRouted ==
  ASSUME InPlace, IsFile(file), PlainNet(file, net)
  PROVE  /\ Routed(DefaultEntries)
         /\ \A a, b \in HostsOf(file) : a # b /\ net.home[b].switch \in Joined(net.home[a].switch) =>
              Has(DefaultEntries, net.home[a].switch, b) /\ Has(DefaultEntries, net.home[b].switch, a)
<1>1. PICK r : FromHosts(r) /\ DefaultEntries = r[file.hosts].entries
  BY DefaultEntriesSteps
<1> DEFINE N == file.hosts
           S == {k \in 0 .. N : Sound(r[k]) /\ \A g \in HostsOf(file) : g < k => Complete(g, r[k])}
<1>2. N \in Nat /\ HostsOf(file) = 0 .. N - 1
  BY DEF IsFile, HostsOf
<1>3. 0 \in S
  <2>1. r[0] = FirstSearch
    BY <1>1 DEF FromHosts
  <2>2. FirstSearch.linked = {} /\ \A s \in SwitchesOf(file) : FirstSearch.entries[s] = <<>>
    BY DEF FirstSearch
  <2>3. \A s \in SwitchesOf(file) : \A h, p : ~First(FirstSearch.entries, s, h, p)
    BY <2>2 DEF First, FirstEntry
  <2>4. Routed(FirstSearch.entries)
    <3> DEFINE rank == [s \in SwitchesOf(file) |-> [h \in HostsOf(file) |-> 0]]
    <3>1. rank \in Ranks /\ Below(rank, 0)
      BY DEF Ranks, Below
    <3>2. RoutedBy(FirstSearch.entries, rank)
      BY <2>3 DEF RoutedBy
    <3> HIDE DEF rank
    <3>3. QED
      BY <3>1, <3>2 DEF Routed
  <2>5. Sound(FirstSearch)
    BY <2>2, <2>4 DEF Sound
  <2>6. \A g \in HostsOf(file) : ~(g < 0)
    BY <1>2
  <2>7. QED
    BY <1>2, <2>1, <2>5, <2>6
<1>4. ASSUME NEW k \in 1 .. N, k - 1 \in S PROVE k \in S
  <2>1. k \in 0 .. N /\ k - 1 \in 0 .. N /\ k - 1 \in HostsOf(file)
    BY <1>2
  <2>2. /\ r[k - 1] \in Searches /\ Sound(r[k - 1])
        /\ \A g \in HostsOf(file) : g < k - 1 => Complete(g, r[k - 1])
        /\ r[k] = DfsWhileUnlinked(r[k - 1], k - 1)
    BY <1>1, <1>4, <2>1 DEF FromHosts
  <2>3. \A g \in HostsOf(file) : g < k => g < k - 1 \/ g = k - 1
    BY <1>2
  <2>4. CASE LinkCounter(r[k - 1]) < file.hosts * (file.hosts - 1)
    <3>1. r[k] = DfsFromHostIndex(r[k - 1], k - 1)
      BY <2>2, <2>4 DEF DfsWhileUnlinked
    <3>2. Sound(r[k]) /\ r[k - 1].linked \subseteq r[k].linked /\ Complete(k - 1, r[k])
      BY <2>1, <2>2, <3>1, SearchFromHost
    <3>3. \A g \in HostsOf(file) : Complete(g, r[k - 1]) => Complete(g, r[k])
      BY <3>2 DEF Complete
    <3>4. QED
      BY <2>1, <2>2, <2>3, <3>2, <3>3
  <2>5. CASE ~(LinkCounter(r[k - 1]) < file.hosts * (file.hosts - 1))
    <3>1. r[k] = r[k - 1]
      BY <2>2, <2>5 DEF DfsWhileUnlinked
    <3>2. \A g \in HostsOf(file) : Complete(g, r[k - 1])
      BY <2>2, <2>5, AllLinked DEF Complete
    <3>3. QED
      BY <2>1, <2>2, <3>1, <3>2
  <2>6. QED
    BY <2>4, <2>5
<1>5. N \in S
  <2> HIDE DEF S
  <2>1. 0 .. N \subseteq S
    BY <1>2, <1>3, <1>4, Induction
  <2>2. QED
    BY <1>2, <2>1
<1>6. Sound(r[N]) /\ \A g \in HostsOf(file) : Complete(g, r[N])
  BY <1>2, <1>5
<1> HIDE DEF N
<1>7. ASSUME NEW a \in HostsOf(file), NEW b \in HostsOf(file), a # b,
             net.home[b].switch \in Joined(net.home[a].switch)
      PROVE  Has(r[N].entries, net.home[a].switch, b) /\ Has(r[N].entries, net.home[b].switch, a)
  <2>1. <<a, b>> \in r[N].linked
    BY <1>6, <1>7 DEF Complete
  <2>2. <<b, a>> \in r[N].linked /\ Has(r[N].entries, net.home[a].switch, b)
    BY <1>6, <2>1 DEF Sound
  <2>3. Has(r[N].entries, net.home[b].switch, a)
    BY <1>6, <2>2 DEF Sound
  <2>4. QED
    BY <2>2, <2>3
<1>8. QED
  BY <1>1, <1>6, <1>7 DEF Sound, N

LEMMA JoinedStays ==
  ASSUME UNCHANGED <<program, net>>, NEW s
  PROVE  Joined(s)' = Joined(s)
<1>1. program' = program /\ net' = net
  OBVIOUS
<1>2. QED
  BY <1>1, SMT DEF Joined, Neighbours, Ports, file

-----------------------------------------------------------------------------
(* A generated topology.                                                   *)

(* What sequences put one after the other hold.                            *)
Flattening(seqs, r, S) ==
  /\ r \in [0 .. Len(seqs) -> Seq(S)]
  /\ r[0] = <<>>
  /\ \A i \in 1 .. Len(seqs) : r[i] = r[i - 1] \o seqs[i]

LEMMA FlattenSteps ==
  ASSUME NEW S, NEW seqs \in Seq(Seq(S))
  PROVE  \E r : Flattening(seqs, r, S) /\ FlattenSeq(seqs) = r[Len(seqs)]
<1> DEFINE N == Len(seqs)
           Turn(r) == [i \in 1 .. N |-> IF i = 1 THEN seqs[i] ELSE r[i - 1] \o seqs[i]]
           flatten == CHOOSE r : r = Turn(r)
           F == [x \in (1 .. N) \X Seq(S) |-> x[2] \o seqs[x[1]]]
<1>1. N \in Nat /\ <<>> \in Seq(S) /\ \A i \in 1 .. N : seqs[i] \in Seq(S)
  OBVIOUS
<1>2. F \in Steps(Seq(S), N)
  <2>1. \A x \in (1 .. N) \X Seq(S) : x[2] \o seqs[x[1]] \in Seq(S)
    BY <1>1
  <2>2. QED
    BY <2>1 DEF Steps
<1>3. PICK r : Iterates(r, Seq(S), <<>>, N, F)
  <2> HIDE DEF N, F
  <2>1. QED
    BY <1>1, <1>2, Recursion
<1>4. ASSUME NEW i \in 1 .. N PROVE r[i] = r[i - 1] \o seqs[i] /\ r[i - 1] \in Seq(S)
  <2>1. i - 1 \in 0 .. N
    BY <1>1
  <2>2. <<i, r[i - 1]>> \in (1 .. N) \X Seq(S)
    BY <1>3, <2>1 DEF Iterates
  <2>3. QED
    BY <1>3, <2>2 DEF Iterates
<1>5. Flattening(seqs, r, S)
  BY <1>3, <1>4 DEF Flattening, Iterates
<1>6. [i \in 1 .. N |-> r[i]] = Turn([i \in 1 .. N |-> r[i]])
  <2> DEFINE g == [i \in 1 .. N |-> r[i]]
  <2>1. ASSUME NEW i \in 1 .. N PROVE g[i] = IF i = 1 THEN seqs[i] ELSE g[i - 1] \o seqs[i]
    <3>1. CASE i = 1
      <4>1. r[i] = r[i - 1] \o seqs[i]
        BY <1>4
      <4>a. r[i - 1] = <<>>
        BY <1>3, <3>1 DEF Iterates
      <4>2. QED
        BY <1>1, <3>1, <4>1, <4>a
    <3>2. CASE i # 1
      <4>1. i - 1 \in 1 .. N
        BY <1>1, <3>2
      <4>2. QED
        BY <1>4, <3>2, <4>1
    <3>3. QED
      BY <3>1, <3>2
  <2>2. QED
    BY <2>1
<1>7. flatten = Turn(flatten)
  <2> HIDE DEF Turn
  <2>1. QED
    BY <1>6
<1>8. \A i \in 1 .. N : flatten[i] = IF i = 1 THEN seqs[i] ELSE flatten[i - 1] \o seqs[i]
  <2> HIDE DEF flatten
  <2>1. QED
    BY <1>7
<1>9. FlattenSeq(seqs) = IF N = 0 THEN seqs ELSE flatten[N]
  BY DEF FlattenSeq
<1> HIDE DEF flatten
<1>10. ASSUME NEW i \in 1 .. N PROVE flatten[i] = r[i]
  <2> DEFINE T == {k \in 0 .. N : k = 0 \/ flatten[k] = r[k]}
  <2>1. 0 \in T
    BY <1>1
  <2>2. ASSUME NEW k \in 1 .. N, k - 1 \in T PROVE k \in T
    <3>1. CASE k = 1
      <4>1. r[k] = r[k - 1] \o seqs[k]
        BY <1>4
      <4>a. r[k - 1] = <<>>
        BY <1>3, <3>1 DEF Iterates
      <4>2. QED
        BY <1>1, <1>8, <3>1, <4>1, <4>a
    <3>2. CASE k # 1
      <4>1. k - 1 \in 1 .. N /\ flatten[k - 1] = r[k - 1]
        BY <1>1, <2>2, <3>2
      <4>2. flatten[k] = flatten[k - 1] \o seqs[k] /\ r[k] = r[k - 1] \o seqs[k]
        BY <1>4, <1>8, <3>2
      <4>3. k \in 0 .. N /\ flatten[k] = r[k]
        <5> HIDE DEF N, T
        <5>1. QED
          BY <1>1, <4>1, <4>2
      <4>4. QED
        BY <4>3
    <3>3. QED
      BY <3>1, <3>2
  <2> HIDE DEF T
  <2>3. 0 .. N \subseteq T
    BY <1>1, <2>1, <2>2, Induction
  <2>4. QED
    BY <2>3 DEF T
<1>11. FlattenSeq(seqs) = r[N]
  <2>1. CASE N = 0
    <3>1. seqs = <<>>
      BY <2>1
    <3>2. r[0] = <<>>
      BY <1>5 DEF Flattening
    <3>3. QED
      BY <1>9, <2>1, <3>1, <3>2
  <2>2. CASE N # 0
    BY <1>1, <1>9, <1>10, <2>2
  <2>3. QED
    BY <2>1, <2>2
<1>12. QED
  BY <1>5, <1>11

In(x, s) == \E k \in 1 .. Len(s) : s[k] = x

LEMMA InConcatenation ==
  ASSUME NEW S, NEW a \in Seq(S), NEW b \in Seq(S), NEW x
  PROVE  In(x, a \o b) <=> In(x, a) \/ In(x, b)
<1>1. /\ Len(a) \in Nat /\ Len(b) \in Nat /\ Len(a \o b) = Len(a) + Len(b)
      /\ \A k \in 1 .. Len(a) : (a \o b)[k] = a[k]
      /\ \A k \in Len(a) + 1 .. Len(a) + Len(b) : (a \o b)[k] = b[k - Len(a)]
  OBVIOUS
<1> DEFINE c == a \o b
<1>2. /\ Len(a) \in Nat /\ Len(b) \in Nat /\ Len(c) = Len(a) + Len(b)
      /\ \A k \in 1 .. Len(a) : c[k] = a[k]
      /\ \A k \in Len(a) + 1 .. Len(a) + Len(b) : c[k] = b[k - Len(a)]
  BY <1>1
<1> HIDE DEF c
<1>3. ASSUME In(x, c) PROVE In(x, a) \/ In(x, b)
  <2>1. PICK k \in 1 .. Len(c) : c[k] = x
    BY <1>3 DEF In
  <2>2. k \in 1 .. Len(a) \/ (k \in Len(a) + 1 .. Len(a) + Len(b) /\ k - Len(a) \in 1 .. Len(b))
    BY <1>2
  <2>3. QED
    BY <1>2, <2>1, <2>2 DEF In
<1>4. ASSUME In(x, a) PROVE In(x, c)
  <2>1. PICK k \in 1 .. Len(a) : a[k] = x
    BY <1>4 DEF In
  <2>2. k \in 1 .. Len(c) /\ c[k] = x
    BY <1>2, <2>1
  <2>3. QED
    BY <2>2 DEF In
<1>5. ASSUME In(x, b) PROVE In(x, c)
  <2>1. PICK k \in 1 .. Len(b) : b[k] = x
    BY <1>5 DEF In
  <2>2. Len(a) + k \in Len(a) + 1 .. Len(a) + Len(b) /\ (Len(a) + k) - Len(a) = k
    BY <1>2
  <2>3. Len(a) + k \in 1 .. Len(c) /\ c[Len(a) + k] = x
    BY <1>2, <2>1, <2>2
  <2>4. QED
    BY <2>3 DEF In
<1>6. QED
  BY <1>3, <1>4, <1>5 DEF c

LEMMA FlattenHolds ==
  ASSUME NEW S, NEW seqs \in Seq(Seq(S))
  PROVE  /\ FlattenSeq(seqs) \in Seq(S)
         /\ \A x : In(x, FlattenSeq(seqs)) <=> \E i \in 1 .. Len(seqs) : In(x, seqs[i])
<1> DEFINE N == Len(seqs)
<1>1. N \in Nat /\ \A i \in 1 .. N : seqs[i] \in Seq(S)
  OBVIOUS
<1>2. PICK r : Flattening(seqs, r, S) /\ FlattenSeq(seqs) = r[N]
  BY FlattenSteps
<1>3. FlattenSeq(seqs) \in Seq(S)
  BY <1>1, <1>2 DEF Flattening
<1>4. ASSUME NEW x PROVE In(x, r[N]) <=> \E i \in 1 .. N : In(x, seqs[i])
  <2> DEFINE T == {k \in 0 .. N : In(x, r[k]) <=> \E i \in 1 .. k : In(x, seqs[i])}
  <2>1. 0 \in T
    <3>1. ~In(x, r[0])
      <4>1. r[0] = <<>> /\ Len(<<>>) = 0
        BY <1>2 DEF Flattening
      <4>2. QED
        BY <4>1 DEF In
    <3>2. QED
      BY <1>1, <3>1
  <2>2. ASSUME NEW k \in 1 .. N, k - 1 \in T PROVE k \in T
    <3>1. k - 1 \in 0 .. N /\ k \in 0 .. N
      BY <1>1
    <3>2. r[k - 1] \in Seq(S) /\ r[k] = r[k - 1] \o seqs[k]
      BY <1>2, <3>1 DEF Flattening
    <3>3. In(x, r[k]) <=> In(x, r[k - 1]) \/ In(x, seqs[k])
      BY <1>1, <3>2, InConcatenation
    <3>4. (\E i \in 1 .. k : In(x, seqs[i])) <=> (\E i \in 1 .. k - 1 : In(x, seqs[i])) \/ In(x, seqs[k])
      <4>1. \A i : i \in 1 .. k <=> i \in 1 .. k - 1 \/ i = k
        BY <1>1
      <4>2. QED
        BY <4>1
    <3>5. QED
      BY <2>2, <3>1, <3>3, <3>4
  <2> HIDE DEF T
  <2>3. 0 .. N \subseteq T
    BY <1>1, <2>1, <2>2, Induction
  <2>4. QED
    BY <1>1, <2>3 DEF T
<1>5. QED
  BY <1>2, <1>3, <1>4

LEMMA FlattenLength ==
  ASSUME NEW S, NEW seqs \in Seq(Seq(S)), NEW sum \in [0 .. Len(seqs) -> Nat], sum[0] = 0,
         \A i \in 1 .. Len(seqs) : sum[i] = sum[i - 1] + Len(seqs[i])
  PROVE  Len(FlattenSeq(seqs)) = sum[Len(seqs)]
<1> DEFINE N == Len(seqs)
<1>1. N \in Nat /\ \A i \in 1 .. N : seqs[i] \in Seq(S)
  OBVIOUS
<1>2. PICK r : Flattening(seqs, r, S) /\ FlattenSeq(seqs) = r[N]
  BY FlattenSteps
<1> DEFINE T == {k \in 0 .. N : Len(r[k]) = sum[k]}
<1>3. 0 \in T
  <2>1. r[0] = <<>> /\ Len(<<>>) = 0
    BY <1>2 DEF Flattening
  <2>2. QED
    BY <1>1, <2>1
<1>4. ASSUME NEW k \in 1 .. N, k - 1 \in T PROVE k \in T
  <2>1. k - 1 \in 0 .. N /\ k \in 0 .. N
    BY <1>1
  <2>2. r[k - 1] \in Seq(S) /\ r[k] = r[k - 1] \o seqs[k]
    BY <1>2, <2>1 DEF Flattening
  <2>3. Len(r[k]) = Len(r[k - 1]) + Len(seqs[k])
    BY <1>1, <2>2
  <2>4. QED
    BY <1>4, <2>1, <2>3
<1>5. QED
  <2> HIDE DEF T
  <2>1. 0 .. N \subseteq T
    BY <1>1, <1>3, <1>4, Induction
  <2>2. QED
    BY <1>1, <1>2, <2>1 DEF T

(* A tree: its pods, and the starts that its core switches drew.           *)
AnyLinks == {Link(a, x, b, y) : a \in Nat, x \in {"s", "h"}, b \in Nat, y \in {"s", "h"}}

IsTree(P, starts) ==
  /\ P \in Nat /\ (P = 1 \/ P % 2 = 0)
  /\ starts \in [0 .. CoreNum(P) - 1 -> 0 .. Half(P) - 1]

LEMMA TreeNumbers ==
  ASSUME NEW P, NEW starts, IsTree(P, starts)
  PROVE  /\ Half(P) \in Nat /\ CoreNum(P) \in Nat
         /\ CoreNum(P) = Half(P) * Half(P) /\ P * Half(P) = 2 * CoreNum(P)
         /\ Half(P) > 0 => P >= 2 /\ CoreNum(P) > 0 /\ CoreNum(P) >= Half(P)
         /\ \A c \in 0 .. CoreNum(P) - 1 : starts[c] \in 0 .. Half(P) - 1
<1> DEFINE H == Half(P)
<1>1. P \in Nat /\ (P = 2 * H \/ (P = 1 /\ H = 0)) /\ H \in Nat
  BY DEF IsTree, Half
<1>2. CoreNum(P) = H * H
  BY DEF CoreNum
<1> HIDE DEF H
<1>3. P * H = 2 * (H * H)
  BY <1>1
<1>4. H * H \in Nat /\ (H > 0 => H * H > 0 /\ H * H >= H /\ P >= 2)
  BY <1>1
<1>5. \A c \in 0 .. CoreNum(P) - 1 : starts[c] \in 0 .. Half(P) - 1
  BY DEF IsTree
<1>6. QED
  BY <1>1, <1>2, <1>3, <1>4, <1>5 DEF H

LEMMA LinkedAggrIn ==
  ASSUME NEW P, NEW starts, IsTree(P, starts), NEW c \in 0 .. CoreNum(P) - 1, NEW i \in Nat
  PROVE  LinkedAggr(P, starts[c], i) \in 0 .. Half(P) - 1
<1>1. Half(P) \in Nat /\ starts[c] \in 0 .. Half(P) - 1
  BY TreeNumbers
<1>2. starts[c] + i + 1 \in Nat /\ Half(P) > 0
  BY <1>1
<1> HIDE DEF Half
<1>3. QED
  BY <1>1, <1>2 DEF LinkedAggr

(* The links of an aggregation switch to core switches, up to one of them. *)
Uppers(P, starts, i, j, n) == {c \in 0 .. n - 1 : LinkedAggr(P, starts[c], i) = j}
CoreLinksUpto(P, starts, i, j, n, s) ==
  /\ s \in Seq(AnyLinks)
  /\ Len(s) = Cardinality(Uppers(P, starts, i, j, n))
  /\ \A x : In(x, s) <=> \E c \in Uppers(P, starts, i, j, n) : x = Link(AggrIndex(P, i, j), "s", c, "s")

LEMMA CoreLinksHold ==
  ASSUME NEW P, NEW starts, IsTree(P, starts), NEW i \in Nat, NEW j \in Nat
  PROVE  CoreLinksUpto(P, starts, i, j, CoreNum(P), CoreLinks(P, starts, i, j))
<1> DEFINE N == CoreNum(P)
           L(c) == Link(AggrIndex(P, i, j), "s", c, "s")
           Is(c) == LinkedAggr(P, starts[c], i) = j
           Turn(r) == [c \in 0 .. N |-> IF c = 0 THEN <<>>
                                        ELSE IF Is(c - 1) THEN Append(r[c - 1], L(c - 1))
                                        ELSE r[c - 1]]
           after == CHOOSE r : r = Turn(r)
           F == [x \in (1 .. N) \X Seq(AnyLinks) |-> IF Is(x[1] - 1) THEN Append(x[2], L(x[1] - 1)) ELSE x[2]]
<1>1. N \in Nat /\ <<>> \in Seq(AnyLinks)
  BY TreeNumbers
<1>a. AggrIndex(P, i, j) \in Nat
  <2>1. Half(P) \in Nat /\ CoreNum(P) \in Nat
    BY TreeNumbers
  <2>2. i * Half(P) \in Nat
    BY <2>1
  <2>3. QED
    BY <2>1, <2>2 DEF AggrIndex
<1>b. \A c \in 0 .. N - 1 : L(c) \in AnyLinks
  BY <1>1, <1>a DEF AnyLinks
<1> HIDE DEF N, L, Is
<1>2. F \in Steps(Seq(AnyLinks), N)
  <2>1. ASSUME NEW x \in (1 .. N) \X Seq(AnyLinks)
        PROVE  (IF Is(x[1] - 1) THEN Append(x[2], L(x[1] - 1)) ELSE x[2]) \in Seq(AnyLinks)
    <3>1. x[2] \in Seq(AnyLinks) /\ x[1] - 1 \in 0 .. N - 1
      BY <1>1
    <3>2. QED
      BY <1>b, <3>1
  <2>2. QED
    BY <2>1 DEF Steps
<1>3. PICK r : Iterates(r, Seq(AnyLinks), <<>>, N, F)
  <2> HIDE DEF F
  <2>1. QED
    BY <1>1, <1>2, Recursion
<1>4. \A k \in 1 .. N : r[k] = IF Is(k - 1) THEN Append(r[k - 1], L(k - 1)) ELSE r[k - 1]
  <2>1. ASSUME NEW k \in 1 .. N
        PROVE  r[k] = IF Is(k - 1) THEN Append(r[k - 1], L(k - 1)) ELSE r[k - 1]
    <3>1. k - 1 \in 0 .. N
      BY <1>1
    <3>2. <<k, r[k - 1]>> \in (1 .. N) \X Seq(AnyLinks)
      BY <1>3, <3>1 DEF Iterates
    <3>3. QED
      BY <1>3, <3>2 DEF Iterates
  <2>2. QED
    BY <2>1
<1>5. r = Turn(r)
  <2>1. r \in [0 .. N -> Seq(AnyLinks)] /\ r[0] = <<>>
    BY <1>3 DEF Iterates
  <2>2. \A c \in 0 .. N : c # 0 => c \in 1 .. N
    BY <1>1
  <2>3. \A c \in 0 .. N : r[c] = Turn(r)[c]
    BY <1>4, <2>1, <2>2
  <2>4. QED
    BY <2>1, <2>3
<1>6. after = Turn(after)
  BY <1>5
<1>7. CoreLinks(P, starts, i, j) = after[N]
  BY DEF CoreLinks, N, L, Is
<1> HIDE DEF after
<1>8. after[0] = <<>> /\ \A c \in 1 .. N : after[c] = IF Is(c - 1) THEN Append(after[c - 1], L(c - 1)) ELSE after[c - 1]
  <2>1. \A c \in 0 .. N : after[c] = IF c = 0 THEN <<>>
                                   ELSE IF Is(c - 1) THEN Append(after[c - 1], L(c - 1)) ELSE after[c - 1]
    BY <1>6
  <2>2. 0 \in 0 .. N /\ \A c \in 1 .. N : c \in 0 .. N /\ c # 0
    BY <1>1
  <2>3. QED
    BY <2>1, <2>2
<1> DEFINE U(n) == Uppers(P, starts, i, j, n)
           G(n, s) == /\ s \in Seq(AnyLinks) /\ Len(s) = Cardinality(U(n))
                      /\ \A x : In(x, s) <=> \E c \in U(n) : x = L(c)
           T == {n \in 0 .. N : G(n, after[n])}
<1>9. 0 \in T
  <2>1. U(0) = {} /\ Cardinality({}) = 0
    BY FS_EmptySet DEF Uppers
  <2>2. Len(<<>>) = 0 /\ \A x : ~In(x, <<>>)
    BY DEF In
  <2>3. G(0, <<>>)
    BY <1>1, <2>1, <2>2
  <2>4. QED
    <3> HIDE DEF G
    <3>1. 0 \in 0 .. N
      BY <1>1
    <3>2. QED
      BY <1>8, <2>3, <3>1
<1>10. ASSUME NEW n \in 1 .. N, n - 1 \in T PROVE n \in T
  <2>1. n - 1 \in 0 .. N - 1 /\ n \in 0 .. N /\ (n - 1) + 1 = n
    BY <1>1
  <2>2. G(n - 1, after[n - 1])
    BY <1>10
  <2>3. \A c : c \in 0 .. n - 1 <=> c \in 0 .. (n - 1) - 1 \/ c = n - 1
    BY <1>1
  <2>4. CASE ~Is(n - 1)
    <3>1. U(n) = U(n - 1)
      BY <2>3, <2>4 DEF Uppers, Is
    <3>2. after[n] = after[n - 1]
      BY <1>8, <2>4
    <3>3. G(n, after[n])
      BY <2>2, <3>1, <3>2
    <3>4. QED
      BY <2>1, <3>3
  <2>5. CASE Is(n - 1)
    <3>1. U(n) = U(n - 1) \cup {n - 1} /\ n - 1 \notin U(n - 1)
      BY <1>1, <2>3, <2>5 DEF Uppers, Is
    <3>2. IsFiniteSet(U(n - 1))
      <4>1. IsFiniteSet(0 .. (n - 1) - 1)
        BY <1>1, FS_Interval
      <4>2. QED
        BY <4>1, FS_Subset DEF Uppers
    <3>3. Cardinality(U(n)) = Cardinality(U(n - 1)) + 1
      BY <3>1, <3>2, FS_AddElement
    <3>4. after[n] = Append(after[n - 1], L(n - 1)) /\ L(n - 1) \in AnyLinks
      BY <1>8, <1>b, <2>1, <2>5
    <3> DEFINE s == after[n - 1]
               z == L(n - 1)
    <3>5. s \in Seq(AnyLinks) /\ Len(s) = Cardinality(U(n - 1))
      BY <2>2
    <3> HIDE DEF s, z, T, U
    <3>6. Append(s, z) \in Seq(AnyLinks) /\ Len(Append(s, z)) = Len(s) + 1
      BY <3>4, <3>5 DEF s, z
    <3>7. ASSUME NEW x PROVE In(x, Append(s, z)) <=> In(x, s) \/ x = z
      <4>1. <<z>> \in Seq(AnyLinks) /\ Append(s, z) = s \o <<z>>
        BY <3>4, <3>5 DEF z
      <4>2. In(x, <<z>>) <=> x = z
        BY DEF In
      <4>3. In(x, s \o <<z>>) <=> In(x, s) \/ In(x, <<z>>)
        BY <3>5, <4>1, InConcatenation
      <4>4. QED
        BY <4>1, <4>2, <4>3
    <3>8. \A x : (\E c \in U(n) : x = L(c)) <=> (\E c \in U(n - 1) : x = L(c)) \/ x = z
      BY <3>1 DEF z
    <3>9. after[n] = Append(s, z) /\ \A x : In(x, s) <=> \E c \in U(n - 1) : x = L(c)
      BY <2>2, <3>4 DEF s, z
    <3>10. G(n, after[n])
      BY <3>3, <3>5, <3>6, <3>7, <3>8, <3>9
    <3>11. QED
      BY <2>1, <3>10 DEF T
  <2>6. QED
    BY <2>4, <2>5
<1>11. G(N, after[N])
  <2> HIDE DEF G
  <2>1. 0 \in T /\ (\A n \in 1 .. N : n - 1 \in T => n \in T)
    BY <1>9, <1>10
  <2> HIDE DEF T
  <2>2. 0 .. N \subseteq T
    BY <1>1, <2>1, Induction
  <2>3. QED
    BY <1>1, <2>2 DEF T
<1>12. QED
  BY <1>7, <1>11 DEF CoreLinksUpto, N, L

(* The lists of the switches of all pods, one after the other.             *)
PodLines(H, lists) == FlattenSeq([j \in 1 .. H |-> lists[j - 1]])
TreeLines(P, H, lists) == FlattenSeq([i \in 1 .. P |-> PodLines(H, lists[i - 1])])

ListsOf(P, H, S) == [0 .. P - 1 -> [0 .. H - 1 -> Seq(S)]]
InSome(P, H, lists, x) == \E i \in 0 .. P - 1, j \in 0 .. H - 1 : In(x, lists[i][j])

LEMMA TreeLinesHold ==
  ASSUME NEW P \in Nat, NEW H \in Nat, NEW S, NEW lists \in ListsOf(P, H, S)
  PROVE  /\ TreeLines(P, H, lists) \in Seq(S)
         /\ \A x : In(x, TreeLines(P, H, lists)) <=> InSome(P, H, lists, x)
         /\ \A m \in Nat : (\A i \in 0 .. P - 1 : Len(PodLines(H, lists[i])) = m)
                             => Len(TreeLines(P, H, lists)) = P * m
<1>a. lists \in [0 .. P - 1 -> [0 .. H - 1 -> Seq(S)]]
  BY DEF ListsOf
<1> DEFINE pods == [i \in 1 .. P |-> PodLines(H, lists[i - 1])]
<1>1. ASSUME NEW i \in 0 .. P - 1
      PROVE  /\ PodLines(H, lists[i]) \in Seq(S)
             /\ \A x : In(x, PodLines(H, lists[i])) <=> \E j \in 0 .. H - 1 : In(x, lists[i][j])
  <2> DEFINE list == [j \in 1 .. H |-> lists[i][j - 1]]
  <2>1. \A j \in 1 .. H : j - 1 \in 0 .. H - 1 /\ lists[i][j - 1] \in Seq(S)
    BY <1>a
  <2>2. list \in Seq(Seq(S)) /\ Len(list) = H /\ \A j \in 1 .. H : list[j] = lists[i][j - 1]
    BY <2>1
  <2> HIDE DEF list
  <2>3. /\ FlattenSeq(list) \in Seq(S)
        /\ \A x : In(x, FlattenSeq(list)) <=> \E j \in 1 .. H : In(x, list[j])
    BY <2>2, FlattenHolds
  <2>4. PodLines(H, lists[i]) = FlattenSeq(list)
    BY DEF PodLines, list
  <2>5. ASSUME NEW x PROVE (\E j \in 1 .. H : In(x, list[j])) <=> \E j \in 0 .. H - 1 : In(x, lists[i][j])
    <3>1. \A j \in 0 .. H - 1 : j + 1 \in 1 .. H /\ (j + 1) - 1 = j
      OBVIOUS
    <3>2. QED
      BY <2>1, <2>2, <3>1
  <2>6. QED
    BY <2>3, <2>4, <2>5
<1>2. \A i \in 1 .. P : i - 1 \in 0 .. P - 1 /\ PodLines(H, lists[i - 1]) \in Seq(S)
  BY <1>1
<1>3. pods \in Seq(Seq(S)) /\ Len(pods) = P /\ \A i \in 1 .. P : pods[i] = PodLines(H, lists[i - 1])
  BY <1>2
<1> HIDE DEF pods
<1>4. /\ FlattenSeq(pods) \in Seq(S)
      /\ \A x : In(x, FlattenSeq(pods)) <=> \E i \in 1 .. P : In(x, pods[i])
  BY <1>3, FlattenHolds
<1>5. TreeLines(P, H, lists) = FlattenSeq(pods)
  BY DEF TreeLines, pods
<1>6. ASSUME NEW x
      PROVE  (\E i \in 1 .. P : In(x, pods[i]))
                <=> \E i \in 0 .. P - 1, j \in 0 .. H - 1 : In(x, lists[i][j])
  <2>1. \A i \in 0 .. P - 1 : i + 1 \in 1 .. P /\ (i + 1) - 1 = i
    OBVIOUS
  <2>2. (\E i \in 1 .. P : In(x, pods[i])) <=> \E i \in 0 .. P - 1 : In(x, PodLines(H, lists[i]))
    BY <1>2, <1>3, <2>1
  <2>3. QED
    BY <1>1, <2>2
<1>7. ASSUME NEW m \in Nat, \A i \in 0 .. P - 1 : Len(PodLines(H, lists[i])) = m
      PROVE  Len(TreeLines(P, H, lists)) = P * m
  <2> DEFINE sum == [k \in 0 .. P |-> k * m]
  <2>1. sum \in [0 .. P -> Nat] /\ sum[0] = 0 /\ sum[P] = P * m
    <3>1. \A k \in 0 .. P : k * m \in Nat
      OBVIOUS
    <3>2. QED
      BY <3>1
  <2>2. ASSUME NEW k \in 1 .. P PROVE sum[k] = sum[k - 1] + Len(pods[k])
    <3>1. sum[k] = k * m /\ sum[k - 1] = (k - 1) * m
      OBVIOUS
    <3>2. Len(pods[k]) = m
      BY <1>2, <1>3, <1>7
    <3>3. k * m = (k - 1) * m + m
      OBVIOUS
    <3>4. QED
      BY <3>1, <3>2, <3>3
  <2> HIDE DEF sum
  <2>3. Len(FlattenSeq(pods)) = sum[P]
    BY <1>3, <2>1, <2>2, FlattenLength
  <2>4. QED
    BY <1>5, <2>1, <2>3
<1>8. QED
  BY <1>4, <1>5, <1>6, <1>7 DEF InSome

(* The links of every kind.                                                *)
DownLink(P, i, j, p) == Link(AggrIndex(P, i, j), "s", EdgeIndex(P, i, p), "s")
UpLink(P, starts, i, c) == Link(AggrIndex(P, i, LinkedAggr(P, starts[c], i)), "s", c, "s")
HostIndex(P, i, j, p) == 5 * CoreNum(P) + i * CoreNum(P) + j * Half(P) + p
HostLink(P, i, j, p) == Link(EdgeIndex(P, i, j), "s", HostIndex(P, i, j, p), "h")

LEMMA IndexType ==
  ASSUME NEW P, NEW starts, IsTree(P, starts), NEW i \in Nat, NEW j \in Nat, NEW p \in Nat
  PROVE  AggrIndex(P, i, j) \in Nat /\ EdgeIndex(P, i, j) \in Nat /\ HostIndex(P, i, j, p) \in Nat
<1>1. Half(P) \in Nat /\ CoreNum(P) \in Nat
  BY TreeNumbers
<1>2. i * Half(P) \in Nat /\ i * CoreNum(P) \in Nat /\ j * Half(P) \in Nat
  BY <1>1
<1> HIDE DEF Half, CoreNum
<1>3. QED
  BY <1>1, <1>2 DEF AggrIndex, EdgeIndex, HostIndex

AggrHas(P, starts, i, j, x) ==
  \/ \E p \in 0 .. Half(P) - 1 : x = DownLink(P, i, j, p)
  \/ \E c \in Uppers(P, starts, i, j, CoreNum(P)) : x = UpLink(P, starts, i, c)

LEMMA AggrLinksHold ==
  ASSUME NEW P, NEW starts, IsTree(P, starts), NEW i \in Nat, NEW j \in Nat
  PROVE  /\ AggrLinks(P, starts, i, j) \in Seq(AnyLinks)
         /\ Len(AggrLinks(P, starts, i, j)) =
              Half(P) + Cardinality(Uppers(P, starts, i, j, CoreNum(P)))
         /\ \A x : In(x, AggrLinks(P, starts, i, j)) <=> AggrHas(P, starts, i, j, x)
<1> DEFINE H == Half(P)
           downs == [p \in 1 .. H |-> DownLink(P, i, j, p - 1)]
           ups == CoreLinks(P, starts, i, j)
           U == Uppers(P, starts, i, j, CoreNum(P))
<1>1. H \in Nat
  BY TreeNumbers
<1>2. \A p \in Nat : DownLink(P, i, j, p) \in AnyLinks
  BY IndexType DEF DownLink, AnyLinks
<1> HIDE DEF H
<1>3. downs \in Seq(AnyLinks) /\ Len(downs) = H /\ \A p \in 1 .. H : downs[p] = DownLink(P, i, j, p - 1)
  BY <1>1, <1>2
<1>4. AggrLinks(P, starts, i, j) = downs \o ups
  BY DEF AggrLinks, H, DownLink
<1>5. /\ ups \in Seq(AnyLinks) /\ Len(ups) = Cardinality(U)
      /\ \A x : In(x, ups) <=> \E c \in U : x = Link(AggrIndex(P, i, j), "s", c, "s")
  BY CoreLinksHold DEF CoreLinksUpto
<1>6. \A c \in U : Link(AggrIndex(P, i, j), "s", c, "s") = UpLink(P, starts, i, c)
  BY DEF Uppers, UpLink
<1> HIDE DEF downs, ups
<1>7. ASSUME NEW x PROVE In(x, downs) <=> \E p \in 0 .. H - 1 : x = DownLink(P, i, j, p)
  <2>1. \A p \in 0 .. H - 1 : p + 1 \in 1 .. H /\ (p + 1) - 1 = p
    BY <1>1
  <2>2. \A p \in 1 .. H : p - 1 \in 0 .. H - 1
    BY <1>1
  <2>3. QED
    BY <1>3, <2>1, <2>2 DEF In
<1>8. \A x : In(x, downs \o ups) <=> In(x, downs) \/ In(x, ups)
  BY <1>3, <1>5, InConcatenation
<1>9. downs \o ups \in Seq(AnyLinks) /\ Len(downs \o ups) = H + Cardinality(U)
  BY <1>3, <1>5
<1>10. QED
  BY <1>4, <1>5, <1>6, <1>7, <1>8, <1>9 DEF H, AggrHas

LEMMA EdgeLinksHold ==
  ASSUME NEW P, NEW starts, IsTree(P, starts), NEW i \in Nat, NEW j \in Nat
  PROVE  /\ EdgeLinks(P, i, j) \in Seq(AnyLinks)
         /\ Len(EdgeLinks(P, i, j)) = Half(P)
         /\ \A p \in 1 .. Half(P) : EdgeLinks(P, i, j)[p] = HostLink(P, i, j, p - 1)
         /\ \A x : In(x, EdgeLinks(P, i, j)) <=> \E p \in 0 .. Half(P) - 1 : x = HostLink(P, i, j, p)
<1> DEFINE H == Half(P)
           list == [p \in 1 .. H |-> HostLink(P, i, j, p - 1)]
<1>1. H \in Nat /\ CoreNum(P) \in Nat
  BY TreeNumbers
<1>2. \A p \in Nat : HostLink(P, i, j, p) \in AnyLinks
  BY IndexType DEF HostLink, AnyLinks
<1>3. ASSUME NEW p \in 1 .. H
      PROVE  5 * CoreNum(P) + i * CoreNum(P) + j * Half(P) + p - 1 = HostIndex(P, i, j, p - 1)
  <2>1. i * CoreNum(P) \in Nat /\ j * Half(P) \in Nat
    BY <1>1
  <2>2. QED
    BY <1>1, <2>1 DEF HostIndex
<1> HIDE DEF H
<1>4. list \in Seq(AnyLinks) /\ Len(list) = H /\ \A p \in 1 .. H : list[p] = HostLink(P, i, j, p - 1)
  BY <1>1, <1>2
<1>5. EdgeLinks(P, i, j) = list
  BY <1>3 DEF EdgeLinks, H, HostLink
<1> HIDE DEF list
<1>6. ASSUME NEW x PROVE In(x, list) <=> \E p \in 0 .. H - 1 : x = HostLink(P, i, j, p)
  <2>1. \A p \in 0 .. H - 1 : p + 1 \in 1 .. H /\ (p + 1) - 1 = p
    BY <1>1
  <2>2. \A p \in 1 .. H : p - 1 \in 0 .. H - 1
    BY <1>1
  <2>3. QED
    BY <1>4, <2>1, <2>2 DEF In
<1>7. QED
  BY <1>4, <1>5, <1>6 DEF H

(* Numbers in rows: the place of the j-th in the i-th row.                 *)
LEMMA RowPlace ==
  ASSUME NEW P \in Nat, NEW H \in Nat, NEW i \in 0 .. P - 1, NEW j \in 0 .. H - 1
  PROVE  /\ i * H \in Nat /\ i * H + j \in 0 .. P * H - 1
         /\ \A k \in 0 .. P - 1, l \in 0 .. H - 1 : i * H + j = k * H + l => i = k /\ j = l
<1>1. i * H \in Nat
  OBVIOUS
<1>2. i * H + H <= P * H
  OBVIOUS
<1>3. ASSUME NEW k \in 0 .. P - 1, NEW l \in 0 .. H - 1, i * H + j = k * H + l PROVE i = k /\ j = l
  <2>1. CASE i < k
    <3>1. i * H + H <= k * H
      BY <2>1
    <3>2. QED
      BY <1>3, <3>1
  <2>2. CASE k < i
    <3>1. k * H + H <= i * H
      BY <2>2
    <3>2. QED
      BY <1>3, <3>1
  <2>3. CASE i = k
    BY <1>3, <2>3
  <2>4. QED
    BY <2>1, <2>2, <2>3
<1>4. QED
  BY <1>1, <1>2, <1>3

LEMMA RowsBelow ==
  ASSUME NEW i \in Nat, NEW k \in Nat, NEW m \in Nat, i < k
  PROVE  i * m \in Nat /\ k * m \in Nat /\ i * m + m <= k * m
OBVIOUS

(* Sequences of one length, put one after the other. *)
Rows(S, seqs, m) ==
  seqs \in Seq(Seq(S)) /\ m \in Nat /\ \A i \in 1 .. Len(seqs) : Len(seqs[i]) = m

LEMMA FlattenPlaces ==
  ASSUME NEW S, NEW seqs, NEW m, Rows(S, seqs, m),
         NEW i \in 0 .. Len(seqs) - 1, NEW k \in 1 .. m
  PROVE  /\ i * m + k \in 1 .. Len(seqs) * m
         /\ FlattenSeq(seqs)[i * m + k] = seqs[i + 1][k]
<1> USE DEF Rows
<1> DEFINE N == Len(seqs)
<1>1. N \in Nat /\ \A x \in 1 .. N : seqs[x] \in Seq(S)
  OBVIOUS
<1>2. PICK r : Flattening(seqs, r, S) /\ FlattenSeq(seqs) = r[N]
  BY FlattenSteps
<1> DEFINE Placed(n) == /\ Len(r[n]) = n * m
                        /\ i < n => r[n][i * m + k] = seqs[i + 1][k]
           T == {n \in 0 .. N : Placed(n)}
<1>3. 0 \in T
  <2>1. r[0] = <<>> /\ Len(<<>>) = 0 /\ ~(i < 0)
    BY <1>2 DEF Flattening
  <2>2. QED
    BY <1>1, <2>1
<1>4. ASSUME NEW n \in 1 .. N, n - 1 \in T PROVE n \in T
  <2> DEFINE a == r[n - 1]
             b == seqs[n]
  <2>1. n - 1 \in 0 .. N /\ n \in 0 .. N
    BY <1>1
  <2>2. a \in Seq(S) /\ b \in Seq(S) /\ r[n] = a \o b
    BY <1>1, <1>2, <2>1 DEF Flattening
  <2>3. Placed(n - 1) /\ Len(a) = (n - 1) * m /\ Len(b) = m
    BY <1>1, <1>4
  <2> HIDE DEF a, b
  <2> DEFINE base == (n - 1) * m
             top == n * m
  <2>4. base + m = top /\ base \in Nat /\ top \in Nat
    BY <1>1
  <2>a. Len(a) = base /\ Len(b) = m /\ i \in Nat /\ n \in Nat
    BY <1>1, <2>3
  <2>b. i < n - 1 => i * m + m <= base /\ i * m \in Nat
    BY <2>a, RowsBelow
  <2>c. i = n - 1 => i * m = base
    OBVIOUS
  <2> HIDE DEF base, top
  <2>d. Len(a \o b) = Len(a) + Len(b)
    BY <2>2
  <2>5. Len(r[n]) = top
    BY <2>2, <2>4, <2>a, <2>d
  <2>6. CASE i < n - 1
    <3> DEFINE x == i * m
               q == x + k
    <3>1. x + m <= base /\ x \in Nat
      BY <2>6, <2>b
    <3>3. q \in 1 .. Len(a)
      <4> HIDE DEF x
      <4>1. QED
        BY <2>4, <2>a, <3>1
    <3>4. (a \o b)[q] = a[q]
      <4> HIDE DEF q
      <4>1. q \in 1 .. Len(a)
        BY <3>3 DEF q
      <4>2. QED
        BY <2>2, <4>1
    <3>5. a[q] = seqs[i + 1][k]
      BY <2>3, <2>6 DEF a
    <3>6. Placed(n)
      BY <2>2, <2>5, <3>4, <3>5 DEF top
    <3>7. QED
      BY <2>1, <3>6
  <2>7. CASE i = n - 1
    <3> DEFINE x == i * m
               q == x + k
    <3>1. x \in Nat /\ x = Len(a) /\ i + 1 = n
      BY <2>4, <2>7, <2>a, <2>c
    <3>2. q \in Len(a) + 1 .. Len(a) + Len(b) /\ q - Len(a) = k
      <4> HIDE DEF x
      <4>1. QED
        BY <2>a, <3>1
    <3>3. (a \o b)[q] = b[k]
      <4> HIDE DEF q
      <4>1. QED
        BY <2>2, <3>2
    <3>4. Placed(n)
      BY <2>2, <2>5, <3>1, <3>3 DEF b, top
    <3>5. QED
      BY <2>1, <3>4
  <2>8. CASE n <= i
    <3>1. Placed(n)
      BY <2>5, <2>8, <2>a DEF top
    <3>2. QED
      BY <2>1, <3>1
  <2>9. QED
    BY <2>6, <2>7, <2>8, <2>a
<1>5. Placed(N)
  <2> HIDE DEF Placed
  <2>1. 0 \in T /\ (\A n \in 1 .. N : n - 1 \in T => n \in T)
    BY <1>3, <1>4
  <2> HIDE DEF T
  <2>2. 0 .. N \subseteq T
    BY <1>1, <2>1, Induction
  <2>3. QED
    BY <1>1, <2>2 DEF T
<1>6. i * m + k \in 1 .. N * m
  <2> DEFINE x == i * m
             y == N * m
  <2>1. x + m <= y /\ x \in Nat /\ y \in Nat
    <3>1. i \in Nat /\ i < N
      BY <1>1
    <3>2. QED
      BY <1>1, <3>1, RowsBelow
  <2> HIDE DEF x, y
  <2>2. x + k \in 1 .. y
    BY <2>1
  <2>3. QED
    BY <2>2 DEF x, y
<1>7. i < N
  BY <1>1
<1>8. QED
  BY <1>2, <1>5, <1>6, <1>7

(* How many links a pod's aggregation switches have. *)
LEMMA PodLength ==
  ASSUME NEW P, NEW starts, IsTree(P, starts), NEW i \in Nat,
         NEW list \in [0 .. Half(P) - 1 -> Seq(AnyLinks)],
         \A j \in 0 .. Half(P) - 1 : list[j] = AggrLinks(P, starts, i, j)
  PROVE  Len(PodLines(Half(P), list)) = 2 * CoreNum(P)
<1> DEFINE H == Half(P)
           C == CoreNum(P)
           Below_(j) == {c \in 0 .. C - 1 : LinkedAggr(P, starts[c], i) < j}
           sum == [j \in 0 .. H |-> j * H + Cardinality(Below_(j))]
           seqs == [j \in 1 .. H |-> list[j - 1]]
<1>1. H \in Nat /\ C \in Nat /\ C = H * H
  BY TreeNumbers
<1>2. \A c \in 0 .. C - 1 : LinkedAggr(P, starts[c], i) \in 0 .. H - 1
  BY LinkedAggrIn
<1> HIDE DEF H, C
<1>3. \A S \in SUBSET (0 .. C - 1) : IsFiniteSet(S) /\ Cardinality(S) \in Nat
  <2>1. IsFiniteSet(0 .. C - 1)
    BY <1>1, FS_Interval
  <2>2. QED
    BY <2>1, FS_Subset, FS_CardinalityType
<1>4. \A j \in 1 .. H : j - 1 \in 0 .. H - 1 /\ list[j - 1] \in Seq(AnyLinks)
  BY <1>1 DEF H
<1>5. seqs \in Seq(Seq(AnyLinks)) /\ Len(seqs) = H /\ \A j \in 1 .. H : seqs[j] = list[j - 1]
  BY <1>1, <1>4
<1>6. PodLines(Half(P), list) = FlattenSeq(seqs)
  BY DEF PodLines, H
<1>7. sum \in [0 .. H -> Nat]
  <2>1. ASSUME NEW j \in 0 .. H PROVE j * H + Cardinality(Below_(j)) \in Nat
    <3>1. j * H \in Nat
      BY <1>1
    <3>2. QED
      BY <1>3, <3>1
  <2>2. QED
    BY <2>1
<1>8. sum[0] = 0
  <2>1. Below_(0) = {} /\ Cardinality({}) = 0
    BY <1>1, <1>2, FS_EmptySet
  <2>2. 0 \in 0 .. H /\ 0 * H = 0
    BY <1>1
  <2>3. sum[0] = 0 * H + Cardinality(Below_(0))
    BY <2>2
  <2> HIDE DEF Below_, sum
  <2>4. Cardinality(Below_(0)) = 0
    BY <2>1, Zenon
  <2>5. QED
    BY <2>2, <2>3, <2>4
<1>9. ASSUME NEW j \in 1 .. H PROVE sum[j] = sum[j - 1] + Len(seqs[j])
  <2> DEFINE U == Uppers(P, starts, i, j - 1, C)
  <2>1. j \in 0 .. H /\ j - 1 \in 0 .. H /\ j - 1 \in 0 .. H - 1 /\ j - 1 \in Nat
    BY <1>1
  <2>2. Len(seqs[j]) = H + Cardinality(U)
    BY <1>5, <2>1, AggrLinksHold DEF H, C
  <2>3. Below_(j) = Below_(j - 1) \cup U /\ Below_(j - 1) \cap U = {}
    <3>1. \A c \in 0 .. C - 1 : /\ LinkedAggr(P, starts[c], i) < j <=>
                                     \/ LinkedAggr(P, starts[c], i) < j - 1
                                     \/ LinkedAggr(P, starts[c], i) = j - 1
                                /\ LinkedAggr(P, starts[c], i) < j - 1 => LinkedAggr(P, starts[c], i) # j - 1
      BY <1>1, <1>2
    <3>2. QED
      BY <3>1 DEF Uppers
  <2>4. U \in SUBSET (0 .. C - 1) /\ Below_(j - 1) \in SUBSET (0 .. C - 1)
    BY DEF Uppers
  <2>5. Cardinality(Below_(j)) = Cardinality(Below_(j - 1)) + Cardinality(U)
    <3> DEFINE b == Below_(j - 1)
    <3>1. IsFiniteSet(b) /\ IsFiniteSet(U) /\ Cardinality(b) \in Nat /\ Cardinality(U) \in Nat
      BY <1>3, <2>4
    <3>2. Below_(j) = b \cup U /\ b \cap U = {}
      BY <2>3
    <3>3. Cardinality(b \cup U) = Cardinality(b) + Cardinality(U) - Cardinality(b \cap U)
      BY <3>1, FS_Union
    <3>4. Cardinality({}) = 0
      BY FS_EmptySet
    <3> HIDE DEF b, U, Below_
    <3>5. Cardinality(b \cap U) = 0 /\ Cardinality(b \cup U) = Cardinality(Below_(j))
      BY <3>2, <3>4, Zenon
    <3>6. QED
      BY <3>1, <3>3, <3>5 DEF b
  <2>6. sum[j] = j * H + Cardinality(Below_(j)) /\ sum[j - 1] = (j - 1) * H + Cardinality(Below_(j - 1))
    BY <2>1
  <2>7. j * H = (j - 1) * H + H /\ (j - 1) * H \in Nat
    BY <1>1
  <2>8. Cardinality(U) \in Nat /\ Cardinality(Below_(j - 1)) \in Nat
    BY <1>3, <2>4
  <2> HIDE DEF U, Below_, sum, seqs
  <2>9. QED
    BY <1>1, <2>2, <2>5, <2>6, <2>7, <2>8
<1>10. sum[H] = 2 * C
  <2>1. Below_(H) = 0 .. C - 1
    BY <1>1, <1>2
  <2>2. Cardinality(0 .. C - 1) = C
    <3>1. Cardinality(0 .. C - 1) = IF 0 > C - 1 THEN 0 ELSE C - 1 - 0 + 1
      BY <1>1, FS_Interval
    <3>2. QED
      BY <1>1, <3>1
  <2>3. H \in 0 .. H /\ sum[H] = H * H + Cardinality(Below_(H))
    BY <1>1
  <2> HIDE DEF Below_, sum
  <2>4. Cardinality(Below_(H)) = C
    BY <2>1, <2>2, Zenon
  <2>5. QED
    BY <1>1, <2>3, <2>4
<1> HIDE DEF sum, seqs
<1>11. Len(FlattenSeq(seqs)) = sum[H]
  BY <1>5, <1>7, <1>8, <1>9, FlattenLength
<1>12. QED
  BY <1>6, <1>10, <1>11 DEF C

(* The links of the tree. *)
DownLinks(P) == {DownLink(P, i, j, p) : i \in 0 .. P - 1, j \in 0 .. Half(P) - 1, p \in 0 .. Half(P) - 1}
UpLinks(P, starts) == {UpLink(P, starts, i, c) : i \in 0 .. P - 1, c \in 0 .. CoreNum(P) - 1}
HostLinks(P) == {HostLink(P, i, j, p) : i \in 0 .. P - 1, j \in 0 .. Half(P) - 1, p \in 0 .. Half(P) - 1}
TreeLinks(P, starts) == DownLinks(P) \cup UpLinks(P, starts) \cup HostLinks(P)

AggrLines(P, starts) == PerSwitch(P, LAMBDA pod, j : AggrLinks(P, starts, pod, j))
EdgeLines(P) == PerSwitch(P, LAMBDA pod, j : EdgeLinks(P, pod, j))

LEMMA AggrLinesHold ==
  ASSUME NEW P, NEW starts, IsTree(P, starts)
  PROVE  /\ AggrLines(P, starts) \in Seq(AnyLinks)
         /\ Len(AggrLines(P, starts)) = P * (2 * CoreNum(P))
         /\ \A x : In(x, AggrLines(P, starts)) <=> x \in DownLinks(P) \/ x \in UpLinks(P, starts)
<1> DEFINE H == Half(P)
           lists == [i \in 0 .. P - 1 |-> [j \in 0 .. H - 1 |-> AggrLinks(P, starts, i, j)]]
<1>1. P \in Nat /\ H \in Nat /\ CoreNum(P) \in Nat
  BY TreeNumbers DEF IsTree
<1> HIDE DEF H
<1>2. /\ lists \in [0 .. P - 1 -> [0 .. H - 1 -> Seq(AnyLinks)]]
      /\ \A i \in 0 .. P - 1 : \A j \in 0 .. H - 1 : lists[i][j] = AggrLinks(P, starts, i, j)
  <2>1. \A i \in 0 .. P - 1, j \in 0 .. H - 1 : AggrLinks(P, starts, i, j) \in Seq(AnyLinks)
    <3>1. \A i \in 0 .. P - 1, j \in 0 .. H - 1 : i \in Nat /\ j \in Nat
      BY <1>1
    <3>2. QED
      BY <3>1, AggrLinksHold
  <2>2. QED
    BY <2>1
<1>3. AggrLines(P, starts) = TreeLines(P, H, lists)
  <2>1. ASSUME NEW i \in 1 .. P, NEW j \in 1 .. H PROVE AggrLinks(P, starts, i - 1, j - 1) = lists[i - 1][j - 1]
    <3>1. i - 1 \in 0 .. P - 1 /\ j - 1 \in 0 .. H - 1
      BY <1>1
    <3>2. QED
      BY <1>2, <3>1
  <2> HIDE DEF lists
  <2>2. ASSUME NEW i \in 1 .. P
        PROVE  [j \in 1 .. H |-> AggrLinks(P, starts, i - 1, j - 1)] = [j \in 1 .. H |-> lists[i - 1][j - 1]]
    BY <2>1
  <2>3. \A i \in 1 .. P : FlattenSeq([j \in 1 .. H |-> AggrLinks(P, starts, i - 1, j - 1)])
                            = FlattenSeq([j \in 1 .. H |-> lists[i - 1][j - 1]])
    BY <2>2, Zenon
  <2>4. [i \in 1 .. P |-> FlattenSeq([j \in 1 .. H |-> AggrLinks(P, starts, i - 1, j - 1)])]
           = [i \in 1 .. P |-> FlattenSeq([j \in 1 .. H |-> lists[i - 1][j - 1]])]
    BY <2>3, Zenon
  <2>5. QED
    BY <2>4, Zenon DEF AggrLines, PerSwitch, TreeLines, PodLines, H
<1> HIDE DEF lists
<1>4. ASSUME NEW i \in 0 .. P - 1 PROVE Len(PodLines(H, lists[i])) = 2 * CoreNum(P)
  <2>1. i \in Nat /\ lists[i] \in [0 .. Half(P) - 1 -> Seq(AnyLinks)]
    BY <1>1, <1>2 DEF H
  <2>2. \A j \in 0 .. Half(P) - 1 : lists[i][j] = AggrLinks(P, starts, i, j)
    BY <1>2 DEF H
  <2>3. QED
    BY <2>1, <2>2, PodLength DEF H
<1>5. /\ TreeLines(P, H, lists) \in Seq(AnyLinks)
      /\ \A x : In(x, TreeLines(P, H, lists)) <=> InSome(P, H, lists, x)
      /\ Len(TreeLines(P, H, lists)) = P * (2 * CoreNum(P))
  <2>1. 2 * CoreNum(P) \in Nat
    BY <1>1
  <2>2. /\ TreeLines(P, H, lists) \in Seq(AnyLinks)
        /\ \A x : In(x, TreeLines(P, H, lists)) <=> InSome(P, H, lists, x)
        /\ \A m \in Nat : (\A i \in 0 .. P - 1 : Len(PodLines(H, lists[i])) = m)
                            => Len(TreeLines(P, H, lists)) = P * m
    <3>1. lists \in ListsOf(P, H, AnyLinks)
      BY <1>2 DEF ListsOf
    <3>2. QED
      BY <1>1, <3>1, TreeLinesHold
  <2>3. QED
    BY <1>4, <2>1, <2>2
<1>6. ASSUME NEW x
      PROVE  InSome(P, H, lists, x) <=> x \in DownLinks(P) \/ x \in UpLinks(P, starts)
  <2>1. ASSUME NEW i \in 0 .. P - 1, NEW j \in 0 .. H - 1
        PROVE  In(x, lists[i][j]) <=>
                 \/ \E p \in 0 .. H - 1 : x = DownLink(P, i, j, p)
                 \/ \E c \in Uppers(P, starts, i, j, CoreNum(P)) : x = UpLink(P, starts, i, c)
    <3>1. i \in Nat /\ j \in Nat
      BY <1>1
    <3>2. In(x, AggrLinks(P, starts, i, j)) <=> AggrHas(P, starts, i, j, x)
      BY <3>1, AggrLinksHold
    <3>3. lists[i][j] = AggrLinks(P, starts, i, j)
      BY <1>2
    <3>4. QED
      BY <3>2, <3>3 DEF H, AggrHas
  <2>2. ASSUME NEW i \in 0 .. P - 1, NEW c \in 0 .. CoreNum(P) - 1
        PROVE  LinkedAggr(P, starts[c], i) \in 0 .. H - 1 /\ c \in Uppers(P, starts, i, LinkedAggr(P, starts[c], i), CoreNum(P))
    <3>1. i \in Nat
      BY <1>1
    <3>2. QED
      BY <3>1, LinkedAggrIn DEF Uppers, H
  <2>3. \A i, j : \A c \in Uppers(P, starts, i, j, CoreNum(P)) : c \in 0 .. CoreNum(P) - 1
    BY DEF Uppers
  <2>4. x \in DownLinks(P) <=> \E i \in 0 .. P - 1, j \in 0 .. H - 1, p \in 0 .. H - 1 : x = DownLink(P, i, j, p)
    BY DEF DownLinks, H
  <2>5. x \in UpLinks(P, starts) <=> \E i \in 0 .. P - 1, c \in 0 .. CoreNum(P) - 1 : x = UpLink(P, starts, i, c)
    BY DEF UpLinks
  <2>6. QED
    BY <2>1, <2>2, <2>3, <2>4, <2>5 DEF InSome
<1>7. QED
  BY <1>3, <1>5, <1>6

LEMMA EdgeLinesHold ==
  ASSUME NEW P, NEW starts, IsTree(P, starts)
  PROVE  /\ EdgeLines(P) \in Seq(AnyLinks)
         /\ Len(EdgeLines(P)) = P * CoreNum(P)
         /\ \A x : In(x, EdgeLines(P)) <=> x \in HostLinks(P)
         /\ \A i \in 0 .. P - 1, j \in 0 .. Half(P) - 1, p \in 0 .. Half(P) - 1 :
              EdgeLines(P)[i * CoreNum(P) + (j * Half(P) + (p + 1))] = HostLink(P, i, j, p)
<1> DEFINE H == Half(P)
           C == CoreNum(P)
           lists == [i \in 0 .. P - 1 |-> [j \in 0 .. H - 1 |-> EdgeLinks(P, i, j)]]
<1>1. P \in Nat /\ H \in Nat /\ C \in Nat /\ C = H * H
  BY TreeNumbers DEF IsTree
<1> HIDE DEF H, C
<1>2. /\ lists \in [0 .. P - 1 -> [0 .. H - 1 -> Seq(AnyLinks)]]
      /\ \A i \in 0 .. P - 1 : \A j \in 0 .. H - 1 : /\ lists[i][j] = EdgeLinks(P, i, j)
                                                     /\ Len(lists[i][j]) = H
  <2>1. \A i \in 0 .. P - 1, j \in 0 .. H - 1 : EdgeLinks(P, i, j) \in Seq(AnyLinks) /\ Len(EdgeLinks(P, i, j)) = H
    <3>1. \A i \in 0 .. P - 1, j \in 0 .. H - 1 : i \in Nat /\ j \in Nat
      BY <1>1
    <3>2. QED
      BY <3>1, EdgeLinksHold DEF H
  <2>2. QED
    BY <2>1
<1>3. EdgeLines(P) = TreeLines(P, H, lists)
  <2>1. ASSUME NEW i \in 1 .. P, NEW j \in 1 .. H PROVE EdgeLinks(P, i - 1, j - 1) = lists[i - 1][j - 1]
    <3>1. i - 1 \in 0 .. P - 1 /\ j - 1 \in 0 .. H - 1
      BY <1>1
    <3>2. QED
      BY <1>2, <3>1
  <2> HIDE DEF lists
  <2>2. ASSUME NEW i \in 1 .. P
        PROVE  [j \in 1 .. H |-> EdgeLinks(P, i - 1, j - 1)] = [j \in 1 .. H |-> lists[i - 1][j - 1]]
    BY <2>1
  <2>3. \A i \in 1 .. P : FlattenSeq([j \in 1 .. H |-> EdgeLinks(P, i - 1, j - 1)])
                            = FlattenSeq([j \in 1 .. H |-> lists[i - 1][j - 1]])
    BY <2>2, Zenon
  <2>4. [i \in 1 .. P |-> FlattenSeq([j \in 1 .. H |-> EdgeLinks(P, i - 1, j - 1)])]
           = [i \in 1 .. P |-> FlattenSeq([j \in 1 .. H |-> lists[i - 1][j - 1]])]
    BY <2>3, Zenon
  <2>5. QED
    BY <2>4, Zenon DEF EdgeLines, PerSwitch, TreeLines, PodLines, H
<1> HIDE DEF lists
<1>4. ASSUME NEW i \in 0 .. P - 1
      PROVE  /\ PodLines(H, lists[i]) \in Seq(AnyLinks)
             /\ Len(PodLines(H, lists[i])) = C
             /\ \A j \in 0 .. H - 1, p \in 0 .. H - 1 : PodLines(H, lists[i])[j * H + (p + 1)] = lists[i][j][p + 1]
  <2> DEFINE seqs == [j \in 1 .. H |-> lists[i][j - 1]]
  <2>1. \A j \in 1 .. H : j - 1 \in 0 .. H - 1 /\ lists[i][j - 1] \in Seq(AnyLinks)
    BY <1>1, <1>2
  <2>2. seqs \in Seq(Seq(AnyLinks)) /\ Len(seqs) = H /\ \A j \in 1 .. H : seqs[j] = lists[i][j - 1] /\ Len(seqs[j]) = H
    BY <1>1, <1>2, <2>1
  <2> HIDE DEF seqs
  <2>3. PodLines(H, lists[i]) = FlattenSeq(seqs)
    BY DEF PodLines, seqs
  <2>4. ASSUME NEW j \in 0 .. H - 1, NEW p \in 0 .. H - 1
        PROVE  FlattenSeq(seqs)[j * H + (p + 1)] = lists[i][j][p + 1]
    <3>1. p + 1 \in 1 .. H /\ j + 1 \in 1 .. H /\ (j + 1) - 1 = j /\ j \in 0 .. Len(seqs) - 1
      BY <1>1, <2>2
    <3>2. Rows(AnyLinks, seqs, H)
      BY <1>1, <2>2 DEF Rows
    <3>3. FlattenSeq(seqs)[j * H + (p + 1)] = seqs[j + 1][p + 1]
      BY <3>1, <3>2, FlattenPlaces
    <3>4. QED
      BY <2>2, <3>1, <3>3
  <2> DEFINE sum == [k \in 0 .. H |-> k * H]
  <2>5. sum \in [0 .. H -> Nat] /\ sum[0] = 0 /\ sum[H] = C
    <3>1. \A k \in 0 .. H : k * H \in Nat
      BY <1>1
    <3>2. QED
      BY <1>1, <3>1
  <2>6. ASSUME NEW k \in 1 .. H PROVE sum[k] = sum[k - 1] + Len(seqs[k])
    <3>1. sum[k] = k * H /\ sum[k - 1] = (k - 1) * H
      BY <1>1
    <3>2. k * H = (k - 1) * H + H
      BY <1>1
    <3>3. QED
      BY <2>2, <3>1, <3>2
  <2> HIDE DEF sum
  <2>7. Len(FlattenSeq(seqs)) = sum[H]
    BY <2>2, <2>5, <2>6, FlattenLength
  <2>8. FlattenSeq(seqs) \in Seq(AnyLinks)
    BY <2>2, FlattenHolds
  <2>9. QED
    BY <2>3, <2>4, <2>5, <2>7, <2>8
<1>5. /\ TreeLines(P, H, lists) \in Seq(AnyLinks)
      /\ \A x : In(x, TreeLines(P, H, lists)) <=> InSome(P, H, lists, x)
      /\ Len(TreeLines(P, H, lists)) = P * C
  <2>1. /\ TreeLines(P, H, lists) \in Seq(AnyLinks)
        /\ \A x : In(x, TreeLines(P, H, lists)) <=> InSome(P, H, lists, x)
        /\ \A m \in Nat : (\A i \in 0 .. P - 1 : Len(PodLines(H, lists[i])) = m)
                            => Len(TreeLines(P, H, lists)) = P * m
    <3>1. lists \in ListsOf(P, H, AnyLinks)
      BY <1>2 DEF ListsOf
    <3>2. QED
      BY <1>1, <3>1, TreeLinesHold
  <2>2. QED
    BY <1>1, <1>4, <2>1
<1>6. ASSUME NEW x
      PROVE  InSome(P, H, lists, x) <=> x \in HostLinks(P)
  <2>1. ASSUME NEW i \in 0 .. P - 1, NEW j \in 0 .. H - 1
        PROVE  In(x, lists[i][j]) <=> \E p \in 0 .. H - 1 : x = HostLink(P, i, j, p)
    <3>1. i \in Nat /\ j \in Nat
      BY <1>1
    <3>2. QED
      BY <1>2, <3>1, EdgeLinksHold DEF H
  <2>2. x \in HostLinks(P) <=> \E i \in 0 .. P - 1, j \in 0 .. H - 1, p \in 0 .. H - 1 : x = HostLink(P, i, j, p)
    BY DEF HostLinks, H
  <2>3. QED
    BY <2>1, <2>2 DEF InSome
<1>7. ASSUME NEW i \in 0 .. P - 1, NEW j \in 0 .. H - 1, NEW p \in 0 .. H - 1
      PROVE  TreeLines(P, H, lists)[i * C + (j * H + (p + 1))] = HostLink(P, i, j, p)
  <2> DEFINE seqs == [k \in 1 .. P |-> PodLines(H, lists[k - 1])]
             q == j * H + (p + 1)
  <2>1. \A k \in 1 .. P : k - 1 \in 0 .. P - 1
    BY <1>1
  <2>2. /\ seqs \in Seq(Seq(AnyLinks)) /\ Len(seqs) = P
        /\ \A k \in 1 .. P : seqs[k] = PodLines(H, lists[k - 1]) /\ Len(seqs[k]) = C
    BY <1>1, <1>4, <2>1
  <2> HIDE DEF seqs
  <2>3. TreeLines(P, H, lists) = FlattenSeq(seqs)
    BY DEF TreeLines, seqs
  <2>4. q \in 1 .. C
    <3>1. j * H + p \in 0 .. H * H - 1 /\ j * H \in Nat
      BY <1>1, RowPlace
    <3>2. QED
      BY <1>1, <3>1
  <2>5. i \in 0 .. Len(seqs) - 1 /\ i + 1 \in 1 .. P /\ (i + 1) - 1 = i
    BY <1>1, <2>2
  <2>6. q = j * H + (p + 1)
    OBVIOUS
  <2> HIDE DEF q
  <2>7. FlattenSeq(seqs)[i * C + q] = seqs[i + 1][q]
    <3>1. Rows(AnyLinks, seqs, C)
      BY <1>1, <2>2 DEF Rows
    <3>2. QED
      BY <2>4, <2>5, <3>1, FlattenPlaces
  <2>8. seqs[i + 1][q] = lists[i][j][p + 1]
    BY <1>4, <2>2, <2>5, <2>6
  <2>9. lists[i][j][p + 1] = HostLink(P, i, j, p)
    <3>1. i \in Nat /\ j \in Nat /\ p + 1 \in 1 .. Half(P) /\ (p + 1) - 1 = p
      BY <1>1 DEF H
    <3>2. EdgeLinks(P, i, j)[p + 1] = HostLink(P, i, j, (p + 1) - 1)
      BY <3>1, EdgeLinksHold
    <3>3. QED
      BY <1>2, <3>1, <3>2
  <2>10. QED
    BY <2>3, <2>6, <2>7, <2>8, <2>9
<1>8. QED
  BY <1>3, <1>5, <1>6, <1>7 DEF H, C

(* Where the nodes of each kind are. *)
Pods(P) == 0 .. P - 1
Places(P) == 0 .. Half(P) - 1
Cores(P) == 0 .. CoreNum(P) - 1

LEMMA TreeNodes ==
  ASSUME NEW P, NEW starts, IsTree(P, starts), NEW i \in Pods(P), NEW j \in Places(P)
  PROVE  /\ i \in Nat /\ j \in Nat
         /\ AggrIndex(P, i, j) \in CoreNum(P) .. 3 * CoreNum(P) - 1
         /\ EdgeIndex(P, i, j) \in 3 * CoreNum(P) .. 5 * CoreNum(P) - 1
         /\ \A p \in Places(P) : HostIndex(P, i, j, p) \in 5 * CoreNum(P) .. 5 * CoreNum(P) + P * CoreNum(P) - 1
<1> DEFINE H == Half(P)
           C == CoreNum(P)
           x == i * H
           y == i * C
           z == j * H
           w == P * C
<1>1. P \in Nat /\ H \in Nat /\ C \in Nat /\ C = H * H /\ P * H = 2 * C
  BY TreeNumbers DEF IsTree
<1>2. i \in 0 .. P - 1 /\ j \in 0 .. H - 1
  BY DEF Pods, Places
<1> HIDE DEF H, C
<1>3. x \in Nat /\ x + j \in 0 .. 2 * C - 1
  BY <1>1, <1>2, RowPlace
<1>4. \A p \in 0 .. H - 1 : z \in Nat /\ z + p \in 0 .. C - 1
  BY <1>1, <1>2, RowPlace
<1>5. \A q \in 0 .. C - 1 : y \in Nat /\ y + q \in 0 .. w - 1
  BY <1>1, <1>2, RowPlace
<1> HIDE DEF x, y, z, w
<1>6. AggrIndex(P, i, j) = C + x + j /\ EdgeIndex(P, i, j) = 3 * C + x + j
  BY DEF AggrIndex, EdgeIndex, x, H, C
<1>7. \A p : HostIndex(P, i, j, p) = 5 * C + y + z + p
  BY DEF HostIndex, y, z, H, C
<1>8. ASSUME NEW p \in Places(P) PROVE HostIndex(P, i, j, p) \in 5 * C .. 5 * C + w - 1
  <2>1. p \in 0 .. H - 1
    BY DEF Places, H
  <2>2. z \in Nat /\ z + p \in 0 .. C - 1
    BY <1>4, <2>1
  <2>3. y \in Nat /\ y + (z + p) \in 0 .. w - 1
    BY <1>5, <2>2
  <2>4. w \in Nat
    BY <1>1 DEF w
  <2>5. QED
    BY <1>1, <1>7, <2>1, <2>2, <2>3, <2>4
<1>9. QED
  BY <1>1, <1>2, <1>3, <1>6, <1>8 DEF w, H, C

LEMMA TreeNodesDiffer ==
  ASSUME NEW P, NEW starts, IsTree(P, starts), NEW i \in Pods(P), NEW j \in Places(P),
         NEW k \in Pods(P), NEW l \in Places(P)
  PROVE  /\ AggrIndex(P, i, j) = AggrIndex(P, k, l) => i = k /\ j = l
         /\ EdgeIndex(P, i, j) = EdgeIndex(P, k, l) => i = k /\ j = l
         /\ \A p \in Places(P), q \in Places(P) :
              HostIndex(P, i, j, p) = HostIndex(P, k, l, q) => i = k /\ j = l /\ p = q
<1> DEFINE H == Half(P)
           C == CoreNum(P)
<1>1. P \in Nat /\ H \in Nat /\ C \in Nat /\ C = H * H
  BY TreeNumbers DEF IsTree
<1>2. i \in 0 .. P - 1 /\ j \in 0 .. H - 1 /\ k \in 0 .. P - 1 /\ l \in 0 .. H - 1
  BY DEF Pods, Places
<1> HIDE DEF H, C
<1>3. i * H + j = k * H + l => i = k /\ j = l
  BY <1>1, <1>2, RowPlace
<1>4. i * H \in Nat /\ k * H \in Nat /\ j * H \in Nat /\ l * H \in Nat /\ i * C \in Nat /\ k * C \in Nat
  BY <1>1, <1>2
<1>5. AggrIndex(P, i, j) = AggrIndex(P, k, l) => i = k /\ j = l
  BY <1>1, <1>2, <1>3, <1>4 DEF AggrIndex, H, C
<1>6. EdgeIndex(P, i, j) = EdgeIndex(P, k, l) => i = k /\ j = l
  BY <1>1, <1>2, <1>3, <1>4 DEF EdgeIndex, H, C
<1>7. ASSUME NEW p \in Places(P), NEW q \in Places(P), HostIndex(P, i, j, p) = HostIndex(P, k, l, q)
      PROVE  i = k /\ j = l /\ p = q
  <2> DEFINE a == j * H + p
             b == l * H + q
  <2>1. p \in 0 .. H - 1 /\ q \in 0 .. H - 1
    BY DEF Places, H
  <2>2. a \in 0 .. C - 1 /\ b \in 0 .. C - 1
    BY <1>1, <1>2, <2>1, RowPlace
  <2>3. i * C + a = k * C + b
    <3> DEFINE x == i * C
               y == k * C
               u == j * H
               v == l * H
    <3>1. x \in Nat /\ y \in Nat /\ u \in Nat /\ v \in Nat
      BY <1>4
    <3>2. HostIndex(P, i, j, p) = 5 * C + x + u + p /\ HostIndex(P, k, l, q) = 5 * C + y + v + q
      BY DEF HostIndex, H, C
    <3> HIDE DEF x, y, u, v
    <3>a. C \in Nat /\ p \in Int /\ q \in Int
      BY <1>1, <2>1
    <3>b. 5 * C + x + u + p = 5 * C + y + v + q
      BY <1>7, <3>2
    <3>3. x + (u + p) = y + (v + q)
      <4> HIDE DEF C
      <4>1. QED
        BY <3>1, <3>a, <3>b
    <3>4. QED
      BY <3>3 DEF x, y, u, v
  <2>4. a = b => j = l /\ p = q
    BY <1>1, <1>2, <2>1, RowPlace
  <2> HIDE DEF a, b
  <2>5. i = k /\ a = b
    BY <1>1, <1>2, <2>2, <2>3, RowPlace
  <2>6. QED
    BY <2>4, <2>5
<1>8. QED
  BY <1>5, <1>6, <1>7

LEMMA DownLinkFields ==
  ASSUME NEW P, NEW i, NEW j, NEW p
  PROVE  /\ DownLink(P, i, j, p).from = AggrIndex(P, i, j) /\ DownLink(P, i, j, p).to = EdgeIndex(P, i, p)
         /\ DownLink(P, i, j, p).kind = "link"
BY DEF DownLink, Link

LEMMA UpLinkFields ==
  ASSUME NEW P, NEW starts, NEW i, NEW c
  PROVE  /\ UpLink(P, starts, i, c).from = AggrIndex(P, i, LinkedAggr(P, starts[c], i))
         /\ UpLink(P, starts, i, c).to = c /\ UpLink(P, starts, i, c).kind = "link"
BY DEF UpLink, Link

LEMMA HostLinkFields ==
  ASSUME NEW P, NEW i, NEW j, NEW p
  PROVE  /\ HostLink(P, i, j, p).from = EdgeIndex(P, i, j) /\ HostLink(P, i, j, p).to = HostIndex(P, i, j, p)
         /\ HostLink(P, i, j, p).kind = "link"
BY DEF HostLink, Link

LEMMA TreeLinkEnds ==
  ASSUME NEW P, NEW starts, IsTree(P, starts), NEW x \in TreeLinks(P, starts)
  PROVE  /\ x.kind = "link"
         /\ x.from \in CoreNum(P) .. 5 * CoreNum(P) - 1
         /\ x.to \in 0 .. 5 * CoreNum(P) + P * CoreNum(P) - 1
         /\ x.from # x.to
<1> DEFINE C == CoreNum(P)
           w == P * C
<1>1. C \in Nat /\ w \in Nat
  <2>1. P \in Nat /\ C \in Nat
    BY TreeNumbers DEF IsTree
  <2>2. QED
    BY <2>1
<1> HIDE DEF C, w
<1>2. CASE x \in DownLinks(P)
  <2>1. PICK i \in Pods(P), j \in Places(P), p \in Places(P) : x = DownLink(P, i, j, p)
    BY <1>2 DEF DownLinks, Pods, Places
  <2>a. x.kind = "link" /\ x.from = AggrIndex(P, i, j) /\ x.to = EdgeIndex(P, i, p)
    BY <2>1, DownLinkFields
  <2>b. AggrIndex(P, i, j) \in C .. 3 * C - 1 /\ EdgeIndex(P, i, p) \in 3 * C .. 5 * C - 1
    BY TreeNodes DEF C
  <2>2. x.kind = "link" /\ x.from \in C .. 3 * C - 1 /\ x.to \in 3 * C .. 5 * C - 1
    BY <2>a, <2>b
  <2>3. QED
    BY <1>1, <2>2 DEF C, w
<1>3. CASE x \in UpLinks(P, starts)
  <2>1. PICK i \in Pods(P), c \in Cores(P) : x = UpLink(P, starts, i, c)
    BY <1>3 DEF UpLinks, Pods, Cores
  <2>2. LinkedAggr(P, starts[c], i) \in Places(P)
    <3>1. i \in Nat /\ c \in 0 .. CoreNum(P) - 1
      BY DEF Pods, Cores, IsTree
    <3>2. QED
      BY <3>1, LinkedAggrIn DEF Places
  <2>a. x.kind = "link" /\ x.from = AggrIndex(P, i, LinkedAggr(P, starts[c], i)) /\ x.to = c
    BY <2>1, UpLinkFields
  <2>b. AggrIndex(P, i, LinkedAggr(P, starts[c], i)) \in C .. 3 * C - 1
    BY <2>2, TreeNodes DEF C
  <2>3. x.kind = "link" /\ x.from \in C .. 3 * C - 1 /\ x.to \in 0 .. C - 1
    BY <2>a, <2>b DEF C, Cores
  <2>4. QED
    BY <1>1, <2>3 DEF C, w
<1>4. CASE x \in HostLinks(P)
  <2>1. PICK i \in Pods(P), j \in Places(P), p \in Places(P) : x = HostLink(P, i, j, p)
    BY <1>4 DEF HostLinks, Pods, Places
  <2>a. x.kind = "link" /\ x.from = EdgeIndex(P, i, j) /\ x.to = HostIndex(P, i, j, p)
    BY <2>1, HostLinkFields
  <2>b. EdgeIndex(P, i, j) \in 3 * C .. 5 * C - 1 /\ HostIndex(P, i, j, p) \in 5 * C .. 5 * C + w - 1
    BY TreeNodes DEF C, w
  <2>2. x.kind = "link" /\ x.from \in 3 * C .. 5 * C - 1 /\ x.to \in 5 * C .. 5 * C + w - 1
    BY <2>a, <2>b
  <2>3. QED
    BY <1>1, <2>2 DEF C, w
<1>5. QED
  BY <1>2, <1>3, <1>4 DEF TreeLinks

(* The lines of a generated file that are links, in order. *)
TreeLineSeq(P, starts) == AggrLines(P, starts) \o EdgeLines(P)

LEMMA TreeLineSeqHolds ==
  ASSUME NEW P, NEW starts, IsTree(P, starts)
  PROVE  /\ TreeLineSeq(P, starts) \in Seq(AnyLinks) /\ Len(TreeLineSeq(P, starts)) = LinkNum(P)
         /\ LinkNum(P) \in Nat
         /\ \A x : In(x, TreeLineSeq(P, starts)) <=> x \in TreeLinks(P, starts)
<1>1. /\ AggrLines(P, starts) \in Seq(AnyLinks)
      /\ Len(AggrLines(P, starts)) = P * (2 * CoreNum(P))
      /\ \A x : In(x, AggrLines(P, starts)) <=> x \in DownLinks(P) \/ x \in UpLinks(P, starts)
  BY AggrLinesHold
<1>2. /\ EdgeLines(P) \in Seq(AnyLinks)
      /\ Len(EdgeLines(P)) = P * CoreNum(P)
      /\ \A x : In(x, EdgeLines(P)) <=> x \in HostLinks(P)
  BY EdgeLinesHold
<1>3. LinkNum(P) = P * (2 * CoreNum(P)) + P * CoreNum(P) /\ LinkNum(P) \in Nat
  <2> DEFINE C == CoreNum(P)
  <2>1. P \in Nat /\ C \in Nat
    BY TreeNumbers DEF IsTree
  <2>2. LinkNum(P) = 2 * P * C + C * P
    BY DEF LinkNum
  <2> HIDE DEF C
  <2>3. 2 * P * C + C * P = P * (2 * C) + P * C /\ P * (2 * C) \in Nat /\ P * C \in Nat
    BY <2>1
  <2>4. QED
    BY <2>2, <2>3 DEF C
<1> DEFINE a == AggrLines(P, starts)
           b == EdgeLines(P)
<1>4. a \in Seq(AnyLinks) /\ b \in Seq(AnyLinks) /\ TreeLineSeq(P, starts) = a \o b /\ LinkNum(P) = Len(a) + Len(b)
  BY <1>1, <1>2, <1>3 DEF TreeLineSeq
<1>5. \A x : In(x, a \o b) <=> In(x, a) \/ In(x, b)
  <2> HIDE DEF a, b
  <2>1. QED
    BY <1>4, InConcatenation
<1>6. \A x : In(x, TreeLineSeq(P, starts)) <=> x \in TreeLinks(P, starts)
  BY <1>1, <1>2, <1>4, <1>5 DEF TreeLinks
<1> HIDE DEF a, b
<1>7. a \o b \in Seq(AnyLinks) /\ Len(a \o b) = Len(a) + Len(b)
  BY <1>4
<1>8. QED
  BY <1>3, <1>4, <1>6, <1>7

(* A part of a sequence. *)
LEMMA PartOf ==
  ASSUME NEW A, NEW s \in Seq(A), NEW a \in Nat \ {0}, NEW b \in 0 .. Len(s), NEW k \in 1 .. b - a + 1
  PROVE  SubSeq(s, a, b)[k] = s[a + k - 1]
OBVIOUS

(* The lines of the file: those, then a function for every switch. *)
LEMMA TreeFileLines ==
  ASSUME NEW P, NEW starts, IsTree(P, starts), NEW f, f = FattreeFile(P, starts)
  PROVE  /\ f.switches = 5 * CoreNum(P) /\ f.hosts = P * CoreNum(P)
         /\ LinkLines(f) = TreeLineSeq(P, starts)
         /\ DOMAIN FunctionLines(f) = 1 .. 5 * CoreNum(P) /\ Len(FunctionLines(f)) = 5 * CoreNum(P)
         /\ \A k \in 1 .. 5 * CoreNum(P) : FunctionLines(f)[k] = NetworkFunction(k - 1)
<1> DEFINE t == TreeLineSeq(P, starts)
           m == 5 * CoreNum(P)
           g == [i \in 1 .. m |-> NetworkFunction(i - 1)]
           n == LinkNum(P)
           A == AnyLinks \cup {NetworkFunction(s) : s \in Nat}
<1>1. m \in Nat /\ CoreNum(P) \in Nat
  BY TreeNumbers
<1>2. t \in Seq(AnyLinks) /\ Len(t) = n /\ n \in Nat
  BY TreeLineSeqHolds
<1>3. f.lines = t \o g /\ f.declared = n /\ f.switches = m /\ f.hosts = P * CoreNum(P)
  BY DEF FattreeFile, TreeLineSeq, AggrLines, EdgeLines
<1> HIDE DEF t, m, n
<1>4. g \in Seq(A) /\ Len(g) = m /\ \A k \in 1 .. m : g[k] = NetworkFunction(k - 1)
  <2>1. \A k \in 1 .. m : NetworkFunction(k - 1) \in A
    BY <1>1
  <2>2. QED
    BY <1>1, <2>1
<1>5. t \in Seq(A)
  BY <1>2
<1> HIDE DEF g, A
<1> DEFINE all == t \o g
<1>6. /\ all \in Seq(A) /\ Len(all) = n + m
      /\ \A k \in 1 .. n : all[k] = t[k]
      /\ \A k \in 1 .. m : all[n + k] = g[k]
  <2>1. Len(all) = n + m /\ all \in Seq(A)
    BY <1>2, <1>4, <1>5
  <2>2. \A k \in 1 .. n : all[k] = t[k]
    BY <1>1, <1>2, <1>4, <1>5
  <2>3. ASSUME NEW k \in 1 .. m PROVE all[n + k] = g[k]
    <3>1. n + k \in Len(t) + 1 .. Len(t) + Len(g) /\ (n + k) - Len(t) = k
      BY <1>1, <1>2, <1>4
    <3>2. QED
      BY <1>4, <1>5, <3>1
  <2>4. QED
    BY <2>1, <2>2, <2>3
<1> HIDE DEF all
<1>7. f.lines = all
  BY <1>3 DEF all
<1>8. LinkLines(f) = t
  <2>1. CASE m > 0
    <3>1. n < Len(all)
      BY <1>1, <1>2, <1>6, <2>1
    <3>2. LinkLines(f) = SubSeq(all, 1, n)
      BY <1>3, <1>7, <3>1 DEF LinkLines
    <3>3. SubSeq(all, 1, n) \in Seq(A) /\ Len(SubSeq(all, 1, n)) = n /\ \A k \in 1 .. n : SubSeq(all, 1, n)[k] = all[k]
      BY <1>2, <1>6, <3>1
    <3> DEFINE u == SubSeq(all, 1, n)
    <3>4. u \in Seq(A) /\ Len(u) = n /\ \A k \in 1 .. n : u[k] = t[k]
      BY <1>6, <3>3
    <3> HIDE DEF u
    <3>5. u = t
      BY <1>2, <1>5, <3>4
    <3>6. QED
      BY <3>2, <3>5 DEF u
  <2>2. CASE m = 0
    <3>1. Len(all) = n /\ ~(n < Len(all))
      BY <1>2, <1>6, <2>2
    <3>2. all = t
      BY <1>2, <1>5, <1>6, <3>1
    <3>3. QED
      BY <1>3, <1>7, <3>1, <3>2 DEF LinkLines
  <2>3. QED
    BY <1>1, <2>1, <2>2
<1>9. FunctionLines(f) = SubSeq(all, n + 1, n + m)
  BY <1>3, <1>6, <1>7 DEF FunctionLines
<1>10. /\ Len(SubSeq(all, n + 1, n + m)) = m /\ DOMAIN SubSeq(all, n + 1, n + m) = 1 .. m
       /\ \A k \in 1 .. m : SubSeq(all, n + 1, n + m)[k] = all[n + k]
  <2>1. n + 1 \in 1 .. Len(all) + 1 /\ n + m \in 0 .. Len(all)
    BY <1>1, <1>2, <1>6
  <2>2. Len(SubSeq(all, n + 1, n + m)) = m /\ DOMAIN SubSeq(all, n + 1, n + m) = 1 .. m
    BY <1>1, <1>2, <1>6, <2>1
  <2>3. ASSUME NEW k \in 1 .. m PROVE SubSeq(all, n + 1, n + m)[k] = all[n + k]
    <3>1. (n + 1) + k - 1 = n + k
      BY <1>1, <1>2
    <3>2. n + 1 \in Nat \ {0} /\ n + m \in 0 .. Len(all) /\ k \in 1 .. (n + m) - (n + 1) + 1
      BY <1>1, <1>2, <2>1
    <3>3. SubSeq(all, n + 1, n + m)[k] = all[(n + 1) + k - 1]
      BY <1>6, <3>2, PartOf
    <3>4. QED
      BY <3>1, <3>3
  <2>4. QED
    BY <2>2, <2>3
<1>11. DOMAIN FunctionLines(f) = 1 .. m /\ Len(FunctionLines(f)) = m
  BY <1>9, <1>10
<1>12. ASSUME NEW k \in 1 .. m PROVE FunctionLines(f)[k] = NetworkFunction(k - 1)
  BY <1>4, <1>6, <1>9, <1>10
<1>13. QED
  BY <1>3, <1>8, <1>11, <1>12 DEF t, m

(* Reading a generated file meets no error, and all of its links.          *)
LEMMA TreeFileReads ==
  ASSUME NEW P, NEW starts, IsTree(P, starts), NEW f, f = FattreeFile(P, starts)
  PROVE  ~BadIndex(f) /\ FunctionsRead(f)
<1> DEFINE C == CoreNum(P)
           w == P * C
<1>1. C \in Nat /\ w \in Nat
  <2>1. P \in Nat /\ C \in Nat
    BY TreeNumbers DEF IsTree
  <2>2. QED
    BY <2>1
<1>2. f.switches = 5 * C /\ f.hosts = w /\ LinkLines(f) = TreeLineSeq(P, starts)
  BY TreeFileLines
<1>3. ASSUME NEW i \in DOMAIN LinkLines(f)
      PROVE  {LinkLines(f)[i].from, LinkLines(f)[i].to} \subseteq 0 .. f.switches + f.hosts - 1
  <2> DEFINE x == LinkLines(f)[i]
  <2>1. i \in 1 .. Len(TreeLineSeq(P, starts)) /\ x = TreeLineSeq(P, starts)[i]
    BY <1>2, TreeLineSeqHolds
  <2>2. x \in TreeLinks(P, starts)
    BY <2>1, TreeLineSeqHolds DEF In
  <2>3. x.from \in C .. 5 * C - 1 /\ x.to \in 0 .. 5 * C + w - 1
    BY <2>2, TreeLinkEnds
  <2> HIDE DEF x, C, w
  <2>4. x.from \in 0 .. f.switches + f.hosts - 1 /\ x.to \in 0 .. f.switches + f.hosts - 1
    BY <1>1, <1>2, <2>3
  <2>5. QED
    BY <2>4 DEF x
<1>4. ASSUME NEW i \in DOMAIN FunctionLines(f)
      PROVE  FunctionLines(f)[i].kind = "function" /\ ~(FunctionLines(f)[i].switch >= f.switches)
  <2>1. i \in 1 .. 5 * C
    BY TreeFileLines
  <2>2. FunctionLines(f)[i] = NetworkFunction(i - 1)
    BY <2>1, TreeFileLines
  <2>3. i - 1 < 5 * C
    BY <1>1, <2>1
  <2>4. QED
    BY <1>1, <1>2, <2>1, <2>2, <2>3 DEF NetworkFunction
<1>5. Len(FunctionLines(f)) >= f.switches
  BY <1>1, <1>2, TreeFileLines
<1>6. ~BadIndex(f)
  BY <1>3, <1>4 DEF BadIndex
<1>7. FunctionsRead(f)
  BY <1>4, <1>5 DEF FunctionsRead
<1>8. QED
  BY <1>6, <1>7

(* A file whose lines are all links up to the declared number. *)
LEMMA AllLinksRead ==
  ASSUME NEW f, IsFile(f), ~BadIndex(f),
         \A k \in 1 .. Len(LinkLines(f)) : LinkLines(f)[k].kind = "link"
  PROVE  /\ Len(ReadLinks(f)) = Len(LinkLines(f))
         /\ \A k \in 1 .. Len(LinkLines(f)) : ReadLinks(f)[k].link = LinkLines(f)[k]
<1> DEFINE N == Len(LinkLines(f))
           R == Reading(f)
           Same(k) == /\ Len(R[k].links) = k
                      /\ \A i \in 1 .. k : R[k].links[i].link = LinkLines(f)[i]
           T == {k \in 0 .. N : Same(k)}
<1>1. N \in Nat
  BY LinkLinesType
<1>2. /\ R[0] = NewReader(f)
      /\ \A k \in 0 .. N : R[k] \in Readers(f)
      /\ \A k \in 1 .. N : R[k] = ReadLink(R[k - 1], LinkLines(f)[k])
  BY ReadingSteps
<1> HIDE DEF N, R
<1>3. 0 \in T
  <2>1. R[0].links = <<>> /\ Len(<<>>) = 0
    BY <1>2 DEF NewReader
  <2>2. QED
    BY <1>1, <2>1
<1>4. ASSUME NEW k \in 1 .. N, k - 1 \in T PROVE k \in T
  <2> DEFINE line == LinkLines(f)[k]
             r == R[k - 1]
             y == [link |-> line, fromPort |-> r.counter[line.from] + 1, toPort |-> r.counter[line.to] + 1]
  <2>1. k - 1 \in 0 .. N /\ k \in 0 .. N /\ (k - 1) + 1 = k
    BY <1>1
  <2>2. line.kind = "link" /\ R[k] = ReadLink(r, line)
    BY <1>2 DEF N
  <2>3. R[k].links = Append(r.links, y) /\ y.link = line
    <3> HIDE DEF r, line
    <3>1. QED
      BY <2>2 DEF ReadLink
  <2>4. r.links \in Seq(StoredLinks(f)) /\ Len(r.links) = k - 1 /\ Same(k - 1)
    <3>1. r \in Readers(f)
      BY <1>2, <2>1
    <3>2. QED
      BY <1>4, <3>1 DEF Readers
  <2> HIDE DEF y, line
  <2>5. /\ Len(Append(r.links, y)) = k /\ Append(r.links, y)[k] = y
        /\ \A i \in 1 .. k - 1 : Append(r.links, y)[i] = r.links[i]
    BY <2>1, <2>4
  <2>6. Same(k)
    <3>1. \A i \in 1 .. k : i = k \/ i \in 1 .. k - 1
      BY <1>1
    <3>2. QED
      BY <2>3, <2>4, <2>5, <3>1 DEF line
  <2>7. QED
    BY <2>1, <2>6
<1>5. Same(N)
  <2> HIDE DEF Same
  <2>1. 0 \in T /\ (\A k \in 1 .. N : k - 1 \in T => k \in T)
    BY <1>3, <1>4
  <2> HIDE DEF T
  <2>2. 0 .. N \subseteq T
    BY <1>1, <2>1, Induction
  <2>3. QED
    BY <1>1, <2>2 DEF T
<1>6. QED
  BY <1>5 DEF ReadLinks, N, R

(* What an end of a port is: the node of a number. *)
IsAt(f, end, x) ==
  IF x < f.switches THEN end.flag = 1 /\ end.node = x ELSE end.flag = 0 /\ end.node = x - f.switches
Between(link, s, x) == (s = link.from /\ x = link.to) \/ (s = link.to /\ x = link.from)
Stem(f, stored, m, n) ==
  \A s \in SwitchesOf(f) : \A p \in 1 .. Len(n.ports[s]) :
    \E i \in 1 .. m : \E x \in NodesIn(f) : Between(stored[i].link, s, x) /\ IsAt(f, n.ports[s][p], x)

LEMMA EndIsAt ==
  ASSUME NEW f, NEW acc, NEW x PROVE IsAt(f, EndOf(f, acc, x), x)
<1>1. CASE x < f.switches
  BY <1>1, EndAtFields DEF IsAt, EndOf
<1>2. CASE ~(x < f.switches)
  BY <1>2, EndAtFields DEF IsAt, EndOf
<1>3. QED
  BY <1>1, <1>2

LEMMA PortsStem ==
  ASSUME NEW f, IsFile(f), NEW stored \in Seq(StoredLinks(f))
  PROVE  Stem(f, stored, Len(stored), Install(f, stored))
<1> DEFINE I == Installing(f, stored)
           N == Len(stored)
           T == {m \in 0 .. N : Stem(f, stored, m, I[m])}
<1>1. N \in Nat
  OBVIOUS
<1>2. 0 \in T
  <2>1. I[0] = NewNet(f)
    BY <1>1, InstallingSteps
  <2>2. \A s \in SwitchesOf(f) : NewNet(f).ports[s] = <<>> /\ Len(NewNet(f).ports[s]) = 0
    BY DEF NewNet
  <2>3. Stem(f, stored, 0, NewNet(f))
    BY <2>2 DEF Stem
  <2>4. QED
    BY <1>1, <2>1, <2>3
<1>3. ASSUME NEW m \in 1 .. N, m - 1 \in T PROVE m \in T
  <2> DEFINE acc == I[m - 1]
             new == I[m]
             link == stored[m].link
  <2>1. m - 1 \in 0 .. N /\ m \in 0 .. N
    BY <1>1
  <2>2. Joins(f, acc, link, new) /\ acc \in Nets(f)
    BY <2>1, InstallingSteps
  <2>3. link \in LinksIn(f)
    <3>1. stored[m] \in StoredLinks(f)
      OBVIOUS
    <3>2. QED
      BY <3>1 DEF StoredLinks
  <2>4. link.from \in NodesIn(f) /\ link.to \in NodesIn(f)
    BY <2>3, LinkFields
  <2>5. Stem(f, stored, m - 1, acc)
    BY <1>3
  <2> HIDE DEF acc, new
  <2>6. ASSUME NEW s \in SwitchesOf(f), NEW p \in 1 .. Len(new.ports[s])
        PROVE  \E i \in 1 .. m : \E x \in NodesIn(f) : Between(stored[i].link, s, x) /\ IsAt(f, new.ports[s][p], x)
    <3>1. CASE p \in 1 .. Len(acc.ports[s]) /\ new.ports[s][p] = acc.ports[s][p]
      <4>1. PICK i \in 1 .. m - 1 : \E x \in NodesIn(f) : Between(stored[i].link, s, x) /\ IsAt(f, acc.ports[s][p], x)
        BY <2>5, <3>1 DEF Stem
      <4>2. i \in 1 .. m
        BY <1>1
      <4>3. QED
        BY <3>1, <4>1, <4>2
    <3>2. ASSUME NEW x \in NodesIn(f), Between(link, s, x), new.ports[s][p] = EndOf(f, acc, x)
          PROVE  \E i \in 1 .. m : \E y \in NodesIn(f) : Between(stored[i].link, s, y) /\ IsAt(f, new.ports[s][p], y)
      <4>1. m \in 1 .. m /\ IsAt(f, new.ports[s][p], x)
        BY <1>1, <3>2, EndIsAt
      <4>2. QED
        BY <3>2, <4>1
    <3> HIDE DEF link
    <3>3. \/ p \in 1 .. Len(acc.ports[s]) /\ new.ports[s][p] = acc.ports[s][p]
          \/ s = link.from /\ new.ports[s][p] = EndOf(f, acc, link.to)
          \/ s = link.to /\ new.ports[s][p] = EndOf(f, acc, link.from)
      BY <2>2, <2>3, PortsJoined
    <3>4. QED
      BY <2>4, <3>1, <3>2, <3>3 DEF Between
  <2>7. QED
    BY <2>1, <2>6 DEF Stem, new
<1>4. N \in T
  <2> HIDE DEF T
  <2>1. 0 .. N \subseteq T
    BY <1>1, <1>2, <1>3, Induction
  <2>2. QED
    BY <1>1, <2>1
<1>5. QED
  BY <1>4 DEF Install

(* The ports of the switches are those of the links that are read. *)
LEMMA PortsAreLinks ==
  ASSUME NEW f, IsFile(f), ~BadIndex(f), NEW s \in SwitchesOf(f), NEW x \in NodesIn(f)
  PROVE  LET n == Install(f, ReadLinks(f))
         IN (\E p \in 1 .. Len(n.ports[s]) : IsAt(f, n.ports[s][p], x)) <=>
              \E i \in 1 .. Len(ReadLinks(f)) : Between(ReadLinks(f)[i].link, s, x)
<1> DEFINE n == Install(f, ReadLinks(f))
           L == ReadLinks(f)
<1>1. L \in Seq(StoredLinks(f)) /\ Stem(f, L, Len(L), n)
  BY ReadLinksType, PortsStem
<1>2. n \in Nets(f) /\ \A i \in 1 .. Len(L) : MeetsAt(f, L[i], n)
  BY AllAgree
<1>3. /\ s \in Int /\ x \in Int /\ s < f.switches /\ f.switches \in Nat
      /\ \A y \in NodesIn(f) : y \in Int
  BY DEF SwitchesOf, NodesIn, IsFile
<1> HIDE DEF n, L
<1>4. ASSUME NEW p \in 1 .. Len(n.ports[s]), IsAt(f, n.ports[s][p], x)
      PROVE  \E i \in 1 .. Len(L) : Between(L[i].link, s, x)
  <2>1. PICK i \in 1 .. Len(L), y \in NodesIn(f) : Between(L[i].link, s, y) /\ IsAt(f, n.ports[s][p], y)
    BY <1>1 DEF Stem
  <2>2. y = x
    <3>1. CASE x < f.switches
      BY <1>4, <2>1, <3>1 DEF IsAt
    <3>2. CASE ~(x < f.switches)
      <4>1. x - f.switches = y - f.switches
        BY <1>4, <2>1, <3>2 DEF IsAt
      <4>2. QED
        BY <1>3, <4>1
    <3>3. QED
      BY <3>1, <3>2
  <2>3. QED
    BY <2>1, <2>2
<1>5. ASSUME NEW i \in 1 .. Len(L), Between(L[i].link, s, x)
      PROVE  \E p \in 1 .. Len(n.ports[s]) : IsAt(f, n.ports[s][p], x)
  <2>1. MeetsAt(f, L[i], n)
    BY <1>2
  <2>2. \A port : IsAt(f, EndAt(f, x, port), x)
    <3>1. CASE x < f.switches
      BY <3>1, EndAtFields DEF IsAt
    <3>2. CASE ~(x < f.switches)
      BY <3>2, EndAtFields DEF IsAt
    <3>3. QED
      BY <3>1, <3>2
  <2>3. CASE s = L[i].link.from /\ x = L[i].link.to
    BY <1>3, <2>1, <2>2, <2>3 DEF MeetsAt
  <2>4. CASE s = L[i].link.to /\ x = L[i].link.from
    BY <1>3, <2>1, <2>2, <2>4 DEF MeetsAt
  <2>5. QED
    BY <1>5, <2>3, <2>4 DEF Between
<1>6. QED
  BY <1>4, <1>5 DEF n, L

(* Who is linked to whom in the tree. *)
Linked(P, starts, s, x) == \E l \in TreeLinks(P, starts) : Between(l, s, x)

LEMMA UpLinkNodes ==
  ASSUME NEW P, NEW starts, IsTree(P, starts), NEW i \in Pods(P), NEW c \in Cores(P)
  PROVE  LinkedAggr(P, starts[c], i) \in Places(P)
<1>1. i \in Nat /\ c \in 0 .. CoreNum(P) - 1
  BY DEF Pods, Cores, IsTree
<1>2. QED
  BY <1>1, LinkedAggrIn DEF Places

LEMMA TreeLinked ==
  ASSUME NEW P, NEW starts, IsTree(P, starts), NEW i \in Pods(P), NEW j \in Places(P)
  PROVE  /\ \A p \in Places(P) : /\ Linked(P, starts, AggrIndex(P, i, j), EdgeIndex(P, i, p))
                                 /\ Linked(P, starts, EdgeIndex(P, i, p), AggrIndex(P, i, j))
                                 /\ Linked(P, starts, EdgeIndex(P, i, j), HostIndex(P, i, j, p))
         /\ \A c \in Cores(P) : LinkedAggr(P, starts[c], i) = j =>
              Linked(P, starts, AggrIndex(P, i, j), c) /\ Linked(P, starts, c, AggrIndex(P, i, j))
<1>1. ASSUME NEW p \in Places(P)
      PROVE  /\ Linked(P, starts, AggrIndex(P, i, j), EdgeIndex(P, i, p))
             /\ Linked(P, starts, EdgeIndex(P, i, p), AggrIndex(P, i, j))
             /\ Linked(P, starts, EdgeIndex(P, i, j), HostIndex(P, i, j, p))
  <2>1. DownLink(P, i, j, p) \in TreeLinks(P, starts) /\ HostLink(P, i, j, p) \in TreeLinks(P, starts)
    BY DEF TreeLinks, DownLinks, HostLinks, Pods, Places
  <2>2. QED
    BY <2>1, DownLinkFields, HostLinkFields DEF Linked, Between
<1>2. ASSUME NEW c \in Cores(P), LinkedAggr(P, starts[c], i) = j
      PROVE  Linked(P, starts, AggrIndex(P, i, j), c) /\ Linked(P, starts, c, AggrIndex(P, i, j))
  <2>1. UpLink(P, starts, i, c) \in TreeLinks(P, starts)
    BY DEF TreeLinks, UpLinks, Pods, Cores
  <2>2. QED
    BY <1>2, <2>1, UpLinkFields DEF Linked, Between
<1>3. QED
  BY <1>1, <1>2

(* The two ends of a link, one way or the other. *)
TreeEnds(P, starts, s, x) ==
  \/ \E i \in Pods(P), j \in Places(P), p \in Places(P) : s = AggrIndex(P, i, j) /\ x = EdgeIndex(P, i, p)
  \/ \E i \in Pods(P), c \in Cores(P) : s = AggrIndex(P, i, LinkedAggr(P, starts[c], i)) /\ x = c
  \/ \E i \in Pods(P), j \in Places(P), p \in Places(P) : s = EdgeIndex(P, i, j) /\ x = HostIndex(P, i, j, p)

LEMMA LinkedEnds ==
  ASSUME NEW P, NEW starts, NEW s, NEW x, Linked(P, starts, s, x)
  PROVE  TreeEnds(P, starts, s, x) \/ TreeEnds(P, starts, x, s)
<1>1. PICK l \in TreeLinks(P, starts) : Between(l, s, x)
  BY DEF Linked
<1>2. TreeEnds(P, starts, l.from, l.to)
  <2>1. CASE l \in DownLinks(P)
    <3>1. PICK i \in Pods(P), j \in Places(P), p \in Places(P) : l = DownLink(P, i, j, p)
      BY <2>1 DEF DownLinks, Pods, Places
    <3>2. QED
      BY <3>1, DownLinkFields DEF TreeEnds
  <2>2. CASE l \in UpLinks(P, starts)
    <3>1. PICK i \in Pods(P), c \in Cores(P) : l = UpLink(P, starts, i, c)
      BY <2>2 DEF UpLinks, Pods, Cores
    <3>2. QED
      BY <3>1, UpLinkFields DEF TreeEnds
  <2>3. CASE l \in HostLinks(P)
    <3>1. PICK i \in Pods(P), j \in Places(P), p \in Places(P) : l = HostLink(P, i, j, p)
      BY <2>3 DEF HostLinks, Pods, Places
    <3>2. QED
      BY <3>1, HostLinkFields DEF TreeEnds
  <2>4. QED
    BY <2>1, <2>2, <2>3 DEF TreeLinks
<1>3. QED
  BY <1>1, <1>2 DEF Between

LEMMA AggrLinked ==
  ASSUME NEW P, NEW starts, IsTree(P, starts), NEW i \in Pods(P), NEW j \in Places(P), NEW x,
         Linked(P, starts, AggrIndex(P, i, j), x)
  PROVE  \/ \E p \in Places(P) : x = EdgeIndex(P, i, p)
         \/ x \in Cores(P) /\ LinkedAggr(P, starts[x], i) = j
<1> DEFINE C == CoreNum(P)
           s == AggrIndex(P, i, j)
<1>1. C \in Nat /\ s \in C .. 3 * C - 1
  BY TreeNodes, TreeNumbers
<1>2. \A k \in Pods(P), l \in Places(P) : EdgeIndex(P, k, l) \in 3 * C .. 5 * C - 1
  BY TreeNodes
<1> HIDE DEF C
<1>3. \A k \in Pods(P), l \in Places(P) : s # EdgeIndex(P, k, l)
  BY <1>1, <1>2
<1>4. \A k \in Pods(P), l \in Places(P) : s = AggrIndex(P, k, l) => k = i /\ l = j
  BY TreeNodesDiffer
<1>5. \A c \in Cores(P) : s # c
  BY <1>1 DEF Cores, C
<1>6. \A k \in Pods(P), l \in Places(P), p \in Places(P) : s # HostIndex(P, k, l, p)
  <2>1. \A k \in Pods(P), l \in Places(P), p \in Places(P) : HostIndex(P, k, l, p) >= 5 * C /\ HostIndex(P, k, l, p) \in Int
    BY TreeNodes DEF C
  <2>2. QED
    BY <1>1, <2>1
<1>7. TreeEnds(P, starts, s, x) \/ TreeEnds(P, starts, x, s)
  BY LinkedEnds
<1> HIDE DEF s
<1>8. CASE TreeEnds(P, starts, s, x)
  BY <1>3, <1>4, <1>8, UpLinkNodes DEF TreeEnds
<1>9. CASE TreeEnds(P, starts, x, s)
  BY <1>3, <1>5, <1>6, <1>9 DEF TreeEnds
<1>10. QED
  BY <1>7, <1>8, <1>9

LEMMA EdgeLinked ==
  ASSUME NEW P, NEW starts, IsTree(P, starts), NEW i \in Pods(P), NEW j \in Places(P), NEW x,
         Linked(P, starts, EdgeIndex(P, i, j), x)
  PROVE  \/ \E k \in Places(P) : x = AggrIndex(P, i, k)
         \/ \E p \in Places(P) : x = HostIndex(P, i, j, p)
<1> DEFINE C == CoreNum(P)
           s == EdgeIndex(P, i, j)
<1>1. C \in Nat /\ s \in 3 * C .. 5 * C - 1
  BY TreeNodes, TreeNumbers
<1>2. \A k \in Pods(P), l \in Places(P) : AggrIndex(P, k, l) \in C .. 3 * C - 1
  BY TreeNodes
<1> HIDE DEF C
<1>3. \A k \in Pods(P), l \in Places(P) : s # AggrIndex(P, k, l)
  BY <1>1, <1>2
<1>4. \A k \in Pods(P), l \in Places(P) : s = EdgeIndex(P, k, l) => k = i /\ l = j
  BY TreeNodesDiffer
<1>5. \A c \in Cores(P) : s # c
  BY <1>1 DEF Cores, C
<1>6. \A k \in Pods(P), l \in Places(P), p \in Places(P) : s # HostIndex(P, k, l, p)
  <2>1. \A k \in Pods(P), l \in Places(P), p \in Places(P) : HostIndex(P, k, l, p) >= 5 * C /\ HostIndex(P, k, l, p) \in Int
    BY TreeNodes DEF C
  <2>2. QED
    BY <1>1, <2>1
<1>7. TreeEnds(P, starts, s, x) \/ TreeEnds(P, starts, x, s)
  BY LinkedEnds
<1> HIDE DEF s
<1>8. CASE TreeEnds(P, starts, s, x)
  BY <1>3, <1>4, <1>8, UpLinkNodes DEF TreeEnds
<1>9. CASE TreeEnds(P, starts, x, s)
  BY <1>4, <1>5, <1>6, <1>9 DEF TreeEnds
<1>10. QED
  BY <1>7, <1>8, <1>9

LEMMA CoreLinked ==
  ASSUME NEW P, NEW starts, IsTree(P, starts), NEW c \in Cores(P), NEW x,
         Linked(P, starts, c, x)
  PROVE  \E i \in Pods(P) : x = AggrIndex(P, i, LinkedAggr(P, starts[c], i))
<1> DEFINE C == CoreNum(P)
<1>1. C \in Nat /\ c \in 0 .. C - 1
  BY TreeNumbers DEF Cores
<1>2. \A k \in Pods(P), l \in Places(P) : AggrIndex(P, k, l) \in C .. 3 * C - 1 /\ EdgeIndex(P, k, l) \in 3 * C .. 5 * C - 1
  BY TreeNodes
<1>3. \A k \in Pods(P), l \in Places(P), p \in Places(P) : HostIndex(P, k, l, p) >= 5 * C /\ HostIndex(P, k, l, p) \in Int
  BY TreeNodes
<1> HIDE DEF C
<1>4. \A k \in Pods(P), l \in Places(P) : c # AggrIndex(P, k, l) /\ c # EdgeIndex(P, k, l)
  BY <1>1, <1>2
<1>5. \A k \in Pods(P), l \in Places(P), p \in Places(P) : c # HostIndex(P, k, l, p)
  BY <1>1, <1>3
<1>6. TreeEnds(P, starts, c, x) \/ TreeEnds(P, starts, x, c)
  BY LinkedEnds
<1>7. CASE TreeEnds(P, starts, c, x)
  BY <1>4, <1>7, UpLinkNodes DEF TreeEnds
<1>8. CASE TreeEnds(P, starts, x, c)
  BY <1>4, <1>5, <1>8 DEF TreeEnds
<1>9. QED
  BY <1>6, <1>7, <1>8

(* Every number below those of the rows is a place in one. *)
LEMMA RowOf ==
  ASSUME NEW P \in Nat, NEW H \in Nat, NEW x \in 0 .. P * H - 1
  PROVE  \E i \in 0 .. P - 1, j \in 0 .. H - 1 : x = i * H + j
<1>1. H > 0 /\ P > 0
  <2>1. CASE H = 0
    <3>1. P * H = 0
      BY <2>1
    <3>2. QED
      BY <3>1
  <2>2. CASE P = 0
    <3>1. P * H = 0
      BY <2>2
    <3>2. QED
      BY <3>1
  <2>3. QED
    BY <2>1, <2>2
<1> DEFINE i == x \div H
           j == x % H
<1>2. x \in Nat /\ x < P * H
  OBVIOUS
<1>3. i \in Nat /\ j \in 0 .. H - 1 /\ x = i * H + j
  BY <1>1, <1>2
<1> HIDE DEF i, j
<1>4. i < P
  <2>1. CASE P <= i
    <3>1. P * H <= i * H
      BY <1>3, <2>1
    <3>2. i * H \in Int /\ P * H \in Int
      BY <1>3
    <3>3. QED
      BY <1>2, <1>3, <3>1, <3>2
  <2>2. QED
    BY <1>3, <2>1
<1>5. i \in 0 .. P - 1
  BY <1>3, <1>4
<1>6. QED
  BY <1>3, <1>5

LEMMA TreeNodeKinds ==
  ASSUME NEW P, NEW starts, IsTree(P, starts), NEW x \in 0 .. 5 * CoreNum(P) + P * CoreNum(P) - 1
  PROVE  \/ x \in Cores(P)
         \/ \E i \in Pods(P), j \in Places(P) : x = AggrIndex(P, i, j)
         \/ \E i \in Pods(P), j \in Places(P) : x = EdgeIndex(P, i, j)
         \/ \E i \in Pods(P), j \in Places(P), p \in Places(P) : x = HostIndex(P, i, j, p)
<1> DEFINE H == Half(P)
           C == CoreNum(P)
           w == P * C
<1>1. P \in Nat /\ H \in Nat /\ C \in Nat /\ C = H * H /\ P * H = 2 * C /\ w \in Nat
  <2>1. P \in Nat /\ C \in Nat
    BY TreeNumbers DEF IsTree
  <2>2. QED
    BY <2>1, TreeNumbers
<1>a. Pods(P) = 0 .. P - 1 /\ Places(P) = 0 .. H - 1 /\ Cores(P) = 0 .. C - 1
  BY DEF Pods, Places, Cores
<1> HIDE DEF H, C, w
<1>2. x \in 0 .. 5 * C + w - 1
  BY DEF C, w
<1>3. CASE x < C
  BY <1>1, <1>2, <1>3, <1>a
<1>4. CASE C <= x /\ x < 3 * C
  <2>1. x - C \in 0 .. P * H - 1
    BY <1>1, <1>2, <1>4
  <2>2. PICK i \in 0 .. P - 1, j \in 0 .. H - 1 : x - C = i * H + j
    BY <1>1, <2>1, RowOf
  <2> DEFINE y == i * H
  <2>3. y \in Nat /\ AggrIndex(P, i, j) = C + y + j
    BY <1>1 DEF AggrIndex, H, C
  <2>4. x - C = y + j
    BY <2>2
  <2> HIDE DEF y
  <2>5. x = C + y + j
    BY <1>1, <1>2, <2>3, <2>4
  <2>6. QED
    BY <1>a, <2>3, <2>5
<1>5. CASE 3 * C <= x /\ x < 5 * C
  <2>1. x - 3 * C \in 0 .. P * H - 1
    BY <1>1, <1>2, <1>5
  <2>2. PICK i \in 0 .. P - 1, j \in 0 .. H - 1 : x - 3 * C = i * H + j
    BY <1>1, <2>1, RowOf
  <2> DEFINE y == i * H
  <2>3. y \in Nat /\ EdgeIndex(P, i, j) = 3 * C + y + j
    BY <1>1 DEF EdgeIndex, H, C
  <2>4. x - 3 * C = y + j
    BY <2>2
  <2> HIDE DEF y
  <2>5. x = 3 * C + y + j
    BY <1>1, <1>2, <2>3, <2>4
  <2>6. QED
    BY <1>a, <2>3, <2>5
<1>6. CASE 5 * C <= x
  <2>1. x - 5 * C \in 0 .. w - 1
    BY <1>1, <1>2, <1>6
  <2>2. PICK i \in 0 .. P - 1, q \in 0 .. C - 1 : x - 5 * C = i * C + q
    BY <1>1, <2>1, RowOf DEF w
  <2>a. q \in 0 .. H * H - 1
    BY <1>1
  <2>3. PICK j \in 0 .. H - 1, p \in 0 .. H - 1 : q = j * H + p
    BY <1>1, <2>a, RowOf
  <2> DEFINE y == i * C
             z == j * H
  <2>4. y \in Nat /\ z \in Nat /\ HostIndex(P, i, j, p) = 5 * C + y + z + p
    BY <1>1 DEF HostIndex, H, C
  <2>5. x - 5 * C = y + q /\ q = z + p
    BY <2>2, <2>3
  <2> HIDE DEF y, z
  <2>6. x = 5 * C + y + z + p
    BY <1>1, <1>2, <2>4, <2>5
  <2>7. QED
    BY <1>a, <2>4, <2>6
<1>7. x \in Int
  BY <1>1, <1>2
<1>8. QED
  BY <1>1, <1>3, <1>4, <1>5, <1>6, <1>7

(* Every node of the tree has a link. *)
LEMMA TreeNodesLinked ==
  ASSUME NEW P, NEW starts, IsTree(P, starts), NEW x \in 0 .. 5 * CoreNum(P) + P * CoreNum(P) - 1
  PROVE  \E l \in TreeLinks(P, starts) : x \in {l.from, l.to}
<1>1. ASSUME NEW y, Linked(P, starts, x, y) \/ Linked(P, starts, y, x)
      PROVE  \E l \in TreeLinks(P, starts) : x \in {l.from, l.to}
  BY <1>1 DEF Linked, Between
<1>2. CASE x \in Cores(P)
  <2>1. 0 \in Pods(P)
    <3>1. CoreNum(P) > 0
      BY <1>2, TreeNumbers DEF Cores
    <3>2. Half(P) > 0
      BY <3>1, TreeNumbers
    <3>3. P >= 2 /\ P \in Nat
      BY <3>2, TreeNumbers DEF IsTree
    <3>4. QED
      BY <3>3 DEF Pods
  <2>2. LinkedAggr(P, starts[x], 0) \in Places(P)
    BY <1>2, <2>1, UpLinkNodes
  <2>3. Linked(P, starts, x, AggrIndex(P, 0, LinkedAggr(P, starts[x], 0)))
    BY <1>2, <2>1, <2>2, TreeLinked
  <2>4. QED
    BY <1>1, <2>3
<1>3. ASSUME NEW i \in Pods(P), NEW j \in Places(P), x = AggrIndex(P, i, j)
      PROVE  \E l \in TreeLinks(P, starts) : x \in {l.from, l.to}
  <2>1. Linked(P, starts, x, EdgeIndex(P, i, j))
    BY <1>3, TreeLinked
  <2>2. QED
    BY <1>1, <2>1
<1>4. ASSUME NEW i \in Pods(P), NEW j \in Places(P), x = EdgeIndex(P, i, j)
      PROVE  \E l \in TreeLinks(P, starts) : x \in {l.from, l.to}
  <2>1. Linked(P, starts, AggrIndex(P, i, j), x)
    BY <1>4, TreeLinked
  <2>2. QED
    BY <1>1, <2>1
<1>5. ASSUME NEW i \in Pods(P), NEW j \in Places(P), NEW p \in Places(P), x = HostIndex(P, i, j, p)
      PROVE  \E l \in TreeLinks(P, starts) : x \in {l.from, l.to}
  <2>1. Linked(P, starts, EdgeIndex(P, i, j), x)
    BY <1>5, TreeLinked
  <2>2. QED
    BY <1>1, <2>1
<1>6. QED
  BY <1>2, <1>3, <1>4, <1>5, TreeNodeKinds

(* What is read of a generated file, and what is installed.                *)
LEMMA TreeReadLines ==
  ASSUME NEW P, NEW starts, IsTree(P, starts), NEW f, f = FattreeFile(P, starts), IsFile(f)
  PROVE  /\ Len(ReadLinks(f)) = Len(TreeLineSeq(P, starts))
         /\ \A k \in 1 .. Len(TreeLineSeq(P, starts)) : /\ ReadLinks(f)[k].link = TreeLineSeq(P, starts)[k]
                                                       /\ TreeLineSeq(P, starts)[k] \in TreeLinks(P, starts)
<1> DEFINE t == TreeLineSeq(P, starts)
<1>1. ~BadIndex(f)
  BY TreeFileReads
<1>2. LinkLines(f) = t /\ \A x : In(x, t) <=> x \in TreeLinks(P, starts)
  BY TreeFileLines, TreeLineSeqHolds
<1> HIDE DEF t
<1>3. \A k \in 1 .. Len(t) : t[k] \in TreeLinks(P, starts)
  BY <1>2 DEF In
<1>4. \A k \in 1 .. Len(t) : t[k].kind = "link"
  BY <1>3, TreeLinkEnds
<1>5. Len(ReadLinks(f)) = Len(t) /\ \A k \in 1 .. Len(t) : ReadLinks(f)[k].link = t[k]
  BY <1>1, <1>2, <1>4, AllLinksRead
<1>6. QED
  BY <1>3, <1>5 DEF t

LEMMA TreeReads ==
  ASSUME NEW P, NEW starts, IsTree(P, starts), NEW f, f = FattreeFile(P, starts), IsFile(f)
  PROVE  /\ ~BadIndex(f) /\ ReadLinks(f) \in Seq(StoredLinks(f))
         /\ \A i \in 1 .. Len(ReadLinks(f)) : ReadLinks(f)[i].link \in TreeLinks(P, starts)
         /\ \A l \in TreeLinks(P, starts) : \E i \in 1 .. Len(ReadLinks(f)) : ReadLinks(f)[i].link = l
<1> DEFINE t == TreeLineSeq(P, starts)
<1>1. ~BadIndex(f)
  BY TreeFileReads
<1>2. \A x : In(x, t) <=> x \in TreeLinks(P, starts)
  BY TreeLineSeqHolds
<1>3. Len(ReadLinks(f)) = Len(t) /\ \A k \in 1 .. Len(t) : ReadLinks(f)[k].link = t[k] /\ t[k] \in TreeLinks(P, starts)
  BY TreeReadLines
<1> HIDE DEF t
<1>4. \A l \in TreeLinks(P, starts) : \E i \in 1 .. Len(t) : t[i] = l
  BY <1>2 DEF In
<1>5. ReadLinks(f) \in Seq(StoredLinks(f))
  BY <1>1, ReadLinksType
<1>6. QED
  BY <1>1, <1>3, <1>4, <1>5

(* Every node of the tree is on a link, and no link joins two hosts.       *)
LEMMA TreeInstalls ==
  ASSUME NEW P, NEW starts, IsTree(P, starts), NEW f, f = FattreeFile(P, starts), IsFile(f)
  PROVE  /\ ~Install(f, ReadLinks(f)).error
         /\ MissingHosts(f, ReadLinks(f)) = {} /\ MissingSwitches(f, ReadLinks(f)) = {}
<1> DEFINE L == ReadLinks(f)
           N == Len(L)
           I == Installing(f, L)
           w == P * CoreNum(P)
           T == {m \in 0 .. N : ~I[m].error}
<1>1. /\ L \in Seq(StoredLinks(f)) /\ N \in Nat
      /\ \A i \in 1 .. N : L[i].link \in TreeLinks(P, starts)
      /\ \A l \in TreeLinks(P, starts) : \E i \in 1 .. N : L[i].link = l
  BY TreeReads
<1>2. /\ f.switches = 5 * CoreNum(P) /\ f.hosts = w /\ CoreNum(P) \in Nat
      /\ f.switches \in Nat /\ f.hosts \in Nat
  BY TreeFileLines, TreeNumbers DEF IsFile
<1>3. I[0] = NewNet(f) /\ \A k \in 1 .. N : Joins(f, I[k - 1], L[k].link, I[k])
  BY <1>1, InstallingSteps
<1>4. Install(f, L) = I[N]
  BY DEF Install
<1> HIDE DEF L, N, I, w
<1>5. 0 \in T
  BY <1>1, <1>3 DEF NewNet
<1>6. ASSUME NEW m \in 1 .. N, m - 1 \in T PROVE m \in T
  <2>1. Joins(f, I[m - 1], L[m].link, I[m])
    BY <1>3
  <2>2. L[m].link.from < f.switches
    <3>1. L[m].link \in TreeLinks(P, starts)
      BY <1>1
    <3>2. L[m].link.from \in CoreNum(P) .. 5 * CoreNum(P) - 1
      BY <3>1, TreeLinkEnds
    <3> HIDE DEF CoreNum
    <3>3. QED
      BY <1>2, <3>2
  <2>3. m \in 0 .. N
    BY <1>1
  <2>4. QED
    BY <1>6, <2>1, <2>2, <2>3 DEF Joins
<1>7. ~I[N].error
  <2> HIDE DEF T
  <2>1. 0 .. N \subseteq T
    BY <1>1, <1>5, <1>6, Induction
  <2>2. QED
    BY <1>1, <2>1 DEF T
<1>8. ASSUME NEW x \in 0 .. 5 * CoreNum(P) + w - 1 PROVE x \in Created(L)
  <2>1. PICK l \in TreeLinks(P, starts) : x \in {l.from, l.to}
    BY TreeNodesLinked DEF w
  <2>2. PICK i \in 1 .. N : L[i].link = l
    BY <1>1
  <2>3. i \in DOMAIN L
    BY <1>1 DEF N
  <2>4. QED
    BY <2>1, <2>2, <2>3 DEF Created
<1>9. MissingHosts(f, L) = {}
  <2>1. \A x \in f.switches .. f.switches + f.hosts - 1 : x \in 0 .. 5 * CoreNum(P) + w - 1
    BY <1>2
  <2>2. QED
    BY <1>8, <2>1 DEF MissingHosts
<1>10. MissingSwitches(f, L) = {}
  <2>1. \A x \in 0 .. f.switches - 1 : x \in 0 .. 5 * CoreNum(P) + w - 1
    BY <1>2
  <2>2. QED
    BY <1>8, <2>1 DEF MissingSwitches
<1>11. QED
  BY <1>4, <1>7, <1>9, <1>10 DEF L

-----------------------------------------------------------------------------
(* The ports of the switches of a tree.                                    *)

Pod == program.podNum
Starts == program.starts

LEMMA FattreeProgram ==
  ASSUME program \in Programs, program.buildType = "fattree"
  PROVE  /\ IsTree(Pod, Starts) /\ file = FattreeFile(Pod, Starts) /\ IsFile(file)
         /\ file.switches = 5 * CoreNum(Pod) /\ file.hosts = Pod * CoreNum(Pod)
<1>1. IsProgram(program) /\ IsFattree(program)
  BY FlowTablesAssumption
<1>2. IsTree(Pod, Starts) /\ file = FattreeFile(Pod, Starts) /\ IsFile(file)
  BY <1>1 DEF IsProgram, IsFattree, IsTree, Pod, Starts, file
<1>3. QED
  BY <1>2, TreeFileLines

LEMMA FattreeProgress ==
  ASSUME Progress, program.buildType = "fattree", phase \in {"ports", "built", "running"}
  PROVE  /\ \A s \in SwitchesOf(file), x \in NodesIn(file) :
              (\E p \in 1 .. Len(net.ports[s]) : IsAt(file, net.ports[s][p], x)) <=> Linked(Pod, Starts, s, x)
         /\ \A s \in SwitchesOf(file) : \A p \in 1 .. Len(net.ports[s]) :
              \E x \in NodesIn(file) : IsAt(file, net.ports[s][p], x)
<1>1. /\ ~BadIndex(file) /\ links = ReadLinks(file) /\ net = Install(file, ReadLinks(file))
      /\ program \in Programs
  BY DEF Progress
<1>2. IsTree(Pod, Starts) /\ file = FattreeFile(Pod, Starts) /\ IsFile(file)
  BY <1>1, FattreeProgram
<1>3. /\ links \in Seq(StoredLinks(file))
      /\ \A i \in 1 .. Len(links) : links[i].link \in TreeLinks(Pod, Starts)
      /\ \A l \in TreeLinks(Pod, Starts) : \E i \in 1 .. Len(links) : links[i].link = l
  BY <1>1, <1>2, TreeReads
<1>4. ASSUME NEW s \in SwitchesOf(file), NEW x \in NodesIn(file)
      PROVE  (\E p \in 1 .. Len(net.ports[s]) : IsAt(file, net.ports[s][p], x)) <=> Linked(Pod, Starts, s, x)
  <2>1. (\E p \in 1 .. Len(net.ports[s]) : IsAt(file, net.ports[s][p], x)) <=>
          \E i \in 1 .. Len(links) : Between(links[i].link, s, x)
    BY <1>1, <1>2, PortsAreLinks
  <2>2. QED
    BY <1>3, <2>1 DEF Linked
<1>5. Stem(file, links, Len(links), net)
  BY <1>1, <1>2, <1>3, PortsStem
<1>6. QED
  BY <1>4, <1>5 DEF Stem

(* Every aggregation switch has a core switch above it if and only if the  *)
(* starts that were drawn leave out no residue.                            *)
AllResidues(P, starts) == {starts[c] : c \in DOMAIN starts} = 0 .. Half(P) - 1

LEMMA ResiduesDrawn ==
  ASSUME NEW P, NEW starts, IsTree(P, starts)
  PROVE  /\ AllResidues(P, starts) =>
              \A i \in Pods(P), j \in Places(P) : \E c \in Cores(P) : LinkedAggr(P, starts[c], i) = j
         /\ ~AllResidues(P, starts) =>
              /\ Half(P) > 0
              /\ \E j \in Places(P) : \A c \in Cores(P) : LinkedAggr(P, starts[c], 0) # j
<1> DEFINE H == Half(P)
<1>1. H \in Nat /\ \A c \in Cores(P) : starts[c] \in 0 .. H - 1
  BY TreeNumbers DEF Cores
<1>2. DOMAIN starts = Cores(P)
  BY DEF IsTree, Cores
<1>3. \A s, i : LinkedAggr(P, s, i) = (s + i + 1) % H
  BY DEF LinkedAggr
<1>4. Places(P) = 0 .. H - 1 /\ (AllResidues(P, starts) <=> {starts[c] : c \in Cores(P)} = 0 .. H - 1)
  BY <1>2 DEF AllResidues, Places
<1> HIDE DEF H
<1>5. ASSUME AllResidues(P, starts), NEW i \in Pods(P), NEW j \in Places(P)
      PROVE  \E c \in Cores(P) : LinkedAggr(P, starts[c], i) = j
  <2>1. i \in Nat /\ j \in 0 .. H - 1 /\ H > 0
    BY <1>1, <1>4 DEF Pods, IsTree
  <2> DEFINE a == (i + 1) % H
             q == (i + 1) \div H
             r == IF a <= j THEN j - a ELSE j - a + H
  <2>2. a \in 0 .. H - 1 /\ q \in Nat /\ i + 1 = q * H + a
    BY <1>1, <2>1
  <2>3. r \in 0 .. H - 1 /\ (r + a = j \/ r + a = j + H)
    <3> HIDE DEF a
    <3>1. QED
      BY <1>1, <2>1, <2>2
  <2> HIDE DEF a, q, r
  <2>4. r + i + 1 = q * H + j \/ r + i + 1 = (q + 1) * H + j
    BY <1>1, <2>1, <2>2, <2>3
  <2>5. (r + i + 1) % H = j
    <3>1. ASSUME NEW k \in Nat, r + i + 1 = k * H + j PROVE (r + i + 1) % H = j
      <4> DEFINE x == r + i + 1
                 d == x \div H
                 e == x % H
      <4>1. d \in Nat /\ e \in 0 .. H - 1 /\ d * H + e = k * H + j
        BY <1>1, <2>1, <2>3, <3>1
      <4> HIDE DEF x, d, e
      <4>2. d = k
        <5>1. CASE d < k
          <6>1. PICK n \in Nat : k = d + 1 + n
            BY <4>1, <5>1
          <6>2. k * H = d * H + H + n * H /\ n * H \in Nat /\ d * H \in Nat
            BY <1>1, <4>1, <6>1
          <6>3. QED
            BY <1>1, <2>1, <4>1, <6>2
        <5>2. CASE k < d
          <6>1. PICK n \in Nat : d = k + 1 + n
            BY <4>1, <5>2
          <6>2. d * H = k * H + H + n * H /\ n * H \in Nat /\ k * H \in Nat
            BY <1>1, <4>1, <6>1
          <6>3. QED
            BY <1>1, <2>1, <4>1, <6>2
        <5>3. QED
          BY <4>1, <5>1, <5>2
      <4>3. e = j
        BY <1>1, <2>1, <4>1, <4>2
      <4>4. QED
        BY <4>3 DEF e, x
    <3>2. QED
      BY <2>2, <2>4, <3>1
  <2>6. PICK c \in Cores(P) : starts[c] = r
    BY <1>4, <1>5, <2>3
  <2>7. QED
    BY <1>3, <2>5, <2>6
<1>6. ASSUME ~AllResidues(P, starts)
      PROVE  H > 0 /\ \E j \in Places(P) : \A c \in Cores(P) : LinkedAggr(P, starts[c], 0) # j
  <2>1. PICK r \in 0 .. H - 1 : \A c \in Cores(P) : starts[c] # r
    BY <1>1, <1>4, <1>6
  <2>2. H > 0
    BY <1>1, <2>1
  <2> DEFINE j == (r + 0 + 1) % H
  <2>3. j \in 0 .. H - 1
    BY <1>1, <2>1, <2>2
  <2>4. ASSUME NEW c \in Cores(P), LinkedAggr(P, starts[c], 0) = j PROVE FALSE
    <3>1. (starts[c] + 0 + 1) % H = (r + 0 + 1) % H
      BY <1>3, <2>4
    <3>2. starts[c] \in 0 .. H - 1 /\ starts[c] # r
      BY <1>1, <2>1
    <3>3. ASSUME NEW x \in 0 .. H - 1
          PROVE  (x + 0 + 1) % H = IF x = H - 1 THEN 0 ELSE x + 1
      <4>1. CASE x = H - 1
        <5>1. x + 0 + 1 = 1 * H + 0
          BY <1>1, <4>1
        <5>2. QED
          BY <1>1, <2>2, <4>1, <5>1
      <4>2. CASE x # H - 1
        <5>1. x + 0 + 1 \in 0 .. H - 1
          BY <1>1, <4>2
        <5>2. QED
          BY <1>1, <2>2, <4>2, <5>1
      <4>3. QED
        BY <4>1, <4>2
    <3>4. (IF starts[c] = H - 1 THEN 0 ELSE starts[c] + 1) = (IF r = H - 1 THEN 0 ELSE r + 1)
      BY <2>1, <3>1, <3>2, <3>3
    <3> HIDE DEF j
    <3>5. QED
      BY <1>1, <2>1, <3>2, <3>4
  <2> HIDE DEF j
  <2>5. QED
    BY <1>4, <2>2, <2>3, <2>4
<1>7. QED
  BY <1>5, <1>6 DEF H

(* The tree once its links are installed.                                  *)
TreeBuilt ==
  /\ IsTree(Pod, Starts)
  /\ file.switches = 5 * CoreNum(Pod) /\ file.hosts = Pod * CoreNum(Pod)
  /\ Wired(file, net) /\ IsFile(file)
  /\ \A s \in SwitchesOf(file), x \in NodesIn(file) :
       (\E p \in 1 .. Len(net.ports[s]) : IsAt(file, net.ports[s][p], x)) <=> Linked(Pod, Starts, s, x)
  /\ \A s \in SwitchesOf(file) : \A p \in 1 .. Len(net.ports[s]) :
       \E x \in NodesIn(file) : IsAt(file, net.ports[s][p], x)

LEMMA FattreeBuilt ==
  ASSUME Progress, program.buildType = "fattree", phase \in {"ports", "built", "running"}
  PROVE  TreeBuilt
BY FattreeProgram, FattreeProgress, ProgressWired DEF TreeBuilt, Progress

(* The switches and hosts by what they are. *)
Aggr(i, j) == AggrIndex(Pod, i, j)
Edge(i, j) == EdgeIndex(Pod, i, j)
Host(i, j, p) == HostIndex(Pod, i, j, p) - file.switches

LEMMA TreeSwitches ==
  ASSUME TreeBuilt, NEW i \in Pods(Pod), NEW j \in Places(Pod)
  PROVE  /\ Aggr(i, j) \in SwitchesOf(file) /\ Edge(i, j) \in SwitchesOf(file)
         /\ Aggr(i, j) \in Aggrs /\ Aggr(i, j) \notin Edges /\ Edge(i, j) \in Edges /\ Edge(i, j) \notin Aggrs
         /\ Aggr(i, j) < file.switches /\ Edge(i, j) < file.switches
         /\ \A p \in Places(Pod) : /\ Host(i, j, p) \in HostsOf(file)
                                   /\ HostIndex(Pod, i, j, p) \in NodesIn(file)
                                   /\ ~(HostIndex(Pod, i, j, p) < file.switches)
<1> DEFINE C == CoreNum(Pod)
           w == Pod * C
<1>1. IsTree(Pod, Starts) /\ C \in Nat /\ file.switches = 5 * C /\ file.hosts = w /\ w \in Nat
  BY TreeNumbers DEF TreeBuilt, IsFile
<1>2. \A k \in Pods(Pod), l \in Places(Pod) :
        Aggr(k, l) \in C .. 3 * C - 1 /\ Edge(k, l) \in 3 * C .. 5 * C - 1
  BY <1>1, TreeNodes DEF Aggr, Edge
<1>3. \A p \in Places(Pod) : HostIndex(Pod, i, j, p) \in 5 * C .. 5 * C + w - 1
  BY <1>1, TreeNodes
<1> HIDE DEF C, w
<1>4. Aggrs = {Aggr(k, l) : k \in Pods(Pod), l \in Places(Pod)}
  BY DEF Aggrs, Aggr, Pods, Places, Pod
<1>5. Edges = {Edge(k, l) : k \in Pods(Pod), l \in Places(Pod)}
  BY DEF Edges, Edge, Pods, Places, Pod
<1>6. \A k \in Pods(Pod), l \in Places(Pod) : Aggr(i, j) # Edge(k, l) /\ Edge(i, j) # Aggr(k, l)
  BY <1>1, <1>2
<1>7. Aggr(i, j) \in SwitchesOf(file) /\ Edge(i, j) \in SwitchesOf(file)
  BY <1>1, <1>2 DEF SwitchesOf
<1>8. \A p \in Places(Pod) : /\ Host(i, j, p) \in HostsOf(file) /\ HostIndex(Pod, i, j, p) \in NodesIn(file)
                             /\ ~(HostIndex(Pod, i, j, p) < file.switches)
  BY <1>1, <1>3 DEF Host, HostsOf, NodesIn
<1>9. Aggr(i, j) < file.switches /\ Edge(i, j) < file.switches
  BY <1>1, <1>2
<1>10. QED
  BY <1>4, <1>5, <1>6, <1>7, <1>8, <1>9

LEMMA TreeCores ==
  ASSUME TreeBuilt, NEW c \in Cores(Pod)
  PROVE  c \in SwitchesOf(file) /\ c \notin Aggrs /\ c \notin Edges /\ c < file.switches
<1> DEFINE C == CoreNum(Pod)
<1>1. IsTree(Pod, Starts) /\ C \in Nat /\ file.switches = 5 * C /\ c \in 0 .. C - 1
  BY TreeNumbers DEF TreeBuilt, Cores
<1>2. \A k \in Pods(Pod), l \in Places(Pod) :
        Aggr(k, l) \in C .. 3 * C - 1 /\ Edge(k, l) \in 3 * C .. 5 * C - 1
  BY <1>1, TreeNodes DEF Aggr, Edge
<1> HIDE DEF C
<1>3. \A k \in Pods(Pod), l \in Places(Pod) : c # Aggr(k, l) /\ c # Edge(k, l)
  BY <1>1, <1>2
<1>4. Aggrs = {Aggr(k, l) : k \in Pods(Pod), l \in Places(Pod)}
  BY DEF Aggrs, Aggr, Pods, Places, Pod
<1>5. Edges = {Edge(k, l) : k \in Pods(Pod), l \in Places(Pod)}
  BY DEF Edges, Edge, Pods, Places, Pod
<1>6. QED
  BY <1>1, <1>3, <1>4, <1>5 DEF SwitchesOf

(* A port of an edge switch leads to an aggregation switch of its pod or   *)
(* to one of its own hosts; and there is one to each.                      *)
LEMMA EdgePorts ==
  ASSUME TreeBuilt, NEW i \in Pods(Pod), NEW j \in Places(Pod)
  PROVE  /\ \A p \in Ports(Edge(i, j)) :
              \/ net.ports[Edge(i, j)][p].flag = 1 /\ \E k \in Places(Pod) : net.ports[Edge(i, j)][p].node = Aggr(i, k)
              \/ net.ports[Edge(i, j)][p].flag = 0 /\ \E q \in Places(Pod) : net.ports[Edge(i, j)][p].node = Host(i, j, q)
         /\ \A k \in Places(Pod) : \E p \in Ports(Edge(i, j)) :
              net.ports[Edge(i, j)][p].flag = 1 /\ net.ports[Edge(i, j)][p].node = Aggr(i, k)
         /\ \A q \in Places(Pod) : \E p \in Ports(Edge(i, j)) :
              net.ports[Edge(i, j)][p].flag = 0 /\ net.ports[Edge(i, j)][p].node = Host(i, j, q)
<1> DEFINE s == Edge(i, j)
<1>1. IsTree(Pod, Starts) /\ s \in SwitchesOf(file) /\ Ports(s) = 1 .. Len(net.ports[s])
  BY TreeSwitches, PortsOf DEF TreeBuilt
<1>2. \A k \in Places(Pod) : Aggr(i, k) < file.switches /\ Aggr(i, k) \in NodesIn(file)
  <2>1. ASSUME NEW k \in Places(Pod) PROVE Aggr(i, k) < file.switches /\ Aggr(i, k) \in NodesIn(file)
    <3>1. Aggr(i, k) < file.switches /\ Aggr(i, k) \in SwitchesOf(file)
      BY TreeSwitches
    <3>2. QED
      BY <3>1 DEF SwitchesOf, NodesIn, TreeBuilt, IsFile
  <2>2. QED
    BY <2>1
<1>3. \A q \in Places(Pod) : HostIndex(Pod, i, j, q) \in NodesIn(file) /\ ~(HostIndex(Pod, i, j, q) < file.switches)
  BY TreeSwitches
<1> HIDE DEF s
<1>4. ASSUME NEW p \in Ports(s)
      PROVE  \/ net.ports[s][p].flag = 1 /\ \E k \in Places(Pod) : net.ports[s][p].node = Aggr(i, k)
             \/ net.ports[s][p].flag = 0 /\ \E q \in Places(Pod) : net.ports[s][p].node = Host(i, j, q)
  <2>1. PICK x \in NodesIn(file) : IsAt(file, net.ports[s][p], x)
    BY <1>1 DEF TreeBuilt
  <2>2. Linked(Pod, Starts, s, x)
    BY <1>1, <2>1 DEF TreeBuilt
  <2>3. (\E k \in Places(Pod) : x = Aggr(i, k)) \/ (\E q \in Places(Pod) : x = HostIndex(Pod, i, j, q))
    BY <1>1, <2>2, EdgeLinked DEF s, Edge, Aggr
  <2>4. QED
    BY <1>2, <1>3, <2>1, <2>3 DEF IsAt, Host
<1>5. ASSUME NEW x \in NodesIn(file), Linked(Pod, Starts, s, x)
      PROVE  \E p \in Ports(s) : IsAt(file, net.ports[s][p], x)
  BY <1>1, <1>5 DEF TreeBuilt
<1>6. ASSUME NEW k \in Places(Pod)
      PROVE  \E p \in Ports(s) : net.ports[s][p].flag = 1 /\ net.ports[s][p].node = Aggr(i, k)
  <2>1. Linked(Pod, Starts, s, Aggr(i, k))
    BY <1>1, TreeLinked DEF s, Edge, Aggr
  <2>2. QED
    BY <1>2, <1>5, <2>1 DEF IsAt
<1>7. ASSUME NEW q \in Places(Pod)
      PROVE  \E p \in Ports(s) : net.ports[s][p].flag = 0 /\ net.ports[s][p].node = Host(i, j, q)
  <2>1. Linked(Pod, Starts, s, HostIndex(Pod, i, j, q))
    BY <1>1, TreeLinked DEF s, Edge
  <2>2. QED
    BY <1>3, <1>5, <2>1 DEF IsAt, Host
<1>8. QED
  BY <1>4, <1>6, <1>7 DEF s

(* A port of an aggregation switch leads to an edge switch of its pod, or  *)
(* to a core switch that linked it; and there is one to each.              *)
LEMMA AggrPorts ==
  ASSUME TreeBuilt, NEW i \in Pods(Pod), NEW j \in Places(Pod)
  PROVE  /\ \A p \in Ports(Aggr(i, j)) :
              /\ net.ports[Aggr(i, j)][p].flag = 1
              /\ \/ \E k \in Places(Pod) : net.ports[Aggr(i, j)][p].node = Edge(i, k)
                 \/ /\ net.ports[Aggr(i, j)][p].node \in Cores(Pod)
                    /\ LinkedAggr(Pod, Starts[net.ports[Aggr(i, j)][p].node], i) = j
         /\ \A k \in Places(Pod) : \E p \in Ports(Aggr(i, j)) :
              net.ports[Aggr(i, j)][p].flag = 1 /\ net.ports[Aggr(i, j)][p].node = Edge(i, k)
         /\ \A c \in Cores(Pod) : LinkedAggr(Pod, Starts[c], i) = j =>
              \E p \in Ports(Aggr(i, j)) : net.ports[Aggr(i, j)][p].flag = 1 /\ net.ports[Aggr(i, j)][p].node = c
<1> DEFINE s == Aggr(i, j)
<1>1. IsTree(Pod, Starts) /\ s \in SwitchesOf(file) /\ Ports(s) = 1 .. Len(net.ports[s])
  BY TreeSwitches, PortsOf DEF TreeBuilt
<1>a. \A x \in SwitchesOf(file) : x \in NodesIn(file)
  BY DEF SwitchesOf, NodesIn, TreeBuilt, IsFile
<1>2. \A k \in Places(Pod) : Edge(i, k) < file.switches /\ Edge(i, k) \in NodesIn(file)
  BY <1>a, TreeSwitches
<1>3. \A c \in Cores(Pod) : c < file.switches /\ c \in NodesIn(file)
  BY <1>a, TreeCores
<1> HIDE DEF s
<1>4. ASSUME NEW p \in Ports(s)
      PROVE  /\ net.ports[s][p].flag = 1
             /\ \/ \E k \in Places(Pod) : net.ports[s][p].node = Edge(i, k)
                \/ net.ports[s][p].node \in Cores(Pod) /\ LinkedAggr(Pod, Starts[net.ports[s][p].node], i) = j
  <2>1. PICK x \in NodesIn(file) : IsAt(file, net.ports[s][p], x)
    BY <1>1 DEF TreeBuilt
  <2>2. Linked(Pod, Starts, s, x)
    BY <1>1, <2>1 DEF TreeBuilt
  <2>3. (\E k \in Places(Pod) : x = Edge(i, k)) \/ (x \in Cores(Pod) /\ LinkedAggr(Pod, Starts[x], i) = j)
    BY <1>1, <2>2, AggrLinked DEF s, Edge, Aggr
  <2>4. x < file.switches
    BY <1>2, <1>3, <2>3
  <2>5. net.ports[s][p].flag = 1 /\ net.ports[s][p].node = x
    BY <2>1, <2>4 DEF IsAt
  <2>6. QED
    BY <2>3, <2>5
<1>5. ASSUME NEW x \in NodesIn(file), Linked(Pod, Starts, s, x)
      PROVE  \E p \in Ports(s) : IsAt(file, net.ports[s][p], x)
  BY <1>1, <1>5 DEF TreeBuilt
<1>6. ASSUME NEW k \in Places(Pod)
      PROVE  \E p \in Ports(s) : net.ports[s][p].flag = 1 /\ net.ports[s][p].node = Edge(i, k)
  <2>1. Linked(Pod, Starts, s, Edge(i, k))
    BY <1>1, TreeLinked DEF s, Edge, Aggr
  <2>2. QED
    BY <1>2, <1>5, <2>1 DEF IsAt
<1>7. ASSUME NEW c \in Cores(Pod), LinkedAggr(Pod, Starts[c], i) = j
      PROVE  \E p \in Ports(s) : net.ports[s][p].flag = 1 /\ net.ports[s][p].node = c
  <2>1. Linked(Pod, Starts, s, c)
    BY <1>1, <1>7, TreeLinked DEF s, Aggr
  <2>2. QED
    BY <1>3, <1>5, <2>1 DEF IsAt
<1>8. QED
  BY <1>4, <1>6, <1>7 DEF s

LEMMA CorePorts ==
  ASSUME TreeBuilt, NEW c \in Cores(Pod)
  PROVE  /\ \A p \in Ports(c) :
              /\ net.ports[c][p].flag = 1
              /\ \E i \in Pods(Pod) : net.ports[c][p].node = Aggr(i, LinkedAggr(Pod, Starts[c], i))
         /\ \A i \in Pods(Pod) : \E p \in Ports(c) :
              net.ports[c][p].flag = 1 /\ net.ports[c][p].node = Aggr(i, LinkedAggr(Pod, Starts[c], i))
<1>1. IsTree(Pod, Starts) /\ c \in SwitchesOf(file) /\ Ports(c) = 1 .. Len(net.ports[c])
  BY TreeCores, PortsOf DEF TreeBuilt
<1>2. \A i \in Pods(Pod) : LinkedAggr(Pod, Starts[c], i) \in Places(Pod)
  BY <1>1, UpLinkNodes
<1>a. \A x \in SwitchesOf(file) : x \in NodesIn(file)
  BY DEF SwitchesOf, NodesIn, TreeBuilt, IsFile
<1>3. \A i \in Pods(Pod) : /\ Aggr(i, LinkedAggr(Pod, Starts[c], i)) < file.switches
                           /\ Aggr(i, LinkedAggr(Pod, Starts[c], i)) \in NodesIn(file)
  BY <1>2, <1>a, TreeSwitches
<1>4. ASSUME NEW p \in Ports(c)
      PROVE  /\ net.ports[c][p].flag = 1
             /\ \E i \in Pods(Pod) : net.ports[c][p].node = Aggr(i, LinkedAggr(Pod, Starts[c], i))
  <2>1. PICK x \in NodesIn(file) : IsAt(file, net.ports[c][p], x)
    BY <1>1 DEF TreeBuilt
  <2>2. Linked(Pod, Starts, c, x)
    BY <1>1, <2>1 DEF TreeBuilt
  <2>3. PICK i \in Pods(Pod) : x = Aggr(i, LinkedAggr(Pod, Starts[c], i))
    BY <1>1, <2>2, CoreLinked DEF Aggr
  <2>4. net.ports[c][p].flag = 1 /\ net.ports[c][p].node = x
    BY <1>3, <2>1, <2>3 DEF IsAt
  <2>5. QED
    BY <2>3, <2>4
<1>5. ASSUME NEW i \in Pods(Pod)
      PROVE  \E p \in Ports(c) : net.ports[c][p].flag = 1 /\ net.ports[c][p].node = Aggr(i, LinkedAggr(Pod, Starts[c], i))
  <2> DEFINE x == Aggr(i, LinkedAggr(Pod, Starts[c], i))
  <2>1. Linked(Pod, Starts, c, x)
    BY <1>1, <1>2, TreeLinked DEF Aggr
  <2>2. x \in NodesIn(file) /\ x < file.switches
    BY <1>3
  <2> HIDE DEF x
  <2>3. PICK p \in Ports(c) : IsAt(file, net.ports[c][p], x)
    BY <1>1, <2>1, <2>2 DEF TreeBuilt
  <2>4. QED
    BY <2>2, <2>3 DEF IsAt, x
<1>6. QED
  BY <1>4, <1>5

(* The hosts a switch of a tree reaches without going up, and the ports    *)
(* that lead up.                                                           *)
LEMMA EdgeReach ==
  ASSUME TreeBuilt, NEW i \in Pods(Pod), NEW j \in Places(Pod)
  PROVE  /\ OtherPorts(Edge(i, j)) # {}
         /\ \A h : h \in ReachHosts(Edge(i, j)) <=> \E q \in Places(Pod) : h = Host(i, j, q)
<1> DEFINE s == Edge(i, j)
<1>1. s \in Edges /\ s \notin Aggrs
  BY TreeSwitches
<1>2. /\ \A p \in Ports(s) :
           \/ net.ports[s][p].flag = 1 /\ \E k \in Places(Pod) : net.ports[s][p].node = Aggr(i, k)
           \/ net.ports[s][p].flag = 0 /\ \E q \in Places(Pod) : net.ports[s][p].node = Host(i, j, q)
      /\ \A k \in Places(Pod) : \E p \in Ports(s) : net.ports[s][p].flag = 1 /\ net.ports[s][p].node = Aggr(i, k)
      /\ \A q \in Places(Pod) : \E p \in Ports(s) : net.ports[s][p].flag = 0 /\ net.ports[s][p].node = Host(i, j, q)
  BY EdgePorts
<1> HIDE DEF s
<1>3. HostPorts(s) = {p \in Ports(s) : net.ports[s][p].flag = 0} /\ DownPorts(s) = HostPorts(s)
  BY <1>1 DEF HostPorts, DownPorts
<1>4. OtherPorts(s) # {}
  <2>1. PICK p \in Ports(s) : net.ports[s][p].flag = 1
    BY <1>2
  <2>2. QED
    BY <1>3, <2>1 DEF OtherPorts
<1>5. ReachHosts(s) = {net.ports[s][p].node : p \in HostPorts(s)}
  BY <1>1 DEF ReachHosts
<1>6. ASSUME NEW h \in ReachHosts(s) PROVE \E q \in Places(Pod) : h = Host(i, j, q)
  <2>1. PICK p \in HostPorts(s) : h = net.ports[s][p].node
    BY <1>5
  <2>2. p \in Ports(s) /\ net.ports[s][p].flag = 0
    BY <1>3, <2>1
  <2>3. QED
    BY <1>2, <2>1, <2>2
<1>7. ASSUME NEW q \in Places(Pod) PROVE Host(i, j, q) \in ReachHosts(s)
  <2>1. PICK p \in Ports(s) : net.ports[s][p].flag = 0 /\ net.ports[s][p].node = Host(i, j, q)
    BY <1>2
  <2>2. p \in HostPorts(s)
    BY <1>3, <2>1
  <2>3. QED
    BY <1>5, <2>1, <2>2
<1>8. QED
  BY <1>4, <1>6, <1>7 DEF s

LEMMA AggrDown ==
  ASSUME TreeBuilt, NEW i \in Pods(Pod), NEW j \in Places(Pod)
  PROVE  /\ \A p \in Ports(Aggr(i, j)) :
              p \in DownPorts(Aggr(i, j)) <=> \E k \in Places(Pod) : net.ports[Aggr(i, j)][p].node = Edge(i, k)
         /\ \A p \in OtherPorts(Aggr(i, j)) :
              /\ net.ports[Aggr(i, j)][p].node \in Cores(Pod)
              /\ LinkedAggr(Pod, Starts[net.ports[Aggr(i, j)][p].node], i) = j
         /\ OtherPorts(Aggr(i, j)) = {} <=> \A c \in Cores(Pod) : LinkedAggr(Pod, Starts[c], i) # j
<1> DEFINE s == Aggr(i, j)
           C == CoreNum(Pod)
<1>1. s \in Aggrs /\ IsTree(Pod, Starts)
  BY TreeSwitches DEF TreeBuilt
<1>2. C \in Nat /\ s \in C .. 3 * C - 1 /\ \A k \in Places(Pod) : Edge(i, k) \in 3 * C .. 5 * C - 1
  BY <1>1, TreeNumbers, TreeNodes DEF Aggr, Edge
<1>3. \A c \in Cores(Pod) : c \in 0 .. C - 1
  BY DEF Cores
<1>4. /\ \A p \in Ports(s) :
           \/ \E k \in Places(Pod) : net.ports[s][p].node = Edge(i, k)
           \/ net.ports[s][p].node \in Cores(Pod) /\ LinkedAggr(Pod, Starts[net.ports[s][p].node], i) = j
      /\ \A c \in Cores(Pod) : LinkedAggr(Pod, Starts[c], i) = j =>
           \E p \in Ports(s) : net.ports[s][p].flag = 1 /\ net.ports[s][p].node = c
  BY AggrPorts
<1> HIDE DEF s, C
<1>5. DownPorts(s) = {p \in Ports(s) : net.ports[s][p].node > s}
  BY <1>1 DEF DownPorts
<1>6. \A c \in Cores(Pod) : ~(c > s)
  BY <1>2, <1>3
<1>7. \A k \in Places(Pod) : Edge(i, k) > s
  BY <1>2
<1>8. \A p \in Ports(s) : p \in DownPorts(s) <=> \E k \in Places(Pod) : net.ports[s][p].node = Edge(i, k)
  BY <1>4, <1>5, <1>6, <1>7
<1>9. ASSUME NEW p \in OtherPorts(s)
      PROVE  net.ports[s][p].node \in Cores(Pod) /\ LinkedAggr(Pod, Starts[net.ports[s][p].node], i) = j
  <2>1. p \in Ports(s) /\ p \notin DownPorts(s)
    BY DEF OtherPorts
  <2>2. QED
    BY <1>4, <1>8, <2>1
<1>10. ASSUME NEW c \in Cores(Pod), LinkedAggr(Pod, Starts[c], i) = j PROVE OtherPorts(s) # {}
  <2>1. PICK p \in Ports(s) : net.ports[s][p].node = c
    BY <1>4, <1>10
  <2>2. p \notin DownPorts(s)
    BY <1>5, <1>6, <2>1
  <2>3. QED
    BY <2>1, <2>2 DEF OtherPorts
<1>11. QED
  BY <1>8, <1>9, <1>10 DEF s

LEMMA AggrReach ==
  ASSUME TreeBuilt, NEW i \in Pods(Pod), NEW j \in Places(Pod)
  PROVE  \A h : h \in ReachHosts(Aggr(i, j)) <=> \E k \in Places(Pod) : \E q \in Places(Pod) : h = Host(i, k, q)
<1> DEFINE s == Aggr(i, j)
           E == {net.ports[s][p].node : p \in DownPorts(s)}
           R(e) == {net.ports[e][p].node : p \in HostPorts(e)}
<1>1. s \notin Edges
  BY TreeSwitches
<1>2. \A k \in Places(Pod) : Edge(i, k) \in Edges
  BY TreeSwitches
<1>3. ReachHosts(s) = UNION {R(e) : e \in E}
  BY <1>1 DEF ReachHosts
<1>4. \A e : e \in E <=> \E k \in Places(Pod) : e = Edge(i, k)
  <2>1. \A p \in Ports(s) : p \in DownPorts(s) <=> \E k \in Places(Pod) : net.ports[s][p].node = Edge(i, k)
    BY AggrDown
  <2>2. \A k \in Places(Pod) : \E p \in Ports(s) : net.ports[s][p].node = Edge(i, k)
    BY AggrPorts
  <2>3. DownPorts(s) \subseteq Ports(s)
    BY DEF DownPorts, HostPorts
  <2> HIDE DEF s
  <2>4. QED
    BY <2>1, <2>2, <2>3
<1>5. \A k \in Places(Pod) : R(Edge(i, k)) = ReachHosts(Edge(i, k))
  BY <1>2 DEF ReachHosts
<1>6. \A k \in Places(Pod) : \A h : h \in ReachHosts(Edge(i, k)) <=> \E q \in Places(Pod) : h = Host(i, k, q)
  BY EdgeReach
<1> HIDE DEF s, E, R
<1>7. ASSUME NEW h, h \in ReachHosts(s) PROVE \E k \in Places(Pod) : \E q \in Places(Pod) : h = Host(i, k, q)
  <2>1. PICK e \in E : h \in R(e)
    BY <1>3, <1>7
  <2>2. PICK k \in Places(Pod) : e = Edge(i, k)
    BY <1>4
  <2>3. h \in ReachHosts(Edge(i, k))
    BY <1>5, <2>1, <2>2
  <2>4. QED
    BY <1>6, <2>3
<1>8. ASSUME NEW k \in Places(Pod), NEW q \in Places(Pod) PROVE Host(i, k, q) \in ReachHosts(s)
  <2>1. Host(i, k, q) \in R(Edge(i, k))
    BY <1>5, <1>6
  <2>2. Edge(i, k) \in E
    BY <1>4
  <2>3. QED
    BY <1>3, <2>1, <2>2
<1>9. QED
  BY <1>7, <1>8 DEF s

(* Some switch has nothing to draw from exactly when a residue is missing. *)
LEMMA NothingToDrawWhen ==
  ASSUME TreeBuilt
  PROVE  NothingToDraw <=> ~AllResidues(Pod, Starts)
<1>1. IsTree(Pod, Starts)
  BY DEF TreeBuilt
<1>2. ASSUME NothingToDraw PROVE ~AllResidues(Pod, Starts)
  <2>1. PICK s \in Edges \cup Aggrs : OtherPorts(s) = {}
    BY <1>2 DEF NothingToDraw
  <2>2. s \notin Edges
    <3>1. SUFFICES ASSUME s \in Edges PROVE FALSE
      OBVIOUS
    <3>2. PICK i \in Pods(Pod), j \in Places(Pod) : s = Edge(i, j)
      BY <3>1 DEF Edges, Edge, Pods, Places, Pod
    <3>3. QED
      BY <2>1, <3>2, EdgeReach
  <2>3. PICK i \in Pods(Pod), j \in Places(Pod) : s = Aggr(i, j)
    BY <2>2 DEF Aggrs, Aggr, Pods, Places, Pod
  <2>4. \A c \in Cores(Pod) : LinkedAggr(Pod, Starts[c], i) # j
    BY <2>1, <2>3, AggrDown
  <2>5. QED
    BY <1>1, <2>4, ResiduesDrawn
<1>3. ASSUME ~AllResidues(Pod, Starts) PROVE NothingToDraw
  <2>1. Half(Pod) > 0 /\ \E j \in Places(Pod) : \A c \in Cores(Pod) : LinkedAggr(Pod, Starts[c], 0) # j
    BY <1>1, <1>3, ResiduesDrawn
  <2>2. PICK j \in Places(Pod) : \A c \in Cores(Pod) : LinkedAggr(Pod, Starts[c], 0) # j
    BY <2>1
  <2>3. 0 \in Pods(Pod) /\ 1 \in Pods(Pod) /\ 0 \in Places(Pod)
    <3>1. Half(Pod) \in Nat /\ Pod \in Nat /\ Pod >= 2
      BY <1>1, <2>1, TreeNumbers DEF IsTree
    <3> HIDE DEF Half, Pod
    <3>2. QED
      BY <2>1, <3>1 DEF Pods, Places
  <2> DEFINE s == Aggr(0, j)
             h == Host(1, 0, 0)
  <2>4. OtherPorts(s) = {}
    BY <2>2, <2>3, AggrDown
  <2>5. s \in Aggrs /\ h \in HostsOf(file)
    BY <2>3, TreeSwitches
  <2>6. h \notin ReachHosts(s)
    <3>1. SUFFICES ASSUME h \in ReachHosts(s) PROVE FALSE
      OBVIOUS
    <3>2. PICK k \in Places(Pod), q \in Places(Pod) : h = Host(0, k, q)
      BY <2>3, <3>1, AggrReach
    <3>3. HostIndex(Pod, 1, 0, 0) = HostIndex(Pod, 0, k, q)
      <4>1. HostIndex(Pod, 1, 0, 0) \in NodesIn(file) /\ HostIndex(Pod, 0, k, q) \in NodesIn(file)
        BY <2>3, TreeSwitches
      <4>2. file.switches \in Nat /\ file.hosts \in Nat
        BY DEF TreeBuilt, IsFile
      <4>3. HostIndex(Pod, 1, 0, 0) - file.switches = HostIndex(Pod, 0, k, q) - file.switches
        BY <3>2 DEF Host
      <4> HIDE DEF HostIndex
      <4>4. QED
        BY <4>1, <4>2, <4>3 DEF NodesIn
    <3>4. QED
      BY <1>1, <2>3, <3>3, TreeNodesDiffer
  <2>7. QED
    BY <2>4, <2>5, <2>6 DEF NothingToDraw
<1>4. QED
  BY <1>2, <1>3

-----------------------------------------------------------------------------
(* Where a fat tree crashes. *)
CrashesWhen ==
  program.buildType = "fattree" =>
    /\ phase = "crashed" => ~AllResidues(Pod, Starts)
    /\ phase \in {"built", "running"} => AllResidues(Pod, Starts)

LEMMA CrashesInductive ==
  ASSUME Progress, CrashesWhen, [Next]_vars PROVE CrashesWhen'
<1>1. ASSUME program' = program, phase' = phase PROVE CrashesWhen'
  BY <1>1 DEF CrashesWhen, Pod, Starts
<1>2. ASSUME program' = program, program.buildType # "fattree" PROVE CrashesWhen'
  BY <1>2 DEF CrashesWhen
<1>3. ASSUME program' = program, program.buildType = "fattree", phase' \notin {"crashed", "built", "running"}
      PROVE  CrashesWhen'
  BY <1>3 DEF CrashesWhen
<1>4. program \in Programs
  BY DEF Progress
<1>5. ASSUME program.buildType = "fattree"
      PROVE  /\ IsTree(Pod, Starts) /\ file = FattreeFile(Pod, Starts) /\ IsFile(file)
             /\ ~BadIndex(file) /\ FunctionsRead(file)
             /\ ~Install(file, ReadLinks(file)).error
             /\ MissingHosts(file, ReadLinks(file)) = {} /\ MissingSwitches(file, ReadLinks(file)) = {}
  <2>1. IsTree(Pod, Starts) /\ file = FattreeFile(Pod, Starts) /\ IsFile(file)
    BY <1>4, <1>5, FattreeProgram
  <2>2. ~BadIndex(file) /\ FunctionsRead(file)
    BY <2>1, TreeFileReads
  <2>3. /\ ~Install(file, ReadLinks(file)).error
        /\ MissingHosts(file, ReadLinks(file)) = {} /\ MissingSwitches(file, ReadLinks(file)) = {}
    BY <2>1, TreeInstalls
  <2>4. QED
    BY <2>1, <2>2, <2>3
<1>6. CASE ReadTopology
  BY <1>2, <1>3, <1>5, <1>6 DEF ReadTopology
<1>7. CASE InstallLinks
  <2>1. program' = program /\ phase = "links"
    BY <1>7 DEF InstallLinks
  <2>2. ASSUME program.buildType = "fattree" PROVE CrashesWhen'
    <3>1. links = ReadLinks(file)
      BY <2>1 DEF Progress
    <3>2. net' = Install(file, links)
      BY <1>7 DEF InstallLinks
    <3>3. ~net'.error /\ MissingHosts(file, links) = {}
      BY <1>5, <2>2, <3>1, <3>2
    <3>4. phase' \in {"refused", "ports"}
      BY <1>7, <3>3 DEF InstallLinks
    <3>5. QED
      BY <1>3, <2>1, <2>2, <3>4
  <2>3. QED
    BY <1>2, <2>1, <2>2
<1>8. CASE BuildTables
  <2>1. program' = program /\ phase = "ports"
    BY <1>8 DEF BuildTables
  <2>2. ASSUME program.buildType = "fattree" PROVE CrashesWhen'
    <3>1. NothingToDraw <=> ~AllResidues(Pod, Starts)
      BY <2>1, <2>2, FattreeBuilt, NothingToDrawWhen
    <3>2. phase' = IF NothingToDraw THEN "crashed" ELSE "built"
      BY <1>8, <2>2 DEF BuildTables
    <3>3. QED
      BY <2>1, <3>1, <3>2 DEF CrashesWhen, Pod, Starts
  <2>3. QED
    BY <1>2, <2>1, <2>2
<1>9. CASE InstallSwitches
  <2>1. program' = program /\ phase = "built"
    BY <1>9 DEF InstallSwitches
  <2>2. ASSUME program.buildType = "fattree" PROVE CrashesWhen'
    <3>1. links = ReadLinks(file)
      BY <2>1 DEF Progress
    <3>2. MissingSwitches(file, links) = {}
      BY <1>5, <2>2, <3>1
    <3>3. phase' = "running"
      BY <1>9, <3>2 DEF InstallSwitches
    <3>4. AllResidues(Pod, Starts)
      BY <2>1, <2>2 DEF CrashesWhen
    <3>5. QED
      BY <2>1, <3>3, <3>4 DEF CrashesWhen, Pod, Starts
  <2>3. QED
    BY <1>2, <2>1, <2>2
<1>10. (\E flow \in program.flows : BeginFlow(flow)) \/ Drop \/ Hop \/ UNCHANGED vars
         => UNCHANGED <<program, phase>>
  BY Zenon DEF BeginFlow, Drop, Hop, vars
<1>11. QED
  BY <1>1, <1>6, <1>7, <1>8, <1>9, <1>10 DEF Next

(* Building the tables of a fat tree divides by zero exactly when the      *)
(* starts that the core switches drew leave out a residue: then some       *)
(* aggregation switch has no core switch above it, and draws a port from   *)
(* none; a fat tree that has got past it had them all                      *)
(* (SetSwitchesFlowtableEntries).                                          *)
THEOREM CrashExplainedHolds == Spec => []CrashExplained
<1>1. Init => CrashesWhen
  BY DEF Init, CrashesWhen
<1>2. CrashesWhen => CrashExplained
  BY DEF CrashesWhen, CrashExplained, AllResidues, Pod, Starts
<1>3. QED
  BY <1>1, <1>2, CrashesInductive, ProgressHolds, PTL DEF Spec

-----------------------------------------------------------------------------
(* The links of a fat tree's hosts, and that its links are plain.          *)

(* A number that rows of a length cover has a row and a place in it.       *)
WithinRows(P, H, x) == x \in 0 .. P * H - 1
InRows(P, H, x) == \E i \in 0 .. P - 1, j \in 0 .. H - 1 : x = i * H + j

LEMMA WithinInRows ==
  \A P \in Nat : \A H \in Nat : \A x : WithinRows(P, H, x) => InRows(P, H, x)
BY RowOf DEF WithinRows, InRows

(* The line of a host's link is determined by the host.                    *)
HostLine(P, i, j, p) == P * (2 * CoreNum(P)) + (i * CoreNum(P) + (j * Half(P) + (p + 1)))

LEMMA HostLineIs ==
  ASSUME NEW P, NEW starts, IsTree(P, starts), NEW k \in 1 .. Len(TreeLineSeq(P, starts)),
         TreeLineSeq(P, starts)[k].to \notin 0 .. 5 * CoreNum(P) - 1
  PROVE  \E i \in Pods(P), j \in Places(P), p \in Places(P) :
           TreeLineSeq(P, starts)[k].to = HostIndex(P, i, j, p) /\ k = HostLine(P, i, j, p)
<1> DEFINE C == CoreNum(P)
           H == Half(P)
           a == AggrLines(P, starts)
           b == EdgeLines(P)
           M == P * (2 * C)
           w == P * C
<1>1. P \in Nat /\ C \in Nat /\ H \in Nat /\ C = H * H /\ M \in Nat /\ w \in Nat
  <2>1. P \in Nat /\ C \in Nat
    BY TreeNumbers DEF IsTree
  <2>2. H \in Nat /\ C = H * H
    BY TreeNumbers
  <2> HIDE DEF C, H
  <2>3. M \in Nat /\ w \in Nat
    BY <2>1
  <2>4. QED
    BY <2>1, <2>2, <2>3
<1>2. /\ a \in Seq(AnyLinks) /\ Len(a) = M
      /\ \A x : In(x, a) <=> x \in DownLinks(P) \/ x \in UpLinks(P, starts)
  BY AggrLinesHold
<1>3. /\ b \in Seq(AnyLinks) /\ Len(b) = w
      /\ \A i \in Pods(P), j \in Places(P), p \in Places(P) : b[i * C + (j * H + (p + 1))] = HostLink(P, i, j, p)
  BY EdgeLinesHold DEF Pods, Places
<1>4. TreeLineSeq(P, starts) = a \o b
  BY DEF TreeLineSeq
<1>5. Pods(P) = 0 .. P - 1 /\ Places(P) = 0 .. H - 1 /\ Cores(P) = 0 .. C - 1
  BY DEF Pods, Places, Cores
<1>6. \A i \in Pods(P), j \in Places(P) : EdgeIndex(P, i, j) \in 3 * C .. 5 * C - 1
  BY TreeNodes
<1>7. \A i, j, p : HostLine(P, i, j, p) = M + (i * C + (j * H + (p + 1)))
  BY DEF HostLine
<1> HIDE DEF C, H, a, b, M, w
<1>8. \A x \in DownLinks(P) \cup UpLinks(P, starts) : x.to \in 0 .. 5 * C - 1
  <2>1. ASSUME NEW x \in DownLinks(P) PROVE x.to \in 0 .. 5 * C - 1
    <3>1. PICK i \in Pods(P), j \in Places(P), p \in Places(P) : x = DownLink(P, i, j, p)
      BY DEF DownLinks, Pods, Places
    <3>2. x.to = EdgeIndex(P, i, p)
      BY <3>1, DownLinkFields
    <3>3. QED
      BY <1>1, <1>6, <3>2
  <2>2. ASSUME NEW x \in UpLinks(P, starts) PROVE x.to \in 0 .. 5 * C - 1
    <3>1. PICK i \in Pods(P), c \in Cores(P) : x = UpLink(P, starts, i, c)
      BY DEF UpLinks, Pods, Cores
    <3>2. x.to = c
      BY <3>1, UpLinkFields
    <3>3. QED
      BY <1>1, <1>5, <3>2
  <2>3. QED
    BY <2>1, <2>2
<1>9. k \in 1 .. M + w
  BY <1>1, <1>2, <1>3, <1>4
<1>10. ~(k <= M)
  <2>1. SUFFICES ASSUME k <= M PROVE FALSE
    OBVIOUS
  <2>2. k \in 1 .. Len(a) /\ (a \o b)[k] = a[k]
    BY <1>1, <1>2, <1>3, <1>9, <2>1
  <2>3. In(a[k], a)
    BY <2>2 DEF In
  <2>4. a[k].to \in 0 .. 5 * C - 1
    BY <1>2, <1>8, <2>3
  <2>5. QED
    BY <1>4, <2>2, <2>4 DEF C
<1> DEFINE x == k - M - 1
<1>11. x \in 0 .. w - 1 /\ k = M + (x + 1)
  BY <1>1, <1>9, <1>10
<1>12. (a \o b)[k] = b[x + 1]
  <2>1. k \in Len(a) + 1 .. Len(a) + Len(b) /\ k - Len(a) = x + 1
    BY <1>1, <1>2, <1>3, <1>11
  <2> HIDE DEF x
  <2>2. QED
    BY <1>2, <1>3, <2>1
<1> HIDE DEF x
<1>13. PICK i \in Pods(P), q \in 0 .. C - 1 : x = i * C + q
  <2>1. WithinRows(P, C, x)
    BY <1>11 DEF w, WithinRows
  <2>2. InRows(P, C, x)
    BY <1>1, <2>1, WithinInRows
  <2>3. QED
    BY <1>5, <2>2 DEF InRows
<1>14. PICK j \in Places(P), p \in Places(P) : q = j * H + p
  <2>1. WithinRows(H, H, q)
    BY <1>1, <1>13 DEF WithinRows
  <2>2. InRows(H, H, q)
    BY <1>1, <2>1, WithinInRows
  <2>3. QED
    BY <1>5, <2>2 DEF InRows
<1>15. x + 1 = i * C + (j * H + (p + 1))
  <2> DEFINE y == i * C
             z == j * H
  <2>1. y \in Nat /\ z \in Nat /\ p \in Nat
    <3>1. i \in Nat /\ j \in Nat /\ p \in Nat
      BY <1>1, <1>5
    <3>2. QED
      BY <1>1, <3>1
  <2>2. x = y + q /\ q = z + p
    BY <1>13, <1>14
  <2> HIDE DEF y, z
  <2>3. x + 1 = y + (z + (p + 1))
    BY <2>1, <2>2
  <2>4. QED
    BY <2>3 DEF y, z
<1>16. b[x + 1] = HostLink(P, i, j, p)
  BY <1>3, <1>15
<1>17. TreeLineSeq(P, starts)[k].to = HostIndex(P, i, j, p)
  BY <1>4, <1>12, <1>16, HostLinkFields
<1>18. k = HostLine(P, i, j, p)
  BY <1>7, <1>11, <1>15
<1>19. QED
  BY <1>17, <1>18

(* The links of a generated file are plain. *)
LEMMA TreePlain ==
  ASSUME NEW P, NEW starts, IsTree(P, starts), NEW f, f = FattreeFile(P, starts), IsFile(f)
  PROVE  PlainLinks(f, ReadLinks(f))
<1> DEFINE L == ReadLinks(f)
           t == TreeLineSeq(P, starts)
           C == CoreNum(P)
<1>1. /\ Len(L) = Len(t)
      /\ \A k \in 1 .. Len(t) : L[k].link = t[k] /\ t[k] \in TreeLinks(P, starts)
  BY TreeReadLines
<1>2. C \in Nat /\ f.switches = 5 * C
  BY TreeNumbers, TreeFileLines
<1>3. ASSUME NEW k \in 1 .. Len(t)
      PROVE  L[k].link.from # L[k].link.to /\ L[k].link.from \in 0 .. 5 * C - 1
  <2>1. t[k].from # t[k].to /\ t[k].from \in C .. 5 * C - 1
    BY <1>1, TreeLinkEnds
  <2> HIDE DEF C, L, t
  <2>2. QED
    BY <1>1, <1>2, <2>1
<1>4. ASSUME NEW k \in 1 .. Len(t), NEW h \in HostsOf(f), Names(f, L[k], h)
      PROVE  \E i \in Pods(P), j \in Places(P), p \in Places(P) :
               h + f.switches = HostIndex(P, i, j, p) /\ k = HostLine(P, i, j, p)
  <2>1. h + f.switches \notin 0 .. 5 * C - 1
    <3>1. h \in Nat
      BY DEF HostsOf, IsFile
    <3> HIDE DEF C
    <3>2. QED
      BY <1>2, <3>1
  <2>2. t[k].to = h + f.switches
    BY <1>1, <1>3, <1>4, <2>1 DEF Names
  <2>3. QED
    BY <2>1, <2>2, HostLineIs
<1>5. ASSUME NEW k \in 1 .. Len(t), NEW l \in 1 .. Len(t), NEW h \in HostsOf(f), Names(f, L[k], h), Names(f, L[l], h)
      PROVE  k = l
  <2>1. PICK i \in Pods(P), j \in Places(P), p \in Places(P) :
          h + f.switches = HostIndex(P, i, j, p) /\ k = HostLine(P, i, j, p)
    BY <1>4, <1>5
  <2>2. PICK m \in Pods(P), n \in Places(P), q \in Places(P) :
          h + f.switches = HostIndex(P, m, n, q) /\ l = HostLine(P, m, n, q)
    BY <1>4, <1>5
  <2>3. i = m /\ j = n /\ p = q
    BY <2>1, <2>2, TreeNodesDiffer
  <2>4. QED
    BY <2>1, <2>2, <2>3
<1> HIDE DEF L, t
<1>6. QED
  BY <1>1, <1>3, <1>5 DEF PlainLinks, L

-----------------------------------------------------------------------------
(* Tables that lead.                                                       *)

(* Every port in a table leads to the host, or to a switch of lower rank   *)
(* that has a port for it; hosts that links join are known at both homes.  *)
Way(T, s, h) == T["forward"][s][h]
Toward(T, rank, s, h, p) ==
  \/ Leads(s, p, h)
  \/ \E t \in SwitchesOf(file) : LeadsOn(s, p, t) /\ Way(T, t, h) # {} /\ rank[t][h] < rank[s][h]
TableLeads(T, rank) ==
  /\ \A s \in SwitchesOf(file) : \A h \in HostsOf(file) : \A p \in Way(T, s, h) : Toward(T, rank, s, h, p)
  /\ \A a, b \in HostsOf(file) : a # b /\ net.home[b].switch \in Joined(net.home[a].switch) =>
       Way(T, net.home[a].switch, b) # {} /\ Way(T, net.home[b].switch, a) # {}

LEMMA EntriesLead ==
  ASSUME InPlace, IsFile(file), PlainNet(file, net), NEW T,
         \A s \in SwitchesOf(file) : \A h \in HostsOf(file) : Way(T, s, h) = Written(DefaultEntries[s], h)
  PROVE  \E rank \in Ranks : TableLeads(T, rank)
<1> DEFINE e == DefaultEntries
<1>1. PICK rank \in Ranks : RoutedBy(e, rank)
  BY DefaultRouted DEF Routed
<1>2. ASSUME NEW s \in SwitchesOf(file), NEW h \in HostsOf(file)
      PROVE  /\ Has(e, s, h) => Way(T, s, h) # {}
             /\ \A p \in Way(T, s, h) : First(e, s, h, p)
  <2>1. e[s] \in Seq([dst : HostsOf(file), port : Nat])
    BY DefaultGood DEF EntrySeqs
  <2>2. \/ Written(e[s], h) = {} /\ \A j \in 1 .. Len(e[s]) : e[s][j].dst # h
        \/ \E k : FirstEntry(e[s], h, k) /\ Written(e[s], h) = {e[s][k].port}
    BY <2>1, WrittenCases
  <2>3. Way(T, s, h) = Written(e[s], h)
    OBVIOUS
  <2> HIDE DEF e
  <2>4. QED
    BY <2>2, <2>3 DEF Has, First
<1> HIDE DEF e
<1>3. ASSUME NEW s \in SwitchesOf(file), NEW h \in HostsOf(file), NEW p \in Way(T, s, h)
      PROVE  Toward(T, rank, s, h, p)
  <2>1. Falls(e, rank, s, h, p)
    BY <1>1, <1>2, <1>3 DEF RoutedBy
  <2>2. QED
    BY <1>2, <2>1 DEF Falls, Toward
<1>4. ASSUME NEW a \in HostsOf(file), NEW b \in HostsOf(file), a # b,
             net.home[b].switch \in Joined(net.home[a].switch)
      PROVE  Way(T, net.home[a].switch, b) # {} /\ Way(T, net.home[b].switch, a) # {}
  <2>1. Has(e, net.home[a].switch, b) /\ Has(e, net.home[b].switch, a)
    BY <1>4, DefaultRouted DEF e
  <2>2. net.home[a].switch \in SwitchesOf(file) /\ net.home[b].switch \in SwitchesOf(file)
    BY HomeHasPort
  <2>3. QED
    BY <1>2, <2>1, <2>2
<1>5. TableLeads(T, rank)
  BY <1>3, <1>4 DEF TableLeads
<1>6. QED
  BY <1>1, <1>5

-----------------------------------------------------------------------------
(* The tables of a tree.                                                   *)

LEMMA HostsDiffer ==
  ASSUME TreeBuilt, NEW i \in Pods(Pod), NEW j \in Places(Pod), NEW p \in Places(Pod),
         NEW k \in Pods(Pod), NEW l \in Places(Pod), NEW q \in Places(Pod),
         Host(i, j, p) = Host(k, l, q)
  PROVE  i = k /\ j = l /\ p = q
<1>1. HostIndex(Pod, i, j, p) \in NodesIn(file) /\ HostIndex(Pod, k, l, q) \in NodesIn(file)
  BY TreeSwitches
<1>2. file.switches \in Nat /\ file.hosts \in Nat
  BY DEF TreeBuilt, IsFile
<1>3. HostIndex(Pod, i, j, p) - file.switches = HostIndex(Pod, k, l, q) - file.switches
  BY DEF Host
<1> HIDE DEF HostIndex
<1>4. HostIndex(Pod, i, j, p) = HostIndex(Pod, k, l, q)
  BY <1>1, <1>2, <1>3 DEF NodesIn
<1>5. QED
  BY <1>4, TreeNodesDiffer DEF TreeBuilt

LEMMA TreeHosts ==
  ASSUME TreeBuilt, NEW h \in HostsOf(file)
  PROVE  \E i \in Pods(Pod), j \in Places(Pod), p \in Places(Pod) : h = Host(i, j, p)
<1> DEFINE C == CoreNum(Pod)
           w == Pod * C
           x == h + 5 * C
<1>1. /\ IsTree(Pod, Starts) /\ C \in Nat /\ file.switches = 5 * C /\ file.hosts = w
      /\ w \in Nat /\ h \in 0 .. w - 1
  BY TreeNumbers DEF TreeBuilt, IsFile, HostsOf
<1> HIDE DEF w
<1>2. x \in 5 * C .. 5 * C + w - 1 /\ h = x - file.switches
  BY <1>1
<1>3. x \in 0 .. 5 * C + w - 1
  BY <1>1, <1>2
<1>4. \/ x \in Cores(Pod)
      \/ \E i \in Pods(Pod), j \in Places(Pod) : x = AggrIndex(Pod, i, j)
      \/ \E i \in Pods(Pod), j \in Places(Pod) : x = EdgeIndex(Pod, i, j)
      \/ \E i \in Pods(Pod), j \in Places(Pod), p \in Places(Pod) : x = HostIndex(Pod, i, j, p)
  BY <1>1, <1>3, TreeNodeKinds DEF w
<1>5. \A i \in Pods(Pod), j \in Places(Pod) : x # AggrIndex(Pod, i, j) /\ x # EdgeIndex(Pod, i, j)
  <2>1. ASSUME NEW i \in Pods(Pod), NEW j \in Places(Pod)
        PROVE  x # AggrIndex(Pod, i, j) /\ x # EdgeIndex(Pod, i, j)
    <3>1. AggrIndex(Pod, i, j) \in C .. 3 * C - 1 /\ EdgeIndex(Pod, i, j) \in 3 * C .. 5 * C - 1
      BY <1>1, TreeNodes
    <3> HIDE DEF C, x
    <3>2. QED
      BY <1>1, <1>2, <3>1
  <2>2. QED
    BY <2>1
<1>6. x \notin Cores(Pod)
  <2>1. Cores(Pod) = 0 .. C - 1
    BY DEF Cores
  <2> HIDE DEF C, x
  <2>2. QED
    BY <1>1, <1>2, <2>1
<1>7. PICK i \in Pods(Pod), j \in Places(Pod), p \in Places(Pod) : x = HostIndex(Pod, i, j, p)
  BY <1>4, <1>5, <1>6
<1>8. QED
  BY <1>2, <1>7 DEF Host

LEMMA TreeKinds ==
  ASSUME TreeBuilt, NEW s \in SwitchesOf(file)
  PROVE  \/ s \in Cores(Pod)
         \/ \E i \in Pods(Pod), j \in Places(Pod) : s = Aggr(i, j)
         \/ \E i \in Pods(Pod), j \in Places(Pod) : s = Edge(i, j)
<1>1. IsTree(Pod, Starts) /\ file.switches = 5 * CoreNum(Pod) /\ file.hosts = Pod * CoreNum(Pod)
  BY DEF TreeBuilt
<1>2. s \in 0 .. 5 * CoreNum(Pod) + Pod * CoreNum(Pod) - 1 /\ s < file.switches
  <2> DEFINE n == file.switches
             m == file.hosts
  <2>1. s \in 0 .. n - 1 /\ n \in Nat /\ m \in Nat
    BY DEF SwitchesOf, TreeBuilt, IsFile
  <2>2. n = 5 * CoreNum(Pod) /\ m = Pod * CoreNum(Pod)
    BY <1>1
  <2> HIDE DEF n, m
  <2>3. s \in 0 .. n + m - 1 /\ s < n
    BY <2>1
  <2>4. QED
    BY <2>2, <2>3 DEF n
<1>3. \A i \in Pods(Pod), j \in Places(Pod), p \in Places(Pod) : s # HostIndex(Pod, i, j, p)
  BY <1>2, TreeSwitches
<1>4. QED
  BY <1>1, <1>2, <1>3, TreeNodeKinds DEF Aggr, Edge

(* The ports down to a host. *)
DownTo(s, h) ==
  IF s \in Edges THEN {p \in HostPorts(s) : net.ports[s][p].node = h}
  ELSE IF s \in Aggrs
       THEN {p \in DownPorts(s) : \E q \in HostPorts(net.ports[s][p].node) :
               net.ports[net.ports[s][p].node][q].node = h}
  ELSE {p \in Ports(s) : net.ports[s][p].flag = 1 /\ h \in ReachHosts(net.ports[s][p].node)}

LEMMA FattreePortsAre ==
  ASSUME Wired(file, net), NEW s \in SwitchesOf(file), NEW h
  PROVE  /\ DownTo(s, h) # {} => FattreePorts(s, h) # {} /\ FattreePorts(s, h) \subseteq DownTo(s, h)
         /\ DownTo(s, h) = {} => FattreePorts(s, h) = IF s \in Edges \cup Aggrs THEN OtherPorts(s) ELSE {}
<1> DEFINE down == DownTo(s, h)
<1>1. Ports(s) \in SUBSET Nat
  BY PortsOf
<1>2. HostPorts(s) \subseteq Ports(s) /\ DownPorts(s) \subseteq Ports(s)
  BY DEF HostPorts, DownPorts
<1>3. down \in SUBSET Nat
  BY <1>1, <1>2 DEF DownTo
<1>4. FattreePorts(s, h) = IF down # {} THEN {CHOOSE p \in down : \A q \in down : p <= q}
                           ELSE IF s \in Edges \cup Aggrs THEN OtherPorts(s) ELSE {}
  BY DEF FattreePorts, DownTo
<1> HIDE DEF down
<1>5. ASSUME down # {} PROVE FattreePorts(s, h) # {} /\ FattreePorts(s, h) \subseteq down
  BY <1>3, <1>4, <1>5, LeastOf
<1>6. QED
  BY <1>4, <1>5 DEF down

(* At an edge switch: down to the host if it is its own, else up. *)
LEMMA EdgeWays ==
  ASSUME TreeBuilt, NEW i \in Pods(Pod), NEW j \in Places(Pod), NEW h
  PROVE  /\ FattreePorts(Edge(i, j), h) # {}
         /\ \A p \in FattreePorts(Edge(i, j), h) :
              IF h \in ReachHosts(Edge(i, j)) THEN Leads(Edge(i, j), p, h)
              ELSE \E k \in Places(Pod) : LeadsOn(Edge(i, j), p, Aggr(i, k))
<1> DEFINE s == Edge(i, j)
<1>1. s \in Edges /\ s \in SwitchesOf(file) /\ s \notin Aggrs /\ Wired(file, net)
  BY TreeSwitches DEF TreeBuilt
<1>2. /\ \A p \in Ports(s) : net.ports[s][p].flag # 0 =>
              net.ports[s][p].flag = 1 /\ \E k \in Places(Pod) : net.ports[s][p].node = Aggr(i, k)
  BY EdgePorts
<1>3. OtherPorts(s) # {}
  BY EdgeReach
<1> HIDE DEF s
<1>4. DownTo(s, h) = {p \in HostPorts(s) : net.ports[s][p].node = h}
  BY <1>1 DEF DownTo
<1>5. HostPorts(s) = {p \in Ports(s) : net.ports[s][p].flag = 0} /\ OtherPorts(s) = Ports(s) \ HostPorts(s)
  BY <1>1 DEF HostPorts, OtherPorts, DownPorts
<1>6. h \in ReachHosts(s) <=> DownTo(s, h) # {}
  BY <1>1, <1>4 DEF ReachHosts
<1>7. Ports(s) = 1 .. Len(net.ports[s])
  BY <1>1, PortsOf
<1>8. CASE h \in ReachHosts(s)
  <2>1. FattreePorts(s, h) # {} /\ FattreePorts(s, h) \subseteq DownTo(s, h)
    BY <1>1, <1>6, <1>8, FattreePortsAre
  <2>2. \A p \in DownTo(s, h) : Leads(s, p, h)
    BY <1>1, <1>4, <1>5, <1>7 DEF Leads, LeadsToHost
  <2>3. QED
    BY <1>8, <2>1, <2>2 DEF s
<1>9. CASE h \notin ReachHosts(s)
  <2>1. FattreePorts(s, h) = OtherPorts(s)
    BY <1>1, <1>6, <1>9, FattreePortsAre
  <2>2. \A p \in OtherPorts(s) : \E k \in Places(Pod) : LeadsOn(s, p, Aggr(i, k))
    BY <1>1, <1>2, <1>5, <1>7 DEF LeadsOn, LeadsToSwitch
  <2>3. QED
    BY <1>3, <1>9, <2>1, <2>2 DEF s
<1>10. QED
  BY <1>8, <1>9

(* At an aggregation switch: down to the edge switch that has the host, or *)
(* up to a core switch.                                                    *)
LEMMA AggrWays ==
  ASSUME TreeBuilt, ~NothingToDraw, NEW i \in Pods(Pod), NEW j \in Places(Pod), NEW h \in HostsOf(file)
  PROVE  /\ FattreePorts(Aggr(i, j), h) # {}
         /\ \A p \in FattreePorts(Aggr(i, j), h) :
              IF h \in ReachHosts(Aggr(i, j))
              THEN \E k \in Places(Pod) : LeadsOn(Aggr(i, j), p, Edge(i, k)) /\ h \in ReachHosts(Edge(i, k))
              ELSE \E c \in Cores(Pod) : LeadsOn(Aggr(i, j), p, c)
<1> DEFINE s == Aggr(i, j)
<1>1. s \in Aggrs /\ s \in SwitchesOf(file) /\ s \notin Edges /\ Wired(file, net)
  BY TreeSwitches DEF TreeBuilt
<1>2. Ports(s) = 1 .. Len(net.ports[s])
  BY <1>1, PortsOf
<1>3. \A p \in Ports(s) : net.ports[s][p].flag = 1
  BY AggrPorts
<1>4. /\ \A p \in Ports(s) : p \in DownPorts(s) <=> \E k \in Places(Pod) : net.ports[s][p].node = Edge(i, k)
      /\ \A p \in OtherPorts(s) : net.ports[s][p].node \in Cores(Pod)
  BY AggrDown
<1>5. \A k \in Places(Pod) : \E p \in Ports(s) : net.ports[s][p].node = Edge(i, k)
  BY AggrPorts
<1>6. \A k \in Places(Pod) : Edge(i, k) \in Edges
  BY TreeSwitches
<1>7. h \in ReachHosts(s) <=> \E k \in Places(Pod) : h \in ReachHosts(Edge(i, k))
  BY AggrReach, EdgeReach
<1> HIDE DEF s
<1>8. DownPorts(s) \subseteq Ports(s) /\ OtherPorts(s) \subseteq Ports(s)
  BY DEF DownPorts, HostPorts, OtherPorts
<1>9. \A e \in Edges : h \in ReachHosts(e) <=> \E q \in HostPorts(e) : net.ports[e][q].node = h
  BY DEF ReachHosts
<1>10. DownTo(s, h) = {p \in DownPorts(s) : \E q \in HostPorts(net.ports[s][p].node) :
                          net.ports[net.ports[s][p].node][q].node = h}
  BY <1>1 DEF DownTo
<1>11. \A p \in DownTo(s, h) : \E k \in Places(Pod) : LeadsOn(s, p, Edge(i, k)) /\ h \in ReachHosts(Edge(i, k))
  <2>1. ASSUME NEW p \in DownTo(s, h)
        PROVE  \E k \in Places(Pod) : LeadsOn(s, p, Edge(i, k)) /\ h \in ReachHosts(Edge(i, k))
    <3>1. p \in DownPorts(s) /\ \E q \in HostPorts(net.ports[s][p].node) : net.ports[net.ports[s][p].node][q].node = h
      BY <1>10
    <3>2. PICK k \in Places(Pod) : net.ports[s][p].node = Edge(i, k)
      BY <1>4, <1>8, <3>1
    <3>3. h \in ReachHosts(Edge(i, k))
      BY <1>6, <1>9, <3>1, <3>2
    <3>4. LeadsOn(s, p, Edge(i, k))
      BY <1>1, <1>2, <1>3, <1>8, <3>1, <3>2 DEF LeadsOn, LeadsToSwitch
    <3>5. QED
      BY <3>3, <3>4
  <2>2. QED
    BY <2>1
<1>12. CASE h \in ReachHosts(s)
  <2>1. PICK k \in Places(Pod) : h \in ReachHosts(Edge(i, k))
    BY <1>7, <1>12
  <2>2. PICK p \in Ports(s) : net.ports[s][p].node = Edge(i, k)
    BY <1>5
  <2>3. p \in DownTo(s, h)
    BY <1>4, <1>6, <1>9, <1>10, <2>1, <2>2
  <2>4. FattreePorts(s, h) # {} /\ FattreePorts(s, h) \subseteq DownTo(s, h)
    BY <1>1, <2>3, FattreePortsAre
  <2>5. QED
    BY <1>11, <1>12, <2>4 DEF s
<1>13. CASE h \notin ReachHosts(s)
  <2>1. DownTo(s, h) = {}
    BY <1>7, <1>11, <1>13
  <2>2. FattreePorts(s, h) = OtherPorts(s)
    BY <1>1, <2>1, FattreePortsAre
  <2>3. OtherPorts(s) # {}
    BY <1>1, <1>13 DEF NothingToDraw
  <2>4. \A p \in OtherPorts(s) : \E c \in Cores(Pod) : LeadsOn(s, p, c)
    BY <1>1, <1>2, <1>3, <1>4, <1>8 DEF LeadsOn, LeadsToSwitch
  <2>5. QED
    BY <1>13, <2>2, <2>3, <2>4 DEF s
<1>14. QED
  BY <1>12, <1>13

(* At a core switch: to an aggregation switch of the pod that has the host. *)
LEMMA CoreWays ==
  ASSUME TreeBuilt, NEW c \in Cores(Pod), NEW h \in HostsOf(file)
  PROVE  /\ FattreePorts(c, h) # {}
         /\ \A p \in FattreePorts(c, h) :
              \E i \in Pods(Pod), j \in Places(Pod) : LeadsOn(c, p, Aggr(i, j)) /\ h \in ReachHosts(Aggr(i, j))
<1> DEFINE up(i) == LinkedAggr(Pod, Starts[c], i)
<1>1. c \in SwitchesOf(file) /\ c \notin Aggrs /\ c \notin Edges /\ Wired(file, net)
  BY TreeCores DEF TreeBuilt
<1>2. Ports(c) = 1 .. Len(net.ports[c])
  BY <1>1, PortsOf
<1>3. /\ \A p \in Ports(c) : net.ports[c][p].flag = 1 /\ \E i \in Pods(Pod) : net.ports[c][p].node = Aggr(i, up(i))
      /\ \A i \in Pods(Pod) : \E p \in Ports(c) : net.ports[c][p].flag = 1 /\ net.ports[c][p].node = Aggr(i, up(i))
  BY CorePorts
<1>4. \A i \in Pods(Pod) : up(i) \in Places(Pod)
  BY UpLinkNodes DEF TreeBuilt
<1> HIDE DEF up
<1>5. PICK a \in Pods(Pod), b \in Places(Pod), q \in Places(Pod) : h = Host(a, b, q)
  BY TreeHosts
<1>6. h \in ReachHosts(Aggr(a, up(a)))
  BY <1>4, <1>5, AggrReach
<1>7. DownTo(c, h) = {p \in Ports(c) : net.ports[c][p].flag = 1 /\ h \in ReachHosts(net.ports[c][p].node)}
  BY <1>1 DEF DownTo
<1>8. DownTo(c, h) # {}
  BY <1>3, <1>6, <1>7
<1>9. FattreePorts(c, h) # {} /\ FattreePorts(c, h) \subseteq DownTo(c, h)
  BY <1>1, <1>8, FattreePortsAre
<1>10. ASSUME NEW p \in DownTo(c, h)
       PROVE  \E i \in Pods(Pod), j \in Places(Pod) : LeadsOn(c, p, Aggr(i, j)) /\ h \in ReachHosts(Aggr(i, j))
  <2>1. p \in Ports(c) /\ net.ports[c][p].flag = 1 /\ h \in ReachHosts(net.ports[c][p].node)
    BY <1>7
  <2>2. PICK i \in Pods(Pod) : net.ports[c][p].node = Aggr(i, up(i))
    BY <1>3, <2>1
  <2>3. LeadsOn(c, p, Aggr(i, up(i)))
    BY <1>1, <1>2, <2>1, <2>2 DEF LeadsOn, LeadsToSwitch
  <2>4. QED
    BY <1>4, <2>1, <2>2, <2>3
<1>11. QED
  BY <1>9, <1>10

(* A packet goes up to a core switch, and from there down: the rank of a   *)
(* switch for a host is the number of switches left on the way, at most.   *)
TreeRank(s, h) ==
  IF s \in Edges THEN IF h \in ReachHosts(s) THEN 0 ELSE 4
  ELSE IF s \in Aggrs THEN IF h \in ReachHosts(s) THEN 1 ELSE 3
  ELSE 2
AllWays(T) == \A s \in SwitchesOf(file) : \A h \in HostsOf(file) : Way(T, s, h) # {}

LEMMA TreeLeads ==
  ASSUME TreeBuilt, InPlace, ~NothingToDraw, NEW T,
         \A s \in SwitchesOf(file) : \A h \in HostsOf(file) : Way(T, s, h) = FattreePorts(s, h)
  PROVE  AllWays(T) /\ \E rank \in Ranks : TableLeads(T, rank)
<1> DEFINE rank == [s \in SwitchesOf(file) |-> [h \in HostsOf(file) |-> TreeRank(s, h)]]
           Good(s, h) == Way(T, s, h) # {} /\ \A p \in Way(T, s, h) :
                           \/ Leads(s, p, h)
                           \/ \E t \in SwitchesOf(file) : LeadsOn(s, p, t) /\ rank[t][h] < rank[s][h]
<1>1. \A s \in SwitchesOf(file) : \A h \in HostsOf(file) : TreeRank(s, h) \in Nat
  BY DEF TreeRank
<1>2. rank \in Ranks
  BY <1>1 DEF Ranks
<1>3. \A s \in SwitchesOf(file) : \A h \in HostsOf(file) : rank[s][h] = TreeRank(s, h)
  OBVIOUS
<1> HIDE DEF rank
<1>4. \A i \in Pods(Pod), j \in Places(Pod) : \A h \in HostsOf(file) :
        /\ Aggr(i, j) \in SwitchesOf(file) /\ Edge(i, j) \in SwitchesOf(file)
        /\ rank[Edge(i, j)][h] = IF h \in ReachHosts(Edge(i, j)) THEN 0 ELSE 4
        /\ rank[Aggr(i, j)][h] = IF h \in ReachHosts(Aggr(i, j)) THEN 1 ELSE 3
  BY <1>3, TreeSwitches DEF TreeRank
<1>5. \A c \in Cores(Pod) : \A h \in HostsOf(file) : c \in SwitchesOf(file) /\ rank[c][h] = 2
  BY <1>3, TreeCores DEF TreeRank
<1>6. ASSUME NEW i \in Pods(Pod), NEW j \in Places(Pod), NEW h \in HostsOf(file) PROVE Good(Edge(i, j), h)
  <2> DEFINE s == Edge(i, j)
  <2>1. Way(T, s, h) = FattreePorts(s, h)
    BY <1>4
  <2>2. /\ FattreePorts(s, h) # {}
        /\ \A p \in FattreePorts(s, h) :
              IF h \in ReachHosts(s) THEN Leads(s, p, h) ELSE \E k \in Places(Pod) : LeadsOn(s, p, Aggr(i, k))
    BY EdgeWays
  <2>3. h \notin ReachHosts(s) => rank[s][h] = 4
    BY <1>4
  <2> HIDE DEF s
  <2>4. h \notin ReachHosts(s) => \A k \in Places(Pod) : Aggr(i, k) \in SwitchesOf(file) /\ rank[Aggr(i, k)][h] < rank[s][h]
    BY <1>4, <2>3
  <2>5. Good(s, h)
    BY <2>1, <2>2, <2>4
  <2>6. QED
    BY <2>5 DEF s
<1>7. ASSUME NEW i \in Pods(Pod), NEW j \in Places(Pod), NEW h \in HostsOf(file) PROVE Good(Aggr(i, j), h)
  <2> DEFINE s == Aggr(i, j)
  <2>1. Way(T, s, h) = FattreePorts(s, h)
    BY <1>4
  <2>2. /\ FattreePorts(s, h) # {}
        /\ \A p \in FattreePorts(s, h) :
              IF h \in ReachHosts(s)
              THEN \E k \in Places(Pod) : LeadsOn(s, p, Edge(i, k)) /\ h \in ReachHosts(Edge(i, k))
              ELSE \E c \in Cores(Pod) : LeadsOn(s, p, c)
    BY AggrWays
  <2>3. rank[s][h] = IF h \in ReachHosts(s) THEN 1 ELSE 3
    BY <1>4
  <2> HIDE DEF s
  <2>4. h \in ReachHosts(s) => \A k \in Places(Pod) : h \in ReachHosts(Edge(i, k)) =>
          Edge(i, k) \in SwitchesOf(file) /\ rank[Edge(i, k)][h] < rank[s][h]
    BY <1>4, <2>3
  <2>5. h \notin ReachHosts(s) => \A c \in Cores(Pod) : c \in SwitchesOf(file) /\ rank[c][h] < rank[s][h]
    BY <1>5, <2>3
  <2>6. Good(s, h)
    BY <2>1, <2>2, <2>4, <2>5
  <2>7. QED
    BY <2>6 DEF s
<1>8. ASSUME NEW c \in Cores(Pod), NEW h \in HostsOf(file) PROVE Good(c, h)
  <2>1. Way(T, c, h) = FattreePorts(c, h)
    BY <1>5
  <2>2. /\ FattreePorts(c, h) # {}
        /\ \A p \in FattreePorts(c, h) :
              \E i \in Pods(Pod), j \in Places(Pod) : LeadsOn(c, p, Aggr(i, j)) /\ h \in ReachHosts(Aggr(i, j))
    BY CoreWays
  <2>3. \A i \in Pods(Pod), j \in Places(Pod) : h \in ReachHosts(Aggr(i, j)) =>
          Aggr(i, j) \in SwitchesOf(file) /\ rank[Aggr(i, j)][h] < rank[c][h]
    BY <1>4, <1>5
  <2>4. QED
    BY <2>1, <2>2, <2>3
<1>9. \A s \in SwitchesOf(file) : \A h \in HostsOf(file) : Good(s, h)
  <2> HIDE DEF Good
  <2>1. QED
    BY <1>6, <1>7, <1>8, TreeKinds
<1>10. AllWays(T)
  BY <1>9 DEF AllWays
<1>11. TableLeads(T, rank)
  <2>1. \A s \in SwitchesOf(file) : \A h \in HostsOf(file) : \A p \in Way(T, s, h) : Toward(T, rank, s, h, p)
    BY <1>9 DEF Toward
  <2>2. \A a \in HostsOf(file) : net.home[a].switch \in SwitchesOf(file)
    BY HomeHasPort
  <2>3. QED
    BY <1>10, <2>1, <2>2 DEF TableLeads, AllWays
<1>12. QED
  BY <1>2, <1>10, <1>11

-----------------------------------------------------------------------------
(* The packets in the tables.                                              *)

(* A packet goes down the ranks to the host it is for, or, where links do  *)
(* not join the two hosts of its flow, is a request among the switches     *)
(* that they join to the client.                                           *)
JoinedHosts(flow) == net.home[flow.to].switch \in Joined(net.home[flow.client].switch)
Carried(T, rank, p) ==
  /\ p.flow.client # p.flow.to
  /\ p.dst = IF p.kind = "reply" THEN p.flow.client ELSE p.flow.to
  /\ JoinedHosts(p.flow) =>
       /\ Way(T, p.at, p.dst) # {}
       /\ \A k \in 1 .. Len(p.path) : rank[p.at][p.dst] < rank[p.path[k]][p.dst]
  /\ ~JoinedHosts(p.flow) => p.kind = "request" /\ p.at \in Joined(net.home[p.flow.client].switch)
Delivered(r) == IF JoinedHosts(r.flow) THEN r.where = r.dst ELSE r.where # r.dst /\ r.kind # "data"

(* A program that has its tables built, by searches over plain links or    *)
(* for a fat tree, whose links are plain.                                  *)
PlainBuilt ==
  /\ program.buildType \in {"default", "fattree"} /\ program.arp = "forward" /\ ~program.foreign
  /\ program.buildType = "default" => PlainLinks(file, ReadLinks(file))

(* The first packet that draws an uplink leaves one port of several: that  *)
(* there is a way everywhere, as in a tree, keeps a miss from being drawn. *)
Routing ==
  PlainBuilt =>
    /\ phase # "running" => arrived = {}
    /\ \A r \in arrived : Delivered(r)
    /\ phase \in {"built", "running"} =>
         /\ program.buildType = "fattree" => AllWays(table)
         /\ \E rank \in Ranks : TableLeads(table, rank) /\ (packet # NoPacket => Carried(table, rank, packet))

LEMMA BuiltInPlace ==
  ASSUME Progress, PlainBuilt, phase \in {"ports", "built", "running"}
  PROVE  InPlace /\ IsFile(file) /\ PlainNet(file, net)
<1>1. InPlace /\ IsFile(file) /\ program \in Programs
  BY ProgressInPlace, ProgramFile DEF Progress
<1>2. PlainLinks(file, ReadLinks(file))
  <2>1. CASE program.buildType = "fattree"
    BY <1>1, <2>1, FattreeProgram, TreePlain
  <2>2. QED
    BY <2>1 DEF PlainBuilt
<1>3. QED
  BY <1>1, <1>2 DEF InPlace

LEMMA PlainConnected ==
  ASSUME PlainBuilt, NEW flow PROVE Connected(flow) <=> JoinedHosts(flow)
BY DEF PlainBuilt, Connected, JoinedHosts

LEMMA RoutingReach ==
  ASSUME Typed, Routing, PlainBuilt PROVE RoutesReach
<1>1. ASSUME NEW r \in arrived
      PROVE  IF Connected(r.flow) THEN r.where = r.dst ELSE r.where # r.dst /\ r.kind # "data"
  BY PlainConnected DEF Routing, Delivered
<1>2. ASSUME packet # NoPacket, Connected(packet.flow) PROVE packet.at \notin Range(packet.path)
  <2>1. phase = "running" /\ packet \in Packets
    BY <1>2 DEF Typed, OnItsWay
  <2>2. PICK rank \in Ranks : Carried(table, rank, packet)
    BY <1>2, <2>1 DEF Routing
  <2>3. \A k \in 1 .. Len(packet.path) : rank[packet.at][packet.dst] < rank[packet.path[k]][packet.dst]
    BY <1>2, <2>2, PlainConnected DEF Carried
  <2>4. rank[packet.at][packet.dst] \in Nat /\ packet.path \in Seq(SwitchesOf(file))
    BY <2>1, PacketFields DEF Ranks
  <2>5. QED
    BY <2>3, <2>4 DEF Range
<1>3. QED
  BY <1>1, <1>2 DEF RoutesReach

(* A packet that starts from the home of a host. *)
LEMMA StartsCarried ==
  ASSUME InPlace, IsFile(file), NEW T, NEW rank, TableLeads(T, rank), NEW flow,
         flow.client \in HostsOf(file), flow.to \in HostsOf(file), flow.client # flow.to,
         NEW p, NEW kind,
         \/ kind = "request" /\ p = Packet(flow, kind, flow.client, flow.to)
         \/ /\ JoinedHosts(flow)
            /\ \/ kind = "data" /\ p = Packet(flow, kind, flow.client, flow.to)
               \/ kind = "reply" /\ p = Packet(flow, kind, flow.to, flow.client)
  PROVE  Carried(T, rank, p)
<1>1. /\ p.flow = flow /\ p.kind = kind /\ p.path = <<>>
      /\ p.at = IF kind = "reply" THEN net.home[flow.to].switch ELSE net.home[flow.client].switch
      /\ p.dst = IF kind = "reply" THEN flow.client ELSE flow.to
  BY DEF Packet
<1>2. net.home[flow.client].switch \in Joined(net.home[flow.client].switch)
  BY HomeHasPort, JoinedClosed DEF InPlace
<1>3. JoinedHosts(flow) => /\ Way(T, net.home[flow.client].switch, flow.to) # {}
                           /\ Way(T, net.home[flow.to].switch, flow.client) # {}
  BY DEF TableLeads, JoinedHosts
<1>4. Len(p.path) = 0
  BY <1>1
<1>5. ~JoinedHosts(flow) => kind = "request"
  OBVIOUS
<1>6. QED
  BY <1>1, <1>2, <1>3, <1>4, <1>5 DEF Carried

(* A packet that has a way takes it. *)
LEMMA TakesWay ==
  ASSUME Typed, PlainBuilt, packet # NoPacket, Way(table, packet.at, packet.dst) # {},
         NEW port \in OutPorts(packet)
  PROVE  port \in Way(table, packet.at, packet.dst) /\ TableOf(packet) = "forward"
<1>1. TableOf(packet) = "forward" /\ program.route = <<>>
  <2>1. DOMAIN program.tables = {"forward"} /\ program.route = <<>>
    BY ProgramFields DEF PlainBuilt, Typed
  <2>2. QED
    BY <2>1, OutPortsExist
<1>2. Found(packet) = Way(table, packet.at, packet.dst)
  BY <1>1 DEF Found, Way
<1>3. QED
  BY <1>1, <1>2 DEF OutPorts

(* A hop to a switch. *)
LEMMA PassedCarried ==
  ASSUME Typed, IsFile(file), InPlace, PlainBuilt, packet # NoPacket,
         NEW rank \in Ranks, TableLeads(table, rank), Carried(table, rank, packet),
         NEW port \in OutPorts(packet), port \in 1 .. Len(net.ports[packet.at]), Passed(port)
  PROVE  Carried(table, rank, packet')
<1> DEFINE t == net.ports[packet.at][port].node
           s == packet.at
           h == packet.dst
<1>1. OnItsWay /\ packet \in Packets /\ s \in SwitchesOf(file) /\ h \in HostsOf(file)
  BY PacketFields DEF Typed, OnItsWay
<1>2. net.ports[s][port].flag = 1 /\ LeadsOn(s, port, t)
  BY <1>1 DEF Passed, LeadsOn, LeadsToSwitch
<1>3. t \in SwitchesOf(file) /\ t \in Neighbours(s)
  <2>1. t \in Neighbours(s)
    BY <1>1, <1>2, PortsOf DEF InPlace, Neighbours
  <2>2. QED
    BY <1>1, <2>1, NeighboursType DEF InPlace
<1>4. packet' = Moved(packet, t)
  BY DEF Passed, Moved
<1> HIDE DEF t, s, h
<1>5. /\ packet'.flow = packet.flow /\ packet'.kind = packet.kind /\ packet'.dst = h
      /\ packet'.at = t /\ packet'.path = Append(packet.path, s)
  BY <1>1, <1>3, <1>4, PacketMoves DEF s, h
<1>6. CASE JoinedHosts(packet.flow)
  <2>1. Way(table, s, h) # {} /\ \A k \in 1 .. Len(packet.path) : rank[s][h] < rank[packet.path[k]][h]
    BY <1>6 DEF Carried, s, h
  <2>2. port \in Way(table, s, h)
    BY <2>1, TakesWay DEF s, h
  <2>3. Toward(table, rank, s, h, port)
    BY <1>1, <2>2 DEF TableLeads
  <2>4. ~Leads(s, port, h)
    BY <1>2 DEF Leads, LeadsToHost
  <2>5. PICK u \in SwitchesOf(file) : LeadsOn(s, port, u) /\ Way(table, u, h) # {} /\ rank[u][h] < rank[s][h]
    BY <2>3, <2>4 DEF Toward
  <2>6. u = t
    BY <1>2, <2>5 DEF LeadsOn, LeadsToSwitch
  <2>7. Way(table, t, h) # {} /\ rank[t][h] < rank[s][h]
    BY <2>5, <2>6
  <2>8. ASSUME NEW k \in 1 .. Len(packet'.path) PROVE rank[t][h] < rank[packet'.path[k]][h]
    <3> DEFINE n == Len(packet.path)
    <3>1. packet.path \in Seq(SwitchesOf(file)) /\ n \in Nat
      BY <1>1, PacketFields
    <3>2. /\ Len(packet'.path) = n + 1 /\ packet'.path[n + 1] = s
          /\ \A j \in 1 .. n : packet'.path[j] = packet.path[j] /\ packet.path[j] \in SwitchesOf(file)
      BY <1>5, <3>1
    <3> HIDE DEF n
    <3>3. k = n + 1 \/ k \in 1 .. n
      BY <2>8, <3>1, <3>2
    <3>4. CASE k = n + 1
      BY <2>7, <3>2, <3>4
    <3>5. CASE k \in 1 .. n
      <4>1. rank[s][h] < rank[packet'.path[k]][h] /\ packet'.path[k] \in SwitchesOf(file)
        BY <2>1, <3>2, <3>5 DEF n
      <4>2. \A v \in SwitchesOf(file) : rank[v][h] \in Nat
        BY <1>1 DEF Ranks
      <4>3. rank[s][h] \in Nat /\ rank[t][h] \in Nat /\ rank[packet'.path[k]][h] \in Nat
        BY <1>1, <1>3, <4>1, <4>2
      <4>4. QED
        BY <2>7, <4>1, <4>3
    <3>6. QED
      BY <3>3, <3>4, <3>5
  <2>9. QED
    BY <1>5, <1>6, <2>7, <2>8 DEF Carried, h
<1>7. CASE ~JoinedHosts(packet.flow)
  <2>1. packet.kind = "request" /\ s \in Joined(net.home[packet.flow.client].switch)
    BY <1>7 DEF Carried, s
  <2>2. packet.flow.client \in HostsOf(file)
    BY <1>1, PacketFields, ProgramFields DEF Typed
  <2>3. t \in Joined(net.home[packet.flow.client].switch)
    BY <1>3, <2>1, <2>2, HomeHasPort, JoinedClosed DEF InPlace, Closed
  <2>4. QED
    BY <1>5, <1>7, <2>1, <2>3 DEF Carried, h
<1>8. QED
  BY <1>6, <1>7

(* At a host: it answers, sends its data, or the packet stays there. *)
LEMMA ReceivedCarried ==
  ASSUME Typed, IsFile(file), InPlace, PlainNet(file, net), PlainBuilt, packet # NoPacket,
         NEW rank \in Ranks, TableLeads(table, rank), Carried(table, rank, packet),
         NEW port \in OutPorts(packet), port \in 1 .. Len(net.ports[packet.at]), Received(port)
  PROVE  \/ arrived' = arrived /\ packet' # NoPacket /\ Carried(table, rank, packet')
         \/ packet' = NoPacket /\ \E r : arrived' = arrived \cup {r} /\ Delivered(r)
<1> DEFINE t == net.ports[packet.at][port].node
           s == packet.at
           h == packet.dst
           f == packet.flow
<1>1. /\ OnItsWay /\ packet \in Packets /\ s \in SwitchesOf(file) /\ h \in HostsOf(file)
      /\ packet.kind \in {"request", "reply", "data"}
  BY PacketFields DEF Typed, OnItsWay
<1>2. f.client \in HostsOf(file) /\ f.to \in HostsOf(file) /\ f.client # f.to
  BY <1>1, PacketFields, ProgramFields DEF Typed, Carried
<1>3. net.ports[s][port].flag = 0 /\ Leads(s, port, t) /\ t \in HostsOf(file) /\ HostReceives(t)
  BY <1>1 DEF Received, Leads, LeadsToHost
<1>4. h = IF packet.kind = "reply" THEN f.client ELSE f.to
  BY DEF Carried
<1> HIDE DEF t, s, h, f
<1>5. CASE JoinedHosts(f)
  <2>1. Way(table, s, h) # {}
    BY <1>5 DEF Carried, s, h, f
  <2>2. port \in Way(table, s, h)
    BY <2>1, TakesWay DEF s, h
  <2>3. t = h
    <3>1. Toward(table, rank, s, h, port)
      BY <1>1, <2>2 DEF TableLeads
    <3>2. QED
      BY <1>3, <3>1 DEF Toward, Leads, LeadsToHost, LeadsOn, LeadsToSwitch
  <2>4. CASE packet.kind = "request" /\ packet' = Packet(f, "reply", t, f.client) /\ UNCHANGED arrived
    <3>1. packet' = Packet(f, "reply", f.to, f.client)
      BY <1>4, <2>3, <2>4
    <3>2. Carried(table, rank, packet')
      BY <1>2, <1>5, <3>1, StartsCarried
    <3>3. packet' # NoPacket
      BY <3>1 DEF Packet, NoPacket
    <3>4. QED
      BY <2>4, <3>2, <3>3
  <2>5. CASE packet.kind = "reply" /\ packet' = Packet(f, "data", t, f.to) /\ UNCHANGED arrived
    <3>1. packet' = Packet(f, "data", f.client, f.to)
      BY <1>4, <2>3, <2>5
    <3>2. Carried(table, rank, packet')
      BY <1>2, <1>5, <3>1, StartsCarried
    <3>3. packet' # NoPacket
      BY <3>1 DEF Packet, NoPacket
    <3>4. QED
      BY <2>5, <3>2, <3>3
  <2>6. CASE Leave(t)
    <3> DEFINE r == [flow |-> f, kind |-> packet.kind, dst |-> h, where |-> t]
    <3>1. packet' = NoPacket /\ arrived' = arrived \cup {r}
      BY <2>6 DEF Leave, f, h
    <3>2. Delivered(r)
      BY <1>5, <2>3 DEF Delivered
    <3>3. QED
      BY <3>1, <3>2
  <2>7. QED
    BY <1>3, <2>4, <2>5, <2>6 DEF HostReceives, f, h
<1>6. CASE ~JoinedHosts(f)
  <2>1. packet.kind = "request" /\ s \in Joined(net.home[f.client].switch)
    BY <1>6 DEF Carried, s, f
  <2>2. net.home[t].switch = s
    <3>1. s \in SwitchesOf(file) /\ port \in 1 .. Len(net.ports[s]) /\ net.ports[s][port].node = t
      BY <1>3 DEF Leads, LeadsToHost
    <3>2. net.home[t] = [switch |-> s, port |-> port]
      BY <1>3, <3>1 DEF PlainNet
    <3>3. QED
      BY <3>2
  <2>3. t # h
    BY <1>4, <1>6, <2>1, <2>2 DEF JoinedHosts
  <2>4. Leave(t)
    BY <1>3, <2>1, <2>3 DEF HostReceives, h
  <2> DEFINE r == [flow |-> f, kind |-> packet.kind, dst |-> h, where |-> t]
  <2>5. packet' = NoPacket /\ arrived' = arrived \cup {r}
    BY <2>4 DEF Leave, f, h
  <2>6. Delivered(r)
    BY <1>6, <2>1, <2>3 DEF Delivered
  <2>7. QED
    BY <2>5, <2>6
<1>7. QED
  BY <1>5, <1>6

(* A draw leaves one port of those that a way has. *)
Drawn(T, s, h, port, U) == port \in Way(T, s, h) /\ U = [T EXCEPT !["forward"][s][h] = {port}]

LEMMA DrawnLeads ==
  ASSUME InPlace, DOMAIN program.tables = {"forward"}, NEW T \in Tables, NEW s \in SwitchesOf(file), NEW h \in HostsOf(file),
         NEW port, NEW U, Drawn(T, s, h, port, U)
  PROVE  /\ AllWays(T) => AllWays(U)
         /\ \A rank : TableLeads(T, rank) => TableLeads(U, rank)
<1>1. \A t \in SwitchesOf(file) : \A g \in HostsOf(file) :
        Way(U, t, g) = IF t = s /\ g = h THEN {port} ELSE Way(T, t, g)
  BY DEF Tables, Fillings, Way, Drawn
<1>2. \A t \in SwitchesOf(file) : \A g \in HostsOf(file) :
        Way(U, t, g) \subseteq Way(T, t, g) /\ (Way(T, t, g) # {} => Way(U, t, g) # {})
  <2>1. port \in Way(T, s, h)
    BY DEF Drawn
  <2>2. QED
    BY <1>1, <2>1
<1>3. AllWays(T) => AllWays(U)
  BY <1>2 DEF AllWays
<1>4. ASSUME NEW rank, TableLeads(T, rank) PROVE TableLeads(U, rank)
  <2>1. \A t \in SwitchesOf(file) : \A g \in HostsOf(file) : \A p \in Way(U, t, g) : Toward(U, rank, t, g, p)
    BY <1>2, <1>4 DEF TableLeads, Toward
  <2>2. \A a \in HostsOf(file) : net.home[a].switch \in SwitchesOf(file)
    BY HomeHasPort
  <2>3. QED
    BY <1>2, <1>4, <2>1, <2>2 DEF TableLeads
<1>5. QED
  BY <1>3, <1>4

LEMMA DrawnCarried ==
  ASSUME NEW T, NEW U, NEW rank, NEW p \in Packets, AllWays(U), Carried(T, rank, p)
  PROVE  Carried(U, rank, p)
<1>1. Way(U, p.at, p.dst) # {}
  BY PacketFields DEF AllWays
<1>2. QED
  BY <1>1 DEF Carried

(* What stays with the links and the program. *)
LEMMA RoutingStays ==
  ASSUME UNCHANGED <<program, net>>
  PROVE  /\ PlainBuilt' <=> PlainBuilt
         /\ Ranks' = Ranks
         /\ \A T, rank : TableLeads(T, rank)' <=> TableLeads(T, rank)
         /\ \A T, rank, p : Carried(T, rank, p)' <=> Carried(T, rank, p)
         /\ \A r : Delivered(r)' <=> Delivered(r)
         /\ \A T : AllWays(T)' <=> AllWays(T)
<1>1. program' = program /\ net' = net /\ file' = file
  BY DEF file
<1>2. \A s : Joined(s)' = Joined(s)
  BY JoinedStays
<1>3. PlainBuilt' <=> PlainBuilt
  BY <1>1 DEF PlainBuilt
<1>4. Ranks' = Ranks
  BY <1>1 DEF Ranks
<1>5. \A flow : JoinedHosts(flow)' <=> JoinedHosts(flow)
  BY <1>1, <1>2 DEF JoinedHosts
<1>6. \A T, rank : TableLeads(T, rank)' <=> TableLeads(T, rank)
  BY <1>1, <1>2 DEF TableLeads, Toward, Leads, LeadsOn
<1>7. \A T, rank, p : Carried(T, rank, p)' <=> Carried(T, rank, p)
  BY <1>1, <1>2, <1>5 DEF Carried
<1>8. \A r : Delivered(r)' <=> Delivered(r)
  BY <1>5 DEF Delivered
<1>9. \A T : AllWays(T)' <=> AllWays(T)
  BY <1>1 DEF AllWays
<1>10. QED
  BY <1>3, <1>4, <1>6, <1>7, <1>8, <1>9

LEMMA RoutingInductive ==
  ASSUME Typed, Routing, [Next]_vars PROVE Routing'
<1> SUFFICES ASSUME PlainBuilt' PROVE Routing'
  BY DEF Routing
<1>1. program' = program /\ file' = file
  BY Zenon DEF Next, ReadTopology, InstallLinks, BuildTables, InstallSwitches, BeginFlow, Drop, Hop, vars, file
<1>2. PlainBuilt
  BY <1>1 DEF PlainBuilt
<1>3. Progress /\ IsFile(file)
  BY ProgramFile DEF Typed
<1>4. phase # "running" => arrived = {} /\ packet = NoPacket
  BY <1>2 DEF Routing, Typed, OnItsWay
<1>5. CASE ReadTopology
  BY <1>4, <1>5 DEF ReadTopology, Routing
<1>6. CASE InstallLinks
  BY <1>4, <1>6 DEF InstallLinks, Routing
<1>7. ASSUME UNCHANGED <<net, arrived>>, phase' \in {"built", "running"}, phase' # "running" => arrived = {},
             program.buildType = "fattree" => AllWays(table'),
             NEW rank \in Ranks, TableLeads(table', rank), packet' # NoPacket => Carried(table', rank, packet')
      PROVE  Routing'
  <2>1. UNCHANGED <<program, net>>
    BY <1>1, <1>7
  <2>2. rank \in Ranks'
    BY <2>1, RoutingStays
  <2>3. TableLeads(table, rank)'
    BY <1>7, <2>1, RoutingStays
  <2>4. packet' # NoPacket => Carried(table, rank, packet)'
    BY <1>7, <2>1, RoutingStays
  <2>5. \A r \in arrived : Delivered(r)'
    BY <1>2, <2>1, RoutingStays DEF Routing
  <2>6. program'.buildType = "fattree" => AllWays(table)'
    BY <1>1, <1>7, <2>1, RoutingStays
  <2>7. QED
    BY <1>7, <2>2, <2>3, <2>4, <2>5, <2>6 DEF Routing
<1>8. CASE BuildTables
  <2>1. /\ phase = "ports" /\ phase' \in {"built", "crashed"}
        /\ UNCHANGED <<program, links, net, packet, arrived, begun>>
    BY <1>8 DEF BuildTables
  <2>2. arrived = {} /\ packet = NoPacket
    BY <1>4, <2>1
  <2>3. InPlace /\ PlainNet(file, net)
    BY <1>2, <1>3, <2>1, BuiltInPlace
  <2>4. table \in Tables /\ DOMAIN program.tables = {"forward"}
    BY <1>2, <1>3, ProgramFields DEF Typed, PlainBuilt
  <2>5. CASE phase' = "crashed"
    BY <2>1, <2>2, <2>5 DEF Routing
  <2>6. CASE program.buildType = "default" /\ phase' = "built"
    <3> DEFINE filled == [s \in SwitchesOf(file) |-> [h \in HostsOf(file) |-> Written(DefaultEntries[s], h)]]
    <3>1. table' = [table EXCEPT !["forward"] = filled]
      BY <1>3, <1>8, <2>6, BuildTablesCases
    <3>2. table'["forward"] = filled
      <4> HIDE DEF filled
      <4>1. QED
        BY <2>4, <3>1 DEF Tables
    <3>3. \A s \in SwitchesOf(file) : \A h \in HostsOf(file) : Way(table', s, h) = Written(DefaultEntries[s], h)
      BY <3>2 DEF Way
    <3> HIDE DEF filled
    <3>4. PICK rank \in Ranks : TableLeads(table', rank)
      <4>1. ASSUME NEW T, T = table' PROVE \E rank \in Ranks : TableLeads(T, rank)
        BY <1>3, <2>3, <3>3, <4>1, EntriesLead
      <4>2. QED
        BY <4>1
    <3>5. QED
      BY <1>7, <2>1, <2>2, <2>6, <3>4
  <2>7. CASE program.buildType = "fattree" /\ phase' = "built"
    <3> DEFINE filled == [s \in SwitchesOf(file) |-> [h \in HostsOf(file) |-> FattreePorts(s, h)]]
    <3>1. ~NothingToDraw
      BY <1>8, <2>7 DEF BuildTables
    <3>2. table' = [table EXCEPT !["forward"] = filled]
      BY <1>3, <1>8, <2>7, <3>1, BuildTablesCases
    <3>3. table'["forward"] = filled
      <4> HIDE DEF filled
      <4>1. QED
        BY <2>4, <3>2 DEF Tables
    <3>4. \A s \in SwitchesOf(file) : \A h \in HostsOf(file) : Way(table', s, h) = FattreePorts(s, h)
      BY <3>3 DEF Way
    <3> HIDE DEF filled
    <3>5. TreeBuilt
      BY <1>3, <2>1, <2>7, FattreeBuilt
    <3>6. AllWays(table') /\ \E rank \in Ranks : TableLeads(table', rank)
      <4>1. ASSUME NEW T, T = table' PROVE AllWays(T) /\ \E rank \in Ranks : TableLeads(T, rank)
        BY <2>3, <3>1, <3>4, <3>5, <4>1, TreeLeads
      <4>2. QED
        BY <4>1
    <3>7. PICK rank \in Ranks : TableLeads(table', rank)
      BY <3>6
    <3>8. QED
      BY <1>7, <2>1, <2>2, <2>7, <3>6, <3>7
  <2>8. QED
    BY <1>2, <2>1, <2>5, <2>6, <2>7 DEF PlainBuilt
<1>9. CASE InstallSwitches
  <2>1. /\ phase = "built" /\ phase' \in {"running", "crashed"}
        /\ UNCHANGED <<program, links, net, table, packet, arrived, begun>>
    BY <1>9 DEF InstallSwitches
  <2>2. arrived = {} /\ packet = NoPacket
    BY <1>4, <2>1
  <2>3. PICK rank \in Ranks : TableLeads(table, rank)
    BY <1>2, <2>1 DEF Routing
  <2>4. CASE phase' = "running"
    <3>1. program.buildType = "fattree" => AllWays(table')
      BY <1>2, <2>1 DEF Routing
    <3>2. QED
      BY <1>7, <2>1, <2>2, <2>3, <2>4, <3>1
  <2>5. CASE phase' = "crashed"
    BY <2>1, <2>2, <2>5 DEF Routing
  <2>6. QED
    BY <2>1, <2>4, <2>5
<1>10. ASSUME NEW flow \in program.flows, BeginFlow(flow) PROVE Routing'
  <2>1. phase = "running" /\ UNCHANGED <<program, phase, links, net, table, arrived>>
    BY <1>10 DEF BeginFlow
  <2>2. InPlace
    BY <1>3, <2>1, ProgressInPlace
  <2>3. PICK rank \in Ranks : TableLeads(table, rank)
    BY <1>2, <2>1 DEF Routing
  <2>4. packet' # NoPacket => Carried(table, rank, packet')
    <3>1. SUFFICES ASSUME packet' # NoPacket PROVE Carried(table, rank, packet')
      OBVIOUS
    <3>2. flow.to # flow.client /\ packet' = Packet(flow, "request", flow.client, flow.to)
      BY <1>2, <1>10, <3>1 DEF BeginFlow, PlainBuilt
    <3>3. flow.client \in HostsOf(file) /\ flow.to \in HostsOf(file)
      BY <1>3, ProgramFields
    <3>4. ASSUME NEW p, p = packet' PROVE Carried(table, rank, p)
      BY <1>3, <2>2, <2>3, <3>2, <3>3, <3>4, StartsCarried
    <3>5. QED
      BY <3>4
  <2>5. program.buildType = "fattree" => AllWays(table')
    BY <1>2, <2>1 DEF Routing
  <2>6. QED
    BY <1>7, <2>1, <2>3, <2>4, <2>5
<1>11. CASE Drop
  <2>1. packet # NoPacket /\ OutPorts(packet) = {}
    BY <1>11 DEF Drop
  <2>2. OutPorts(packet) # {}
    BY <1>2 DEF OutPorts, PlainBuilt
  <2>3. QED
    BY <2>1, <2>2
<1>12. CASE Hop
  <2>1. packet # NoPacket /\ UNCHANGED <<program, phase, links, net, begun>>
    BY <1>12 DEF Hop
  <2>2. phase = "running"
    BY <1>4, <2>1
  <2>3. InPlace /\ PlainNet(file, net)
    BY <1>2, <1>3, <2>2, BuiltInPlace
  <2>4. PICK port \in OutPorts(packet) :
          port \in 1 .. Len(net.ports[packet.at]) /\ Shown(port) /\ (Passed(port) \/ Received(port))
    BY <1>12, HopCases
  <2>5. PICK rank \in Ranks : TableLeads(table, rank) /\ Carried(table, rank, packet)
    BY <1>2, <2>1, <2>2 DEF Routing
  <2>6. packet' # NoPacket => packet' \in Packets
    <3>1. Typed'
      BY TypedInductive
    <3>2. QED
      BY <1>1, <3>1 DEF Typed, OnItsWay, Packets
  <2>7. /\ program.buildType = "fattree" => AllWays(table')
        /\ TableLeads(table', rank)
        /\ packet' # NoPacket /\ Carried(table, rank, packet') => Carried(table', rank, packet')
    <3>1. CASE program.buildType # "fattree"
      BY <2>4, <2>5, <3>1 DEF Shown
    <3>2. CASE program.buildType = "fattree"
      <4>1. AllWays(table)
        BY <1>2, <2>2, <3>2 DEF Routing
      <4>2. packet.at \in SwitchesOf(file) /\ packet.dst \in HostsOf(file)
        BY <2>1, PacketFields DEF Typed, OnItsWay
      <4>3. port \in Way(table, packet.at, packet.dst) /\ TableOf(packet) = "forward"
        BY <1>2, <2>1, <2>4, <4>1, <4>2, TakesWay DEF AllWays
      <4>4. table' = [table EXCEPT !["forward"][packet.at][packet.dst] = {port}]
        BY <2>4, <3>2, <4>3 DEF Shown
      <4>5. table \in Tables /\ DOMAIN program.tables = {"forward"}
        BY <1>2, <1>3, ProgramFields DEF Typed, PlainBuilt
      <4>6. ASSUME NEW U, U = table'
            PROVE  /\ AllWays(U) /\ TableLeads(U, rank)
                   /\ \A p \in Packets : Carried(table, rank, p) => Carried(U, rank, p)
        <5>1. Drawn(table, packet.at, packet.dst, port, U)
          BY <4>3, <4>4, <4>6 DEF Drawn
        <5>2. AllWays(U) /\ TableLeads(U, rank)
          BY <2>3, <2>5, <4>1, <4>2, <4>5, <5>1, DrawnLeads
        <5>3. QED
          BY <5>2, DrawnCarried
      <4>7. QED
        BY <2>6, <4>6
    <3>3. QED
      BY <3>1, <3>2
  <2>8. CASE Passed(port)
    <3>1. Carried(table, rank, packet')
      BY <1>2, <1>3, <2>1, <2>3, <2>4, <2>5, <2>8, PassedCarried
    <3>2. arrived' = arrived
      BY <2>8 DEF Passed
    <3>3. QED
      BY <1>7, <2>1, <2>2, <2>7, <3>1, <3>2
  <2>9. CASE Received(port)
    <3>1. \/ arrived' = arrived /\ packet' # NoPacket /\ Carried(table, rank, packet')
          \/ packet' = NoPacket /\ \E r : arrived' = arrived \cup {r} /\ Delivered(r)
      BY <1>2, <1>3, <2>1, <2>3, <2>4, <2>5, <2>9, ReceivedCarried
    <3>2. CASE arrived' = arrived /\ packet' # NoPacket /\ Carried(table, rank, packet')
      BY <1>7, <2>1, <2>2, <2>7, <3>2
    <3>3. CASE packet' = NoPacket /\ \E r : arrived' = arrived \cup {r} /\ Delivered(r)
      <4>1. PICK r : arrived' = arrived \cup {r} /\ Delivered(r)
        BY <3>3
      <4>2. \A x \in arrived' : Delivered(x)'
        BY <1>2, <2>1, <4>1, RoutingStays DEF Routing
      <4>3. rank \in Ranks' /\ TableLeads(table, rank)'
        BY <2>1, <2>5, <2>7, RoutingStays
      <4>4. program'.buildType = "fattree" => AllWays(table)'
        BY <1>1, <2>1, <2>7, RoutingStays
      <4>5. packet' = NoPacket /\ phase' = "running"
        BY <2>1, <2>2, <3>3
      <4>6. QED
        BY <4>2, <4>3, <4>4, <4>5 DEF Routing
    <3>4. QED
      BY <3>1, <3>2, <3>3
  <2>10. QED
    BY <2>4, <2>8, <2>9
<1>13. CASE UNCHANGED vars
  <2>1. UNCHANGED <<program, net, phase, table, packet, arrived>>
    BY <1>13 DEF vars
  <2>2. CASE phase \notin {"built", "running"}
    <3>1. arrived' = {} /\ phase' \notin {"built", "running"}
      BY <1>4, <2>1, <2>2
    <3>2. QED
      BY <3>1 DEF Routing
  <2>3. CASE phase \in {"built", "running"}
    <3>1. PICK rank \in Ranks : TableLeads(table, rank) /\ (packet # NoPacket => Carried(table, rank, packet))
      BY <1>2, <2>3 DEF Routing
    <3>2. program.buildType = "fattree" => AllWays(table')
      BY <1>2, <2>1, <2>3 DEF Routing
    <3>3. QED
      BY <1>4, <1>7, <2>1, <2>3, <3>1, <3>2
  <2>4. QED
    BY <2>2, <2>3
<1>14. QED
  BY <1>5, <1>6, <1>8, <1>9, <1>10, <1>11, <1>12, <1>13 DEF Next

(* Over plain links the tables that searches build, and those of a fat     *)
(* tree whichever uplinks its switches draw, lead every packet to the host *)
(* it is for if links join the two hosts of its flow, and otherwise no     *)
(* packet to that host and no data to any; and no packet that has a way    *)
(* comes to a switch twice (BuildFlowtableHelper::DfsFromHostIndex,        *)
(* SetSwitchesFlowtableEntries).                                           *)
THEOREM RoutesReachHolds == Spec => [](PlainBuilt => RoutesReach)
<1>1. Init => Routing
  BY DEF Init, Routing
<1>2. Spec => []Typed
  BY TypedStarts, TypedInductive, PTL DEF Spec
<1>3. Spec => []Routing
  BY <1>1, <1>2, RoutingInductive, PTL DEF Spec
<1>4. QED
  BY <1>2, <1>3, RoutingReach, PTL
=============================================================================
