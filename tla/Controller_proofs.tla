------------------------- MODULE Controller_proofs -------------------------
(***************************************************************************)
(* Proofs about Controller and the run-time interface beneath it.  The     *)
(* inductive invariant says of every switch's state that it is well        *)
(* formed; each wrapper of the run-time interface is shown to be sound     *)
(* once, for all states, and every call of the controller is a call with   *)
(* the outcome of one of them (EveryCall).                                 *)
(***************************************************************************)
EXTENDS Controller, FiniteSetTheorems, TLAPS

-----------------------------------------------------------------------------
(* Well-formed states of a switch.                                         *)

PartialMap(Ids, S) == UNION {[D -> S] : D \in SUBSET Ids}

Entries == EntryOf(Values \cup Handles)

RuntimeState ==
  [ active : Configs, loaded : Configs \cup {None}, swap : BOOLEAN,
    flow : PartialMap(Handles, Entries), ind : PartialMap(Handles, Entries),
    ws : PartialMap(Handles, Entries),
    default : [Tables -> Values \cup Handles \cup {None}],
    member : PartialMap(Handles, Values), group : PartialMap(Handles, SUBSET Handles),
    counter : [Cells -> Values], meter : [Cells -> Values],
    register : [Cells -> Values], vset : SUBSET Values,
    multicast : BOOLEAN, mirror : PartialMap(0 .. 2^15 - 1, Values) ]

(* What the table t refers to exists. *)
Refers(s, t) ==
  /\ \A h \in DOMAIN s[t] : s[t][h].target \in Targets(s, t)
  /\ s.default[t] \in Targets(s, t) \cup {None}

WellFormed(s) ==
  /\ s \in RuntimeState
  /\ \A t \in Tables : Refers(s, t)
  /\ \A g \in DOMAIN s.group : s.group[g] \subseteq DOMAIN s.member
  /\ \E v \in Values : s.meter = [x \in Cells |-> v]

(* What a wrapper may do to a well-formed state. *)
Sound(s, o) ==
  WellFormed(s) => /\ o.rc \in {-1, 0}
                   /\ WellFormed(o.state)
                   /\ o.rc = -1 => o.state = s

-----------------------------------------------------------------------------
(* Finite maps. *)

(* Giving a key a value keeps a map a map, and so does taking a key away. *)
LEMMA WithKeyMap ==
  ASSUME NEW Ids, NEW S, NEW f \in PartialMap(Ids, S), NEW h \in Ids, NEW v \in S
  PROVE  WithKey(f, h, v) \in PartialMap(Ids, S)
<1>1. PICK D \in SUBSET Ids : f \in [D -> S]
  BY DEF PartialMap
<1>2. WithKey(f, h, v) \in [D \cup {h} -> S]
  BY <1>1 DEF WithKey
<1>3. QED
  BY <1>2 DEF PartialMap

LEMMA WithoutKeyMap ==
  ASSUME NEW Ids, NEW S, NEW f \in PartialMap(Ids, S), NEW h
  PROVE  WithoutKey(f, h) \in PartialMap(Ids, S)
<1>1. PICK D \in SUBSET Ids : f \in [D -> S]
  BY DEF PartialMap
<1>2. WithoutKey(f, h) = [x \in D \ {h} |-> f[x]]
  BY <1>1 DEF WithoutKey, Restrict
<1>3. WithoutKey(f, h) \in [D \ {h} -> S]
  BY <1>1, <1>2
<1>4. QED
  BY <1>3 DEF PartialMap

LEMMA EmptyMap ==
  ASSUME NEW Ids, NEW S
  PROVE  Empty \in PartialMap(Ids, S) /\ DOMAIN Empty = {}
  BY DEF PartialMap, Empty

LEMMA MapKeys ==
  ASSUME NEW Ids, NEW S, NEW f \in PartialMap(Ids, S)
  PROVE  DOMAIN f \subseteq Ids
  BY DEF PartialMap

(* Members and groups have handles, and so have those a table refers to. *)
LEMMA HandlesTyped ==
  ASSUME NEW s \in RuntimeState
  PROVE  /\ DOMAIN s.member \subseteq Handles /\ DOMAIN s.group \subseteq Handles
         /\ \A t \in Tables : Targets(s, t) \subseteq Values \cup Handles
<1>1. s.member \in PartialMap(Handles, Values) /\ s.group \in PartialMap(Handles, SUBSET Handles)
  BY DEF RuntimeState
<1>2. DOMAIN s.member \subseteq Handles /\ DOMAIN s.group \subseteq Handles
  BY <1>1, MapKeys
<1>3. QED
  BY <1>2 DEF Targets, Tables

-----------------------------------------------------------------------------
(* Changing one component of a well-formed state. *)

(* A table may get any entries whose targets exist. *)
LEMMA TableUpdated ==
  ASSUME NEW s, WellFormed(s), NEW t \in Tables, NEW f \in PartialMap(Handles, Entries),
         \A h \in DOMAIN f : f[h].target \in Targets(s, t)
  PROVE  WellFormed([s EXCEPT ![t] = f])
<1> DEFINE r == [s EXCEPT ![t] = f]
<1>1. r \in RuntimeState
  BY DEF WellFormed, RuntimeState, Tables
<1>2. /\ r.default = s.default /\ r.member = s.member /\ r.group = s.group /\ r.meter = s.meter
      /\ r[t] = f /\ \A u \in Tables \ {t} : r[u] = s[u]
  BY DEF WellFormed, RuntimeState, Tables
<1>3. \A u \in Tables : Targets(r, u) = Targets(s, u)
  BY <1>2 DEF Targets
<1>4. \A u \in Tables : Refers(r, u)
  BY <1>2, <1>3 DEF WellFormed, Refers
<1>5. QED
  BY <1>1, <1>2, <1>4 DEF WellFormed

LEMMA DefaultUpdated ==
  ASSUME NEW s, WellFormed(s), NEW t \in Tables, NEW x \in Targets(s, t) \cup {None}
  PROVE  WellFormed([s EXCEPT !.default = [@ EXCEPT ![t] = x]])
<1> DEFINE r == [s EXCEPT !.default = [@ EXCEPT ![t] = x]]
<1>0. s \in RuntimeState
  BY DEF WellFormed
<1>1. x \in Values \cup Handles \cup {None}
  BY <1>0, HandlesTyped
<1>2. r \in RuntimeState
  BY <1>0, <1>1 DEF RuntimeState
<1>3. /\ r.member = s.member /\ r.group = s.group /\ r.meter = s.meter
      /\ \A u \in Tables : r[u] = s[u]
      /\ r.default[t] = x /\ \A u \in Tables \ {t} : r.default[u] = s.default[u]
  BY <1>0 DEF RuntimeState, Tables
<1>4. \A u \in Tables : Targets(r, u) = Targets(s, u)
  BY <1>3 DEF Targets
<1>5. \A u \in Tables : Refers(r, u)
  BY <1>3, <1>4 DEF WellFormed, Refers
<1>6. QED
  BY <1>2, <1>3, <1>5 DEF WellFormed

(* Members may go that are not in use. *)
LEMMA MemberUpdated ==
  ASSUME NEW s, WellFormed(s), NEW f \in PartialMap(Handles, Values),
         \A m \in DOMAIN s.member \ DOMAIN f : ~MemberInUse(s, m)
  PROVE  WellFormed([s EXCEPT !.member = f])
<1> DEFINE r == [s EXCEPT !.member = f]
<1>0. s \in RuntimeState
  BY DEF WellFormed
<1>1. r \in RuntimeState
  BY <1>0 DEF RuntimeState
<1>2. /\ r.default = s.default /\ r.group = s.group /\ r.meter = s.meter /\ r.member = f
      /\ \A u \in Tables : r[u] = s[u]
  BY <1>0 DEF RuntimeState, Tables
<1>3. Used(s, "ind") \subseteq DOMAIN f \cup {None}
  BY DEF WellFormed, Refers, Targets, Tables, MemberInUse, Used
<1>4. Refers(r, "ind")
  <2>1. r["ind"] = s["ind"] /\ r.default["ind"] = s.default["ind"]
    BY <1>2 DEF Tables
  <2>2. Targets(r, "ind") = DOMAIN f
    BY <1>2 DEF Targets
  <2>3. /\ \A h \in DOMAIN s["ind"] : s["ind"][h].target \in DOMAIN f \cup {None}
        /\ s.default["ind"] \in DOMAIN f \cup {None}
    BY <1>3 DEF Used
  <2>4. \A h \in DOMAIN s["ind"] : s["ind"][h].target # None
    <3>1. DOMAIN s.member \subseteq Handles /\ DOMAIN s.group \subseteq Handles
      BY <1>0, HandlesTyped
    <3>2. QED
      BY <3>1, RuntimeAssumption DEF WellFormed, Refers, Targets, Tables
  <2>5. QED
    BY <2>1, <2>2, <2>3, <2>4 DEF Refers
<1>5. Refers(r, "flow") /\ Refers(r, "ws")
  BY <1>2 DEF WellFormed, Refers, Targets, Tables
<1>6. \A g \in DOMAIN r.group : r.group[g] \subseteq DOMAIN r.member
  BY <1>2 DEF WellFormed, MemberInUse
<1>7. QED
  BY <1>1, <1>2, <1>4, <1>5, <1>6 DEF WellFormed, Tables

(* Groups may go that no entry refers to; they list members that exist. *)
LEMMA GroupUpdated ==
  ASSUME NEW s, WellFormed(s), NEW f \in PartialMap(Handles, SUBSET Handles),
         \A g \in DOMAIN f : f[g] \subseteq DOMAIN s.member,
         \A g \in DOMAIN s.group \ DOMAIN f : g \notin Used(s, "ws")
  PROVE  WellFormed([s EXCEPT !.group = f])
<1> DEFINE r == [s EXCEPT !.group = f]
<1>0. s \in RuntimeState
  BY DEF WellFormed
<1>1. r \in RuntimeState
  BY <1>0 DEF RuntimeState
<1>2. /\ r.default = s.default /\ r.member = s.member /\ r.meter = s.meter /\ r.group = f
      /\ \A u \in Tables : r[u] = s[u]
  BY <1>0 DEF RuntimeState, Tables
<1>3. Used(s, "ws") \subseteq DOMAIN f \cup {None}
  BY DEF WellFormed, Refers, Targets, Tables, Used
<1>4. Refers(r, "ws")
  <2>1. r["ws"] = s["ws"] /\ r.default["ws"] = s.default["ws"]
    BY <1>2 DEF Tables
  <2>2. Targets(r, "ws") = DOMAIN f
    BY <1>2 DEF Targets
  <2>3. /\ \A h \in DOMAIN s["ws"] : s["ws"][h].target \in DOMAIN f \cup {None}
        /\ s.default["ws"] \in DOMAIN f \cup {None}
    BY <1>3 DEF Used
  <2>4. \A h \in DOMAIN s["ws"] : s["ws"][h].target # None
    <3>1. DOMAIN s.member \subseteq Handles /\ DOMAIN s.group \subseteq Handles
      BY <1>0, HandlesTyped
    <3>2. QED
      BY <3>1, RuntimeAssumption DEF WellFormed, Refers, Targets, Tables
  <2>5. QED
    BY <2>1, <2>2, <2>3, <2>4 DEF Refers
<1>5. Refers(r, "flow") /\ Refers(r, "ind")
  BY <1>2 DEF WellFormed, Refers, Targets, Tables
<1>6. QED
  BY <1>1, <1>2, <1>4, <1>5 DEF WellFormed, Tables

(* Components that nothing refers to. *)
Plain == {"active", "loaded", "swap", "counter", "register", "vset", "multicast", "mirror"}

LEMMA PlainUpdated ==
  ASSUME NEW s, WellFormed(s), NEW c \in Plain, NEW x, [s EXCEPT ![c] = x] \in RuntimeState
  PROVE  WellFormed([s EXCEPT ![c] = x])
<1> DEFINE r == [s EXCEPT ![c] = x]
<1>2. /\ r.default = s.default /\ r.member = s.member /\ r.meter = s.meter /\ r.group = s.group
      /\ \A u \in Tables : r[u] = s[u]
  BY DEF WellFormed, RuntimeState, Tables, Plain
<1>3. \A u \in Tables : Refers(r, u)
  BY <1>2 DEF WellFormed, Refers, Targets
<1>4. QED
  BY <1>2, <1>3 DEF WellFormed

-----------------------------------------------------------------------------
(* The wrappers of the run-time interface are sound.                       *)

LEMMA RefusalSound ==
  ASSUME NEW s
  PROVE  Sound(s, Failed(s)) /\ \A out : Sound(s, Ok(s, out))
  BY DEF Sound, Failed, Ok

LEMMA TrySound ==
  ASSUME NEW s, NEW t, NEW accepted \in BOOLEAN, NEW out,
         WellFormed(s) /\ accepted => WellFormed(t)
  PROVE  Sound(s, Try(accepted, s, t, out))
  BY DEF Sound, Try, Failed, Ok

(* Entries of a match table. *)
LEMMA AddEntrySound ==
  ASSUME NEW s, NEW t \in Tables, NEW k \in Keys, NEW x, NEW h \in Handles
  PROVE  Sound(s, AddEntry(s, t, k, x, h))
<1> DEFINE accepted == h \notin DOMAIN s[t] /\ k \notin KeysOf(s, t) /\ x \in Targets(s, t)
           f == WithKey(s[t], h, Entry(k, x))
<1>1. ASSUME WellFormed(s), accepted
      PROVE  WellFormed([s EXCEPT ![t] = WithKey(@, h, Entry(k, x))])
  <2>1. s[t] \in PartialMap(Handles, Entries)
    BY <1>1 DEF WellFormed, RuntimeState, Tables
  <2>2. x \in Values \cup Handles
    BY <1>1, HandlesTyped DEF WellFormed
  <2>3. Entry(k, x) \in Entries /\ Entry(k, x).target = x
    BY <2>2, RuntimeAssumption DEF Entry, Entries, EntryOf
  <2>4. /\ f \in PartialMap(Handles, Entries)
        /\ DOMAIN f = DOMAIN s[t] \cup {h}
        /\ \A e \in DOMAIN f : f[e] = IF e = h THEN Entry(k, x) ELSE s[t][e]
    <3>1. f \in PartialMap(Handles, Entries)
      BY <2>1, <2>3, WithKeyMap
    <3>2. QED
      BY <3>1 DEF WithKey
  <2>5. \A e \in DOMAIN f : f[e].target \in Targets(s, t)
    BY <1>1, <2>3, <2>4 DEF WellFormed, Refers
  <2> HIDE DEF f
  <2>6. WellFormed([s EXCEPT ![t] = f])
    BY <1>1, <2>4, <2>5, TableUpdated
  <2>7. [s EXCEPT ![t] = WithKey(@, h, Entry(k, x))] = [s EXCEPT ![t] = f]
    BY DEF f
  <2>8. QED
    BY <2>6, <2>7
<1>2. QED
  BY <1>1, TrySound DEF AddEntry

(* What a field of an entry may be set to. *)
FieldValue(s, t, field, v) ==
  \/ field = "target" /\ v \in Targets(s, t)
  \/ field \in {"ttl", "count", "rate"} /\ v \in Values

LEMMA SetFieldSound ==
  ASSUME NEW s, NEW t \in Tables, NEW h, NEW field, NEW v, NEW allowed \in BOOLEAN,
         allowed => FieldValue(s, t, field, v)
  PROVE  Sound(s, SetField(s, t, h, field, v, allowed))
<1> DEFINE f == [e \in DOMAIN s[t] |-> IF e = h THEN [s[t][e] EXCEPT ![field] = v] ELSE s[t][e]]
<1>1. ASSUME WellFormed(s), h \in DOMAIN s[t], allowed
      PROVE  WellFormed([s EXCEPT ![t] = f])
  <2>1. s[t] \in PartialMap(Handles, Entries)
    BY <1>1 DEF WellFormed, RuntimeState, Tables
  <2>2. \/ v \in Values
        \/ field = "target" /\ v \in Values \cup Handles
    BY <1>1, HandlesTyped DEF FieldValue, WellFormed
  <2>3. PICK D \in SUBSET Handles : s[t] \in [D -> Entries]
    BY <2>1 DEF PartialMap
  <2>4. ASSUME NEW e \in D
        PROVE  f[e] \in Entries /\ f[e].target \in Targets(s, t)
    <3>1. s[t][e] \in Entries /\ s[t][e].target \in Targets(s, t)
      BY <1>1, <2>3 DEF WellFormed, Refers
    <3>2. CASE e = h
      BY <1>1, <2>2, <2>3, <3>1, <3>2 DEF FieldValue, Entries, EntryOf
    <3>3. CASE e # h
      BY <2>3, <3>1, <3>3
    <3>4. QED
      BY <3>2, <3>3
  <2>5. f \in [D -> Entries]
    BY <2>3, <2>4
  <2>6. f \in PartialMap(Handles, Entries) /\ DOMAIN f = D
    BY <2>3, <2>5 DEF PartialMap
  <2>7. QED
    <3> HIDE DEF f
    <3>1. QED
      BY <1>1, <2>4, <2>6, TableUpdated
<1>2. QED
  BY <1>1, TrySound DEF SetField

LEMMA DeleteEntrySound ==
  ASSUME NEW s, NEW t \in Tables, NEW h
  PROVE  Sound(s, DeleteEntry(s, t, h))
<1> DEFINE f == WithoutKey(s[t], h)
<1>1. ASSUME WellFormed(s)
      PROVE  WellFormed([s EXCEPT ![t] = f])
  <2>1. s[t] \in PartialMap(Handles, Entries)
    BY <1>1 DEF WellFormed, RuntimeState, Tables
  <2>2. /\ f \in PartialMap(Handles, Entries)
        /\ DOMAIN f = DOMAIN s[t] \ {h}
        /\ \A e \in DOMAIN f : f[e] = s[t][e]
    <3>1. f \in PartialMap(Handles, Entries)
      BY <2>1, WithoutKeyMap
    <3>2. QED
      BY <3>1 DEF WithoutKey, Restrict
  <2>3. \A e \in DOMAIN f : f[e].target \in Targets(s, t)
    BY <1>1, <2>2 DEF WellFormed, Refers
  <2> HIDE DEF f
  <2>4. QED
    BY <1>1, <2>2, <2>3, TableUpdated
<1>2. QED
  BY <1>1 DEF DeleteEntry, Try, Failed, Ok, Sound

LEMMA DefaultSound ==
  ASSUME NEW s, NEW t \in Tables
  PROVE  /\ \A x : Sound(s, SetDefault(s, t, x))
         /\ Sound(s, ResetDefault(s, t))
         /\ WellFormed(s) => WellFormed(ResetDefault(s, t).state)
<1>1. ASSUME NEW x PROVE Sound(s, SetDefault(s, t, x))
  BY DefaultUpdated DEF SetDefault, Try, Failed, Ok, Sound
<1>2. (IF t = "flow" THEN 0 ELSE None) \in Targets(s, t) \cup {None}
  BY RuntimeAssumption DEF Targets
<1>3. ASSUME WellFormed(s)
      PROVE  WellFormed([s EXCEPT !.default = [@ EXCEPT ![t] = IF t = "flow" THEN 0 ELSE None]])
  BY <1>2, <1>3, DefaultUpdated
<1>4. QED
  BY <1>1, <1>3 DEF ResetDefault, Sound, Ok

LEMMA ClearSound ==
  ASSUME NEW s, NEW t \in Tables, NEW resetDefault \in BOOLEAN
  PROVE  Sound(s, ClearFlowTableEntries(s, t, resetDefault))
<1>1. ASSUME WellFormed(s) PROVE WellFormed([s EXCEPT ![t] = Empty])
  BY <1>1, EmptyMap, TableUpdated
<1>2. QED
  BY <1>1, DefaultSound DEF ClearFlowTableEntries, Sound, Ok

(* The action profile. *)
LEMMA AddMemberSound ==
  ASSUME NEW s, NEW v \in Values, NEW m \in Handles
  PROVE  /\ Sound(s, AddActionProfileMember(s, v, m))
         /\ Sound(s, ModifyActionProfileMember(s, m, v))
<1> DEFINE f == WithKey(s.member, m, v)
<1>1. ASSUME WellFormed(s) PROVE WellFormed([s EXCEPT !.member = f])
  <2>1. s.member \in PartialMap(Handles, Values)
    BY <1>1 DEF WellFormed, RuntimeState
  <2>2. f \in PartialMap(Handles, Values)
    BY <2>1, WithKeyMap
  <2>3. DOMAIN f = DOMAIN s.member \cup {m}
    BY DEF WithKey
  <2> HIDE DEF f
  <2>4. QED
    BY <1>1, <2>2, <2>3, MemberUpdated
<1>2. QED
  BY <1>1 DEF AddActionProfileMember, ModifyActionProfileMember, Try, Failed, Ok, Sound

LEMMA DeleteMemberSound ==
  ASSUME NEW s, NEW m \in Handles
  PROVE  Sound(s, DeleteActionProfileMember(s, m))
<1> DEFINE f == WithoutKey(s.member, m)
<1>1. ASSUME WellFormed(s), ~MemberInUse(s, m) PROVE WellFormed([s EXCEPT !.member = f])
  <2>1. s.member \in PartialMap(Handles, Values)
    BY <1>1 DEF WellFormed, RuntimeState
  <2>2. f \in PartialMap(Handles, Values)
    BY <2>1, WithoutKeyMap
  <2>3. DOMAIN f = DOMAIN s.member \ {m}
    BY DEF WithoutKey, Restrict
  <2> HIDE DEF f
  <2>4. QED
    BY <1>1, <2>2, <2>3, MemberUpdated
<1>2. QED
  BY <1>1, TrySound DEF DeleteActionProfileMember

(* A group whose members exist may be put in the place of another. *)
LEMMA GroupReplaced ==
  ASSUME NEW s, WellFormed(s), NEW g \in Handles, NEW ms \in SUBSET DOMAIN s.member
  PROVE  WellFormed([s EXCEPT !.group = WithKey(@, g, ms)])
<1> DEFINE f == WithKey(s.group, g, ms)
<1>1. s.group \in PartialMap(Handles, SUBSET Handles) /\ ms \in SUBSET Handles
  <2>1. s \in RuntimeState
    BY DEF WellFormed
  <2>2. QED
    BY <2>1, HandlesTyped DEF RuntimeState
<1>2. /\ f \in PartialMap(Handles, SUBSET Handles)
      /\ DOMAIN f = DOMAIN s.group \cup {g}
      /\ \A x \in DOMAIN f : f[x] = IF x = g THEN ms ELSE s.group[x]
  <2>1. f \in PartialMap(Handles, SUBSET Handles)
    BY <1>1, WithKeyMap
  <2>2. QED
    BY <2>1 DEF WithKey
<1>3. \A x \in DOMAIN f : f[x] \subseteq DOMAIN s.member
  BY <1>2 DEF WellFormed
<1>4. WellFormed([s EXCEPT !.group = f])
  <2> HIDE DEF f
  <2>1. QED
    BY <1>2, <1>3, GroupUpdated
<1>5. QED
  BY <1>4

LEMMA GroupSound ==
  ASSUME NEW s, NEW g \in Handles, NEW m \in Handles
  PROVE  /\ Sound(s, CreateActionProfileGroup(s, g))
         /\ Sound(s, AddMemberToGroup(s, m, g))
         /\ Sound(s, RemoveMemberFromGroup(s, m, g))
<1>1. Sound(s, CreateActionProfileGroup(s, g))
  BY GroupReplaced, TrySound DEF CreateActionProfileGroup
<1>2. Sound(s, AddMemberToGroup(s, m, g))
  <2>1. ASSUME WellFormed(s), g \in DOMAIN s.group, m \in DOMAIN s.member
        PROVE  WellFormed([s EXCEPT !.group = WithKey(@, g, @[g] \cup {m})])
    <3>1. s.group[g] \cup {m} \in SUBSET DOMAIN s.member
      BY <2>1 DEF WellFormed
    <3>2. QED
      BY <2>1, <3>1, GroupReplaced
  <2>2. QED
    BY <2>1, TrySound DEF AddMemberToGroup
<1>3. Sound(s, RemoveMemberFromGroup(s, m, g))
  <2>1. ASSUME WellFormed(s), g \in DOMAIN s.group
        PROVE  WellFormed([s EXCEPT !.group = WithKey(@, g, @[g] \ {m})])
    <3>1. s.group[g] \ {m} \in SUBSET DOMAIN s.member
      BY <2>1 DEF WellFormed
    <3>2. QED
      BY <2>1, <3>1, GroupReplaced
  <2>2. QED
    BY <2>1, TrySound DEF RemoveMemberFromGroup
<1>4. QED
  BY <1>1, <1>2, <1>3

LEMMA DeleteGroupSound ==
  ASSUME NEW s, NEW g \in Handles
  PROVE  Sound(s, DeleteActionProfileGroup(s, g))
<1> DEFINE f == WithoutKey(s.group, g)
<1>1. ASSUME WellFormed(s), g \notin Used(s, "ws") PROVE WellFormed([s EXCEPT !.group = f])
  <2>1. s.group \in PartialMap(Handles, SUBSET Handles)
    BY <1>1 DEF WellFormed, RuntimeState
  <2>2. /\ f \in PartialMap(Handles, SUBSET Handles)
        /\ DOMAIN f = DOMAIN s.group \ {g}
        /\ \A x \in DOMAIN f : f[x] = s.group[x]
    <3>1. f \in PartialMap(Handles, SUBSET Handles)
      BY <2>1, WithoutKeyMap
    <3>2. QED
      BY <3>1 DEF WithoutKey, Restrict
  <2>3. \A x \in DOMAIN f : f[x] \subseteq DOMAIN s.member
    BY <1>1, <2>2 DEF WellFormed
  <2> HIDE DEF f
  <2>4. QED
    BY <1>1, <2>2, <2>3, GroupUpdated
<1>2. QED
  BY <1>1 DEF DeleteActionProfileGroup, Try, Failed, Ok, Sound

(* Arrays and sets of values. *)
LEMMA CellsSound ==
  ASSUME NEW s, NEW array \in {"counter", "register"}, NEW v \in Values
  PROVE  /\ \A x : Sound(s, SetCell(s, array, x, v))
         /\ \A xs : Sound(s, SetCells(s, array, xs, v))
<1>1. ASSUME WellFormed(s), NEW x
      PROVE  WellFormed([s EXCEPT ![array] = [@ EXCEPT ![x] = v]])
  <2>1. s \in RuntimeState /\ s[array] \in [Cells -> Values]
    BY <1>1 DEF WellFormed, RuntimeState
  <2>2. [s EXCEPT ![array] = [@ EXCEPT ![x] = v]] \in RuntimeState
    BY <2>1 DEF RuntimeState
  <2>3. QED
    BY <1>1, <2>2, PlainUpdated DEF Plain
<1>2. ASSUME WellFormed(s), NEW xs
      PROVE  WellFormed([s EXCEPT ![array] = [x \in Cells |-> IF x \in xs THEN v ELSE @[x]]])
  <2>1. s \in RuntimeState /\ s[array] \in [Cells -> Values]
    BY <1>2 DEF WellFormed, RuntimeState
  <2>2. [x \in Cells |-> IF x \in xs THEN v ELSE s[array][x]] \in [Cells -> Values]
    BY <2>1
  <2>3. [s EXCEPT ![array] = [x \in Cells |-> IF x \in xs THEN v ELSE @[x]]] \in RuntimeState
    BY <2>1, <2>2 DEF RuntimeState
  <2>4. QED
    BY <1>2, <2>3, PlainUpdated DEF Plain
<1>3. QED
  BY <1>1, <1>2 DEF SetCell, SetCells, Try, Failed, Ok, Sound

(* All cells of a meter get the same rates. *)
LEMMA MeterSound ==
  ASSUME NEW s, NEW v \in Values
  PROVE  Sound(s, SetMeterArrayRates(s, v))
<1> DEFINE r == [s EXCEPT !.meter = [x \in Cells |-> v]]
<1>1. ASSUME WellFormed(s) PROVE WellFormed(r)
  <2>1. s \in RuntimeState
    BY <1>1 DEF WellFormed
  <2>2. r \in RuntimeState
    BY <2>1 DEF RuntimeState
  <2>3. /\ r.default = s.default /\ r.member = s.member /\ r.group = s.group
        /\ r.meter = [x \in Cells |-> v] /\ \A u \in Tables : r[u] = s[u]
    BY <2>1 DEF RuntimeState, Tables
  <2>4. \A u \in Tables : Refers(r, u)
    BY <1>1, <2>3 DEF WellFormed, Refers, Targets
  <2>5. QED
    BY <1>1, <2>2, <2>3, <2>4 DEF WellFormed
<1>2. [s EXCEPT !.meter = [x \in Cells |-> IF x \in Cells THEN v ELSE @[x]]] = r
  OBVIOUS
<1>3. QED
  BY <1>1, <1>2 DEF SetMeterArrayRates, SetCells, Try, Failed, Ok, Sound

LEMMA ParseVsetSound ==
  ASSUME NEW s, NEW v \in Values
  PROVE  /\ Sound(s, ParseVsetAdd(s, v))
         /\ Sound(s, ParseVsetRemove(s, v))
         /\ Sound(s, ParseVsetClear(s))
<1>1. ASSUME WellFormed(s), NEW vs \in SUBSET Values
      PROVE  WellFormed([s EXCEPT !.vset = vs])
  <2>1. [s EXCEPT !.vset = vs] \in RuntimeState
    BY <1>1 DEF WellFormed, RuntimeState
  <2>2. QED
    BY <1>1, <2>1, PlainUpdated DEF Plain
<1>2. ASSUME WellFormed(s)
      PROVE  /\ WellFormed([s EXCEPT !.vset = @ \cup {v}])
             /\ WellFormed([s EXCEPT !.vset = @ \ {v}])
             /\ WellFormed([s EXCEPT !.vset = {}])
  <2>1. s.vset \in SUBSET Values
    BY <1>2 DEF WellFormed, RuntimeState
  <2>2. s.vset \cup {v} \in SUBSET Values /\ s.vset \ {v} \in SUBSET Values
    BY <2>1
  <2>3. QED
    BY <1>1, <1>2, <2>2
<1>3. QED
  BY <1>2 DEF ParseVsetAdd, ParseVsetRemove, ParseVsetClear, Try, Failed, Ok, Sound

(* The switch as a whole. *)
LEMMA MirroringSound ==
  ASSUME NEW s, NEW id, NEW v \in Values
  PROVE  /\ Sound(s, AddMirroringSession(s, id, v))
         /\ Sound(s, DeleteMirroringSession(s, id))
<1> DEFINE Mirrors == PartialMap(0 .. 2^15 - 1, Values)
<1>1. ASSUME WellFormed(s), NEW f \in Mirrors
      PROVE  WellFormed([s EXCEPT !.mirror = f])
  <2>1. [s EXCEPT !.mirror = f] \in RuntimeState
    BY <1>1 DEF WellFormed, RuntimeState
  <2>2. QED
    BY <1>1, <2>1, PlainUpdated DEF Plain
<1>2. WellFormed(s) => s.mirror \in Mirrors
  BY DEF WellFormed, RuntimeState
<1>3. ASSUME WellFormed(s), InRange(id)
      PROVE  /\ WellFormed([s EXCEPT !.mirror = WithKey(@, id, v)])
             /\ WellFormed([s EXCEPT !.mirror = WithoutKey(@, id)])
  <2>1. id \in 0 .. 2^15 - 1
    BY <1>3 DEF InRange, MaxMirrorSessionId
  <2> HIDE DEF Mirrors
  <2>2. WithKey(s.mirror, id, v) \in Mirrors /\ WithoutKey(s.mirror, id) \in Mirrors
    BY <1>2, <1>3, <2>1, WithKeyMap, WithoutKeyMap DEF Mirrors
  <2>3. QED
    BY <1>1, <1>3, <2>2
<1>4. QED
  BY <1>3 DEF AddMirroringSession, DeleteMirroringSession, Try, Failed, Ok, Sound

LEMMA FreshWellFormed ==
  ASSUME NEW config \in Configs
  PROVE  WellFormed(Fresh(config))
<1> DEFINE r == Fresh(config)
<1>1. /\ Empty \in PartialMap(Handles, Entries) /\ Empty \in PartialMap(Handles, Values)
      /\ Empty \in PartialMap(Handles, SUBSET Handles)
      /\ Empty \in PartialMap(0 .. 2^15 - 1, Values) /\ DOMAIN Empty = {}
  BY EmptyMap
<1>2. [x \in Cells |-> 0] \in [Cells -> Values]
  BY RuntimeAssumption
<1>3. [t \in Tables |-> IF t = "flow" THEN 0 ELSE None] \in [Tables -> Values \cup Handles \cup {None}]
  BY RuntimeAssumption
<1>4. r \in RuntimeState
  BY <1>1, <1>2, <1>3 DEF Fresh, RuntimeState
<1>5. \A t \in Tables : r[t] = Empty /\ r.default[t] = IF t = "flow" THEN 0 ELSE None
  BY DEF Fresh, Tables
<1>6. \A t \in Tables : Refers(r, t)
  BY <1>1, <1>5, RuntimeAssumption DEF Refers, Targets
<1>7. r.group = Empty /\ r.meter = [x \in Cells |-> 0]
  BY DEF Fresh
<1>8. QED
  BY <1>1, <1>4, <1>6, <1>7, RuntimeAssumption DEF WellFormed

LEMMA ResetStateSound ==
  ASSUME NEW s
  PROVE  Sound(s, ResetState(s))
<1> DEFINE f == Fresh(s.active)
           r == [f EXCEPT !.loaded = s.loaded, !.swap = s.swap, !.mirror = s.mirror,
                          !.multicast = s.multicast]
           q == [r EXCEPT !.multicast = FALSE]
<1>1. ASSUME WellFormed(s) PROVE WellFormed(q)
  <2>1. s \in RuntimeState /\ WellFormed(f)
    BY <1>1, FreshWellFormed DEF WellFormed, RuntimeState
  <2>2. f \in RuntimeState
    BY <2>1 DEF WellFormed
  <2> HIDE DEF f
  <2>3. q \in RuntimeState
    BY <2>1, <2>2 DEF RuntimeState
  <2>4. /\ q.default = f.default /\ q.member = f.member /\ q.group = f.group
        /\ q.meter = f.meter /\ \A u \in Tables : q[u] = f[u]
    BY <2>2 DEF RuntimeState, Tables
  <2> HIDE DEF q
  <2>5. \A u \in Tables : Refers(q, u)
    BY <2>1, <2>4 DEF WellFormed, Refers, Targets
  <2>6. QED
    BY <2>1, <2>3, <2>4, <2>5 DEF WellFormed
<1>2. QED
  BY <1>1 DEF ResetState, ResetTargetState, Ok, Sound

LEMMA ConfigSound ==
  ASSUME NEW s, NEW enableSwap \in BOOLEAN, NEW config \in Configs
  PROVE  /\ Sound(s, LoadNewConfig(s, enableSwap, config))
         /\ Sound(s, SwapConfigs(s))
<1>1. ASSUME WellFormed(s) PROVE WellFormed([s EXCEPT !.loaded = config])
  <2>1. [s EXCEPT !.loaded = config] \in RuntimeState
    BY <1>1 DEF WellFormed, RuntimeState
  <2>2. QED
    BY <1>1, <2>1, PlainUpdated DEF Plain
<1>2. ASSUME WellFormed(s) PROVE WellFormed([s EXCEPT !.swap = TRUE])
  <2>1. [s EXCEPT !.swap = TRUE] \in RuntimeState
    BY <1>2 DEF WellFormed, RuntimeState
  <2>2. QED
    BY <1>2, <2>1, PlainUpdated DEF Plain
<1>3. QED
  BY <1>1, <1>2 DEF LoadNewConfig, SwapConfigs, Try, Failed, Ok, Sound

(* The flow table file that DoInitialize loads. *)
LEMMA LoadFlowTableWellFormed ==
  ASSUME NEW s, WellFormed(s), NEW found \in BOOLEAN, NEW k \in Keys, NEW h \in Handles
  PROVE  WellFormed(LoadFlowTable(s, found, k, h))
<1> DEFINE o == AddFlowEntry(s, k, 0, h).state
<1>1. WellFormed(o)
  BY AddEntrySound, RuntimeAssumption DEF AddFlowEntry, Sound, Tables
<1> HIDE DEF o
<1>2. [o EXCEPT !.multicast = TRUE] \in RuntimeState
  BY <1>1 DEF WellFormed, RuntimeState
<1>3. WellFormed([o EXCEPT !.multicast = TRUE])
  BY <1>1, <1>2, PlainUpdated DEF Plain
<1>4. QED
  BY <1>3 DEF LoadFlowTable, o

(* The counters of all entries of the direct table are set to 0. *)
LEMMA ResetCountersSound ==
  ASSUME NEW s
  PROVE  Sound(s, ResetTableCounters(s))
<1> DEFINE f == [h \in DOMAIN s.flow |-> [s.flow[h] EXCEPT !.count = 0]]
<1>1. ASSUME WellFormed(s) PROVE WellFormed([s EXCEPT !["flow"] = f])
  <2>1. s["flow"] \in PartialMap(Handles, Entries)
    BY <1>1 DEF WellFormed, RuntimeState
  <2>2. PICK D \in SUBSET Handles : s.flow \in [D -> Entries]
    BY <2>1 DEF PartialMap
  <2>3. ASSUME NEW h \in D
        PROVE  f[h] \in Entries /\ f[h].target = s.flow[h].target
    BY <2>2, RuntimeAssumption DEF Entries, EntryOf
  <2>4. f \in [D -> Entries]
    BY <2>2, <2>3
  <2>5. f \in PartialMap(Handles, Entries) /\ DOMAIN f = D
    BY <2>4 DEF PartialMap
  <2>6. \A h \in D : f[h].target \in Targets(s, "flow")
    BY <1>1, <2>2, <2>3 DEF WellFormed, Refers, Tables
  <2> HIDE DEF f
  <2>7. QED
    BY <1>1, <2>5, <2>6, TableUpdated DEF Tables
<1>2. QED
  BY <1>1 DEF ResetTableCounters, Ok, Sound

-----------------------------------------------------------------------------
(* Every call of the controller is a call with a sound outcome.            *)

SoundCall(i) == \E o : Sound(State(i), o) /\ Call(i, o)

LEMMA OutcomeSound ==
  ASSUME NEW i, NEW o, Sound(State(i), o), Call(i, o)
  PROVE  SoundCall(i)
  BY DEF SoundCall

LEMMA FlowCallsSound ==
  ASSUME NEW i, FlowFamily(i)
  PROVE  SoundCall(i)
<1> DEFINE s == State(i)
<1> "flow" \in Tables
  BY DEF Tables
<1>1. ASSUME ViewCalls(i) PROVE SoundCall(i)
  <2>1. Sound(s, GetNumEntries(s, "flow"))
    BY RefusalSound DEF GetNumEntries
  <2>2. QED
    BY <1>1, <2>1, OutcomeSound DEF ViewCalls
<1>2. ASSUME EntryCalls(i) PROVE SoundCall(i)
  <2>1. /\ \A reset \in BOOLEAN : Sound(s, ClearFlowTableEntries(s, "flow", reset))
        /\ \A k \in Keys, v \in Values, h \in Handles : Sound(s, AddFlowEntry(s, k, v, h))
        /\ \A v \in Values : Sound(s, SetDefaultAction(s, v))
        /\ Sound(s, ResetDefaultEntry(s))
    BY ClearSound, AddEntrySound, DefaultSound
       DEF AddFlowEntry, SetDefaultAction, ResetDefaultEntry
  <2>2. QED
    BY <1>2, <2>1, OutcomeSound DEF EntryCalls
<1>3. ASSUME HandleCalls(i) PROVE SoundCall(i)
  <2>1. /\ \A h \in Handles : Sound(s, DeleteFlowEntry(s, h))
        /\ \A h \in Handles, v \in Values : Sound(s, ModifyFlowEntry(s, h, v))
        /\ \A h \in Handles, v \in Values : Sound(s, SetEntryTtl(s, h, v))
    BY DeleteEntrySound, SetFieldSound
       DEF DeleteFlowEntry, ModifyFlowEntry, SetEntryTtl, FieldValue, Targets
  <2>2. QED
    BY <1>3, <2>1, OutcomeSound DEF HandleCalls
<1>4. ASSUME TableCounterCalls(i) PROVE SoundCall(i)
  <2>1. Sound(s, ResetTableCounters(s))
    BY ResetCountersSound
  <2>2. \A h \in Handles : Sound(s, ReadTableCounters(s, h))
    BY DEF ReadTableCounters, Read, Try, Failed, Ok, Sound
  <2>3. \A h \in Handles, v \in Values : Sound(s, WriteTableCounters(s, h, v))
    BY SetFieldSound DEF WriteTableCounters, FieldValue
  <2>4. QED
    BY <1>4, <2>1, <2>2, <2>3, OutcomeSound DEF TableCounterCalls
<1>5. ASSUME TableMeterCalls(i) PROVE SoundCall(i)
  <2>1. /\ \A h \in Handles, v \in Values : Sound(s, SetMeterRates(s, TRUE, h, v))
        /\ \A h \in Handles : Sound(s, ResetMeterRates(s, TRUE, h))
    BY SetFieldSound, RuntimeAssumption DEF SetMeterRates, ResetMeterRates, FieldValue
  <2>2. \A h \in Handles : Sound(s, GetMeterRates(s, TRUE, h))
    BY DEF GetMeterRates, Read, Try, Failed, Ok, Sound
  <2>3. QED
    BY <1>5, <2>1, <2>2, OutcomeSound DEF TableMeterCalls
<1>6. ASSUME PrintFlowEntries(i) PROVE SoundCall(i)
  <2>1. \A t \in Tables : Sound(s, GetEntries(s, t))
    BY RefusalSound DEF GetEntries
  <2>2. QED
    BY <1>6, <2>1, OutcomeSound DEF PrintFlowEntries
<1>7. ASSUME PrintEntries(i) PROVE SoundCall(i)
  <2>1. \A t \in Tables : /\ \A h \in Handles : Sound(s, GetEntry(s, t, h))
                          /\ Sound(s, GetDefaultEntry(s, t))
    BY DEF GetEntry, GetDefaultEntry, Read, Try, Failed, Ok, Sound
  <2>2. QED
    BY <1>7, <2>1, OutcomeSound DEF PrintEntries
<1>8. ASSUME PrintEntriesFromKey(i) PROVE SoundCall(i)
  <2>1. \A t \in Tables, k \in Keys : Sound(s, GetEntryFromKey(s, t, k))
    BY DEF GetEntryFromKey, Read, Try, Failed, Ok, Sound
  <2>2. QED
    BY <1>8, <2>1, OutcomeSound DEF PrintEntriesFromKey
<1>9. QED
  BY <1>1, <1>2, <1>3, <1>4, <1>5, <1>6, <1>7, <1>8 DEF FlowFamily

LEMMA IndirectCallsSound ==
  ASSUME NEW i, IndirectFamily(i)
  PROVE  SoundCall(i)
<1> DEFINE s == State(i)
<1> "ind" \in Tables /\ "ws" \in Tables
  BY DEF Tables
<1>1. ASSUME MemberCalls(i) PROVE SoundCall(i)
  BY <1>1, DeleteMemberSound, AddMemberSound, OutcomeSound DEF MemberCalls
<1>2. ASSUME GroupCalls(i) PROVE SoundCall(i)
  BY <1>2, GroupSound, DeleteGroupSound, OutcomeSound DEF GroupCalls
<1>3. ASSUME MemberReads(i) PROVE SoundCall(i)
  <2>1. /\ Sound(s, GetActionProfileMembers(s))
        /\ \A m \in Handles : Sound(s, GetActionProfileMember(s, m))
    BY DEF GetActionProfileMembers, GetActionProfileMember, Read, Try, Failed, Ok, Sound
  <2>2. QED
    BY <1>3, <2>1, OutcomeSound DEF MemberReads
<1>4. ASSUME GroupReads(i) PROVE SoundCall(i)
  <2>1. /\ Sound(s, GetActionProfileGroups(s))
        /\ \A g \in Handles : Sound(s, GetActionProfileGroup(s, g))
    BY DEF GetActionProfileGroups, GetActionProfileGroup, Read, Try, Failed, Ok, Sound
  <2>2. QED
    BY <1>4, <2>1, OutcomeSound DEF GroupReads
<1>5. ASSUME IndirectCalls(i) PROVE SoundCall(i)
  <2>1. /\ \A h \in Handles : Sound(s, DeleteIndirectEntry(s, h))
        /\ \A h \in Handles, v \in Values : Sound(s, SetIndirectEntryTtl(s, h, v))
        /\ \A h \in Handles, m \in Handles, k \in Keys : Sound(s, AddIndirectEntry(s, k, m, h))
    BY DeleteEntrySound, SetFieldSound, AddEntrySound
       DEF DeleteIndirectEntry, SetIndirectEntryTtl, AddIndirectEntry, FieldValue
  <2>2. ASSUME NEW h \in Handles, NEW m \in Handles
        PROVE  Sound(s, ModifyIndirectEntry(s, h, m))
    <3> DEFINE allowed == m \in DOMAIN s.member
    <3>1. allowed \in BOOLEAN /\ (allowed => FieldValue(s, "ind", "target", m))
      BY DEF FieldValue, Targets
    <3> HIDE DEF allowed
    <3>2. Sound(s, SetField(s, "ind", h, "target", m, allowed))
      BY <3>1, SetFieldSound
    <3>3. QED
      BY <3>2 DEF ModifyIndirectEntry, allowed
  <2>3. QED
    BY <1>5, <2>1, <2>2, OutcomeSound DEF IndirectCalls
<1>6. ASSUME IndirectDefaultCalls(i) PROVE SoundCall(i)
  <2>1. /\ \A m \in Handles : Sound(s, SetIndirectDefaultMember(s, m))
        /\ Sound(s, ResetIndirectDefaultEntry(s))
    BY DefaultSound DEF SetIndirectDefaultMember, ResetIndirectDefaultEntry
  <2>2. QED
    BY <1>6, <2>1, OutcomeSound DEF IndirectDefaultCalls
<1>7. ASSUME IndirectWsCalls(i) PROVE SoundCall(i)
  <2>1. /\ \A g \in Handles : Sound(s, SetIndirectWsDefaultGroup(s, g))
        /\ \A g \in Handles, h \in Handles, k \in Keys : Sound(s, AddIndirectWsEntry(s, k, g, h))
    BY DefaultSound, AddEntrySound DEF SetIndirectWsDefaultGroup, AddIndirectWsEntry
  <2>2. ASSUME NEW h \in Handles, NEW g \in Handles
        PROVE  Sound(s, ModifyIndirectWsEntry(s, h, g))
    <3> DEFINE allowed == g \in DOMAIN s.group
    <3>1. allowed \in BOOLEAN /\ (allowed => FieldValue(s, "ws", "target", g))
      BY DEF FieldValue, Targets
    <3> HIDE DEF allowed
    <3>2. Sound(s, SetField(s, "ws", h, "target", g, allowed))
      BY <3>1, SetFieldSound
    <3>3. QED
      BY <3>2 DEF ModifyIndirectWsEntry, allowed
  <2>3. QED
    BY <1>7, <2>1, <2>2, OutcomeSound DEF IndirectWsCalls
<1>8. QED
  BY <1>1, <1>2, <1>3, <1>4, <1>5, <1>6, <1>7 DEF IndirectFamily

LEMMA ArrayCallsSound ==
  ASSUME NEW i, ArrayFamily(i)
  PROVE  SoundCall(i)
<1> DEFINE s == State(i)
<1> "flow" \in Tables /\ 0 \in Values
  BY RuntimeAssumption DEF Tables
<1>1. ASSUME CounterCalls(i) PROVE SoundCall(i)
  <2>1. /\ Sound(s, ResetCounter(s))
        /\ \A x \in Indices, v \in Values : Sound(s, WriteCounter(s, x, v))
    BY CellsSound DEF ResetCounter, WriteCounter
  <2>2. \A x \in Indices : Sound(s, ReadCounter(s, x))
    BY DEF ReadCounter, ReadCell, Read, Try, Failed, Ok, Sound
  <2>3. QED
    BY <1>1, <2>1, <2>2, OutcomeSound DEF CounterCalls
<1>2. ASSUME MeterArrayCalls(i) PROVE SoundCall(i)
  BY <1>2, MeterSound, OutcomeSound DEF MeterArrayCalls
<1>3. ASSUME MeterIndexCalls(i) PROVE SoundCall(i)
  <2>1. /\ \A x \in Indices, v \in Values : Sound(s, SetMeterRates(s, FALSE, x, v))
        /\ \A x \in Indices : Sound(s, ResetMeterRates(s, FALSE, x))
    BY SetFieldSound DEF SetMeterRates, ResetMeterRates, FieldValue
  <2>2. \A x \in Indices : Sound(s, GetMeterRates(s, FALSE, x))
    BY DEF GetMeterRates, Read, Try, Failed, Ok, Sound
  <2>3. QED
    BY <1>3, <2>1, <2>2, OutcomeSound DEF MeterIndexCalls
<1>4. ASSUME RegisterCalls(i) PROVE SoundCall(i)
  <2>1. Sound(s, RegisterReadAll(s)) /\ \A x \in Indices : Sound(s, RegisterRead(s, x))
    BY DEF RegisterReadAll, RegisterRead, ReadCell, Read, Try, Failed, Ok, Sound
  <2>2. /\ Sound(s, RegisterReset(s))
        /\ \A x \in Indices, v \in Values : Sound(s, RegisterWrite(s, x, v))
        /\ \A v \in Values : \A xs : Sound(s, RegisterWriteRange(s, xs, v))
    BY CellsSound DEF RegisterReset, RegisterWrite, RegisterWriteRange
  <2>3. QED
    BY <1>4, <2>1, <2>2, OutcomeSound DEF RegisterCalls
<1>5. ASSUME ParseVsetCalls(i) PROVE SoundCall(i)
  <2>1. Sound(s, ParseVsetGet(s))
    BY RefusalSound DEF ParseVsetGet
  <2>2. QED
    BY <1>5, <2>1, ParseVsetSound, OutcomeSound DEF ParseVsetCalls
<1>6. QED
  BY <1>1, <1>2, <1>3, <1>4, <1>5 DEF ArrayFamily

LEMMA StateCallsSound ==
  ASSUME NEW i, StateCalls(i) \/ MirroringCalls(i)
  PROVE  SoundCall(i)
<1> DEFINE s == State(i)
<1>1. ASSUME StateCalls(i) PROVE SoundCall(i)
  <2>1. /\ Sound(s, ResetState(s)) /\ Sound(s, Serialize(s))
        /\ Sound(s, GetConfig(s)) /\ Sound(s, GetConfigMd5(s))
    BY ResetStateSound, RefusalSound DEF Serialize, GetConfig, GetConfigMd5
  <2>2. ASSUME NEW config \in Configs
        PROVE  Sound(s, LoadNewConfig(s, Device(i) \in SwapEnabled, config)) /\ Sound(s, SwapConfigs(s))
    <3> DEFINE enableSwap == Device(i) \in SwapEnabled
    <3>1. enableSwap \in BOOLEAN
      OBVIOUS
    <3> HIDE DEF enableSwap
    <3>2. Sound(s, LoadNewConfig(s, enableSwap, config)) /\ Sound(s, SwapConfigs(s))
      BY <3>1, ConfigSound
    <3>3. QED
      BY <3>2 DEF enableSwap
  <2>3. \E config : config \in Configs
    BY RuntimeAssumption
  <2>4. QED
    BY <1>1, <2>1, <2>2, <2>3, OutcomeSound DEF StateCalls
<1>2. ASSUME MirroringCalls(i) PROVE SoundCall(i)
  <2>1. /\ \A id \in Sessions, v \in Values : Sound(s, AddMirroringSession(s, id, v))
        /\ \A id \in Sessions : Sound(s, DeleteMirroringSession(s, id))
    BY MirroringSound, RuntimeAssumption
  <2>2. \A id \in Sessions : Sound(s, GetMirroringSession(s, id))
    BY DEF GetMirroringSession, Read, Try, Failed, Ok, Sound
  <2>3. QED
    BY <1>2, <2>1, <2>2, OutcomeSound DEF MirroringCalls
<1>3. QED
  BY <1>1, <1>2

LEMMA EveryCall ==
  ASSUME NEW i, AnyCall(i)
  PROVE  SoundCall(i)
<1>1. ASSUME UnknownName(i) PROVE SoundCall(i)
  BY <1>1, RefusalSound, OutcomeSound DEF UnknownName
<1>2. QED
  BY <1>1, FlowCallsSound, IndirectCallsSound, ArrayCallsSound, StateCallsSound DEF AnyCall

-----------------------------------------------------------------------------
(* The inductive invariant: well-formed states, pointers that are set once *)
(* the simulation has started, and the reason of a crash.                  *)

ListType ==
  /\ connected \in Seq(Switches) /\ Len(connected) <= MaxRegistered[family]
  /\ pointer \in [Switches -> {"null", "wild", "core"}]
  /\ started \in BOOLEAN /\ crashed \in BOOLEAN
  /\ last \in [index : Indexes, rc : {-1, 0}]
  /\ family \in Families /\ calls \in 0 .. MaxCalls[family]

StatesWellFormed ==
  /\ runtime \in [Switches -> RuntimeState]
  /\ \A d \in Switches : WellFormed(runtime[d])

CoresExist == started => \A d \in V1Switches : pointer[d] = "core"

Inv == ListType /\ StatesWellFormed /\ CoresExist /\ CrashOnlyWithoutCore

(* Before any call the list is empty and every state is fresh. *)
LEMMA InvInit == Init => Inv
<1> SUFFICES ASSUME Init PROVE Inv
  OBVIOUS
<1>1. ListType
  <2>1. MaxRegistered[family] \in Nat /\ MaxCalls[family] \in Nat
    BY ControllerAssumption DEF Init
  <2>2. connected \in Seq(Switches) /\ Len(connected) = 0
    BY DEF Init
  <2>3. last \in [index : Indexes, rc : {-1, 0}]
    BY <2>1 DEF Init, Indexes
  <2>4. pointer \in [Switches -> {"null", "wild", "core"}]
    BY DEF Init
  <2>5. Len(connected) <= MaxRegistered[family] /\ calls \in 0 .. MaxCalls[family]
    BY <2>1, <2>2 DEF Init
  <2>6. started \in BOOLEAN /\ crashed \in BOOLEAN /\ family \in Families
    BY DEF Init
  <2>7. QED
    BY <2>2, <2>3, <2>4, <2>5, <2>6 DEF ListType
<1>2. StatesWellFormed
  <2>1. PICK config \in Configs : runtime = [d \in Switches |-> Fresh(config)]
    BY DEF Init
  <2>2. QED
    BY <2>1, FreshWellFormed DEF StatesWellFormed, WellFormed
<1>3. CoresExist /\ CrashOnlyWithoutCore
  BY DEF Init, CoresExist, CrashOnlyWithoutCore
<1>4. QED
  BY <1>1, <1>2, <1>3 DEF Inv

(* Registering a switch changes the list only; nothing has crashed. *)
LEMMA InvRegister ==
  ASSUME Inv, NEW d \in Switches, RegisterSwitch(d)
  PROVE  Inv'
<1>1. ListType'
  BY ControllerAssumption DEF Inv, ListType, RegisterSwitch, Indexes
<1>2. StatesWellFormed' /\ CoresExist'
  BY DEF Inv, StatesWellFormed, CoresExist, RegisterSwitch
<1>3. CrashOnlyWithoutCore'
  BY DEF RegisterSwitch, CrashOnlyWithoutCore
<1>4. QED
  BY <1>1, <1>2, <1>3 DEF Inv

(* The start fills tables from a file and sets the v1model pointers. *)
LEMMA InvStart ==
  ASSUME Inv, Start
  PROVE  Inv'
<1>1. ListType'
  BY DEF Inv, ListType, Start, Indexes
<1>2. StatesWellFormed'
  <2>1. PICK found \in BOOLEAN, k \in Keys, h \in Handles :
          runtime' = [d \in Switches |->
            IF d \in V1Switches THEN LoadFlowTable(runtime[d], found, k, h) ELSE runtime[d]]
    BY DEF Start
  <2>2. \A d \in Switches : WellFormed(runtime'[d])
    BY <2>1, LoadFlowTableWellFormed DEF Inv, StatesWellFormed
  <2>3. QED
    BY <2>1, <2>2 DEF StatesWellFormed, WellFormed
<1>3. CoresExist' /\ CrashOnlyWithoutCore'
  BY ControllerAssumption DEF Start, CoresExist, CrashOnlyWithoutCore
<1>4. QED
  BY <1>1, <1>2, <1>3 DEF Inv

(* A call crashes only through a pointer that was never set, and replaces  *)
(* no state but the one of the switch it names, by the outcome of a wrapper. *)
LEMMA InvCall ==
  ASSUME Inv, NEW i \in Indexes, NEW o, Sound(State(i), o), Call(i, o)
  PROVE  Inv'
<1>1. PICK refused \in BOOLEAN :
        \/ refused /\ Refused(i)
        \/ /\ i < Len(connected) /\ pointer[Device(i)] = "wild" /\ Crash(i)
        \/ /\ i < Len(connected) /\ pointer[Device(i)] = "core" /\ Performed(i, o)
  BY DEF Call, OutOfRange
<1>2. i \in Nat /\ (i < Len(connected) => Device(i) \in Switches)
  BY ControllerAssumption DEF Inv, ListType, Indexes, Device
<1>3. ~crashed /\ calls < MaxCalls[family] /\ calls' = calls + 1
      /\ UNCHANGED <<connected, pointer, started, family>>
  BY DEF Call
<1>4. CASE Refused(i)
  <2>1. ListType'
    BY <1>3, <1>4, ControllerAssumption DEF Inv, ListType, Refused, Indexes
  <2>2. QED
    BY <1>3, <1>4, <2>1 DEF Inv, StatesWellFormed, CoresExist, CrashOnlyWithoutCore, Refused
<1>5. CASE i < Len(connected) /\ pointer[Device(i)] = "wild" /\ Crash(i)
  <2>1. ListType'
    BY <1>3, <1>5, ControllerAssumption DEF Inv, ListType, Crash, Indexes
  <2>2. CrashOnlyWithoutCore'
    BY <1>3, <1>5 DEF Inv, CoresExist, CrashOnlyWithoutCore, Crash, Device
  <2>3. QED
    BY <1>3, <1>5, <2>1, <2>2 DEF Inv, StatesWellFormed, CoresExist, Crash
<1>6. CASE i < Len(connected) /\ pointer[Device(i)] = "core" /\ Performed(i, o)
  <2>1. WellFormed(o.state) /\ o.rc \in {-1, 0}
    BY <1>2, <1>6 DEF Inv, StatesWellFormed, Sound, State
  <2>2. ListType'
    BY <1>3, <1>6, <2>1, ControllerAssumption DEF Inv, ListType, Performed, Indexes
  <2>3. StatesWellFormed'
    BY <1>2, <1>6, <2>1 DEF Inv, StatesWellFormed, Performed, WellFormed
  <2>4. QED
    BY <1>3, <1>6, <2>2, <2>3 DEF Inv, CoresExist, CrashOnlyWithoutCore, Performed
<1>7. QED
  BY <1>1, <1>4, <1>5, <1>6

LEMMA InvNext == Inv /\ [Next]_vars => Inv'
<1> SUFFICES ASSUME Inv, [Next]_vars PROVE Inv'
  OBVIOUS
<1>1. ASSUME NEW i \in Indexes, AnyCall(i) PROVE Inv'
  BY <1>1, EveryCall, InvCall DEF SoundCall
<1>2. CASE UNCHANGED vars
  BY <1>2 DEF vars, Inv, ListType, StatesWellFormed, CoresExist, CrashOnlyWithoutCore,
              Indexes, Device
<1>3. QED
  BY <1>1, <1>2, InvRegister, InvStart DEF Next

(* Every reachable state satisfies the inductive invariant. *)
THEOREM Invariance == Spec => []Inv
  BY InvInit, InvNext, PTL DEF Spec

-----------------------------------------------------------------------------
(* What follows from it. *)

LEMMA MapOfPartial ==
  ASSUME NEW Ids, NEW S, NEW f \in PartialMap(Ids, S)
  PROVE  /\ DOMAIN f \subseteq Ids /\ \A x \in DOMAIN f : f[x] \in S
         /\ MapOf(f, Ids, S)
<1>1. PICK D \in SUBSET Ids : f \in [D -> S]
  BY DEF PartialMap
<1>2. QED
  BY <1>1 DEF MapOf, Range

(* Tables, profiles, arrays, sets and sessions of every switch, the list   *)
(* and the pointers keep their types, whatever calls the program makes.    *)
THEOREM TypeCorrect == Spec => []TypeOK
<1>1. ASSUME NEW s, WellFormed(s) PROVE RuntimeType(s)
  <2>1. s \in RuntimeState
    BY <1>1 DEF WellFormed
  <2>2. /\ MapOf(s.member, Handles, Values) /\ DOMAIN s.member \subseteq Handles
        /\ MapOf(s.group, Handles, SUBSET Handles) /\ DOMAIN s.group \subseteq Handles
        /\ MapOf(s.mirror, 0 .. 2^15 - 1, Values)
    <3>1. /\ s.member \in PartialMap(Handles, Values)
          /\ s.group \in PartialMap(Handles, SUBSET Handles)
          /\ s.mirror \in PartialMap(0 .. 2^15 - 1, Values)
      BY <2>1 DEF RuntimeState
    <3>2. QED
      BY <3>1, MapOfPartial
  <2>3. ASSUME NEW t \in Tables, NEW S, Targets(s, t) \subseteq S
        PROVE  MapOf(s[t], Handles, EntryOf(S))
    <3>1. s[t] \in PartialMap(Handles, Entries)
      BY <2>1 DEF RuntimeState, Tables
    <3>2. \A h \in DOMAIN s[t] : s[t][h] \in Entries /\ s[t][h].target \in S
      BY <1>1, <2>3, <3>1, MapOfPartial DEF WellFormed, Refers
    <3>3. \A e \in Entries : e.target \in S => e \in EntryOf(S)
      BY DEF Entries, EntryOf
    <3>4. QED
      BY <3>1, <3>2, <3>3, MapOfPartial DEF MapOf, Range
  <2>4. Targets(s, "flow") \subseteq Values /\ Targets(s, "ind") \subseteq Handles
        /\ Targets(s, "ws") \subseteq Handles
    BY <2>2 DEF Targets
  <2>5. MapOf(s["flow"], Handles, EntryOf(Values)) /\ MapOf(s["ind"], Handles, EntryOf(Handles))
        /\ MapOf(s["ws"], Handles, EntryOf(Handles))
    BY <2>3, <2>4 DEF Tables
  <2>6. QED
    BY <2>1, <2>2, <2>5 DEF RuntimeType, RuntimeState
<1>2. Inv => TypeOK
  BY <1>1 DEF Inv, ListType, StatesWellFormed, TypeOK
<1>3. QED
  BY <1>2, Invariance, PTL

(* No index crashes the program, and no pointer of a started v1model       *)
(* switch does, for every list, architecture and order of calls.           *)
THEOREM CrashOnlyWithoutCoreCorrect == Spec => []CrashOnlyWithoutCore
<1>1. Inv => CrashOnlyWithoutCore
  BY DEF Inv
<1>2. QED
  BY <1>1, Invariance, PTL

(* The cells of a meter array never differ: no call sets the rates of one, *)
(* although p4-controller.h:598-625 documents three that do (MeterIndex).  *)
MeterCellsAlike == \A d \in Switches : Cardinality(Range(runtime[d].meter)) = 1

THEOREM MeterCellsAlikeCorrect == Spec => []MeterCellsAlike
<1>1. ASSUME NEW s, WellFormed(s) PROVE Cardinality(Range(s.meter)) = 1
  <2>1. PICK v \in Values : s.meter = [x \in Cells |-> v]
    BY <1>1 DEF WellFormed
  <2>2. Range(s.meter) = {v}
    BY <2>1, RuntimeAssumption DEF Range
  <2>3. QED
    BY <2>2, FS_Singleton
<1>2. Inv => MeterCellsAlike
  BY <1>1 DEF Inv, StatesWellFormed, MeterCellsAlike
<1>3. QED
  BY <1>2, Invariance, PTL

(* After the start only a successful call that names a switch changes its  *)
(* state, and no other switch's.                                           *)
THEOREM CallIsContainedCorrect == Spec => CallIsContained
<1> DEFINE Contained ==
      \A d \in Switches : runtime[d] # runtime'[d] /\ started =>
        /\ last'.rc = 0 /\ last'.index < Len(connected)
        /\ d = Device(last'.index)
<1>1. ASSUME Inv, NEW i \in Indexes, NEW o, Sound(State(i), o), Call(i, o)
      PROVE  Contained
  <2>1. \/ UNCHANGED runtime
        \/ i < Len(connected) /\ Performed(i, o)
    BY <1>1 DEF Call, Refused, Crash
  <2>2. i < Len(connected) => Device(i) \in Switches
    BY <1>1, ControllerAssumption DEF Inv, ListType, Indexes, Device
  <2>3. CASE i < Len(connected) /\ Performed(i, o)
    <3>1. o.rc \in {-1, 0} /\ (o.rc = -1 => o.state = State(i))
      BY <1>1, <2>2, <2>3 DEF Inv, StatesWellFormed, Sound, State
    <3>2. QED
      BY <1>1, <2>2, <2>3, <3>1 DEF Inv, StatesWellFormed, Performed, State
  <2>4. QED
    BY <2>1, <2>3
<1>2. Inv /\ [Next]_vars => [Contained]_vars
  <2>1. ASSUME Inv, NEW i \in Indexes, AnyCall(i) PROVE Contained
    BY <1>1, <2>1, EveryCall DEF SoundCall
  <2>2. Start \/ (\E d \in Switches : RegisterSwitch(d)) \/ UNCHANGED vars => [Contained]_vars
    BY DEF Start, RegisterSwitch, vars
  <2>3. QED
    BY <2>1, <2>2 DEF Next
<1>3. QED
  BY <1>2, Invariance, PTL DEF Spec, CallIsContained
=============================================================================
