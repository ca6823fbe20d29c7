----------------------------- MODULE RuntimeApi -----------------------------
(***************************************************************************)
(* The run-time interface of P4CoreV1model (model/p4-core-v1model.cc       *)
(* 865-1814): operators from the state of one switch to the outcome of a   *)
(* call, the result code the wrapper returns, the state left behind and    *)
(* the handle or value handed out.  The tables themselves are BMv2's; the  *)
(* module keeps what the wrappers rely on: a call with a stale handle or   *)
(* an unknown name fails and changes nothing, a handle handed out is one   *)
(* that is not in use (which one is BMv2's choice), and what is referred   *)
(* to cannot be deleted.  Action data, counters, rates and registers are   *)
(* members of the set Values; 0 is the value they start with.              *)
(***************************************************************************)
EXTENDS Integers, FiniteSets, Functions

CONSTANTS
  Keys,      \* match keys
  Values,    \* action data, counter values, rates, register values, ports
  Cells,     \* indexes of a counter, meter or register array
  Handles,   \* entry, member and group handles (a full table has used all)
  Sessions,  \* mirror ids the program uses
  Configs,   \* P4 programs, as JSON
  None       \* no handle, no value

ASSUME RuntimeAssumption ==
  /\ 0 \in Values
  /\ Cells \subseteq Nat /\ Cells # {}
  /\ Configs # {}
  /\ None \notin Handles \cup Values \cup Configs

Tables == {"flow", "ind", "ws"}  \* direct, indirect, indirect with selector
Empty == [h \in {} |-> None]

(* The state of a switch after InitializeSwitchFromP4Json. *)
Fresh(config) ==
  [ active |-> config, loaded |-> None, swap |-> FALSE,
    flow |-> Empty, ind |-> Empty, ws |-> Empty,
    default |-> [t \in Tables |-> IF t = "flow" THEN 0 ELSE None],
    member |-> Empty, group |-> Empty,
    counter |-> [x \in Cells |-> 0], meter |-> [x \in Cells |-> 0],
    register |-> [x \in Cells |-> 0], vset |-> {},
    multicast |-> FALSE, mirror |-> Empty ]

Ok(s, out) == [rc |-> 0, state |-> s, out |-> out]
Failed(s) == [rc |-> -1, state |-> s, out |-> None]

(* Every wrapper: BMv2 accepts the call and s becomes t, or refuses it. *)
Try(accepted, s, t, out) == IF accepted THEN Ok(t, out) ELSE Failed(s)
Read(accepted, s, out) == Try(accepted, s, s, out)

(* What the match table t refers to: members, groups, or action data. *)
Targets(s, t) == CASE t = "flow" -> Values
                   [] t = "ind"  -> DOMAIN s.member
                   [] t = "ws"   -> DOMAIN s.group

KeysOf(s, t) == {s[t][h].key : h \in DOMAIN s[t]}
Entry(k, x) == [key |-> k, target |-> x, ttl |-> 0, count |-> 0, rate |-> 0]
WithKey(f, h, v) == [x \in DOMAIN f \cup {h} |-> IF x = h THEN v ELSE f[x]]
WithoutKey(f, h) == Restrict(f, DOMAIN f \ {h})

-----------------------------------------------------------------------------
(* Entries of a match table: what the three kinds of table share.          *)

AddEntry(s, t, k, x, h) ==
  Try(/\ h \notin DOMAIN s[t] /\ k \notin KeysOf(s, t) /\ x \in Targets(s, t),
      s, [s EXCEPT ![t] = WithKey(@, h, Entry(k, x))], h)

SetField(s, t, h, field, v, allowed) ==
  Try(h \in DOMAIN s[t] /\ allowed,
      s, [s EXCEPT ![t] = [e \in DOMAIN @ |->
            IF e = h THEN [@[e] EXCEPT ![field] = v] ELSE @[e]]], None)

DeleteEntry(s, t, h) ==
  Try(h \in DOMAIN s[t], s, [s EXCEPT ![t] = WithoutKey(@, h)], None)

SetDefault(s, t, x) ==
  Try(x \in Targets(s, t), s, [s EXCEPT !.default = [@ EXCEPT ![t] = x]], None)

ResetDefault(s, t) ==
  Ok([s EXCEPT !.default = [@ EXCEPT ![t] = IF t = "flow" THEN 0 ELSE None]], None)

(* The direct table. *)
GetNumEntries(s, t) == Ok(s, Cardinality(DOMAIN s[t]))

ClearFlowTableEntries(s, t, resetDefault) ==
  IF resetDefault THEN Ok(ResetDefault([s EXCEPT ![t] = Empty], t).state, None)
                  ELSE Ok([s EXCEPT ![t] = Empty], None)

AddFlowEntry(s, k, v, h) == AddEntry(s, "flow", k, v, h)
SetDefaultAction(s, v) == SetDefault(s, "flow", v)
ResetDefaultEntry(s) == ResetDefault(s, "flow")
DeleteFlowEntry(s, h) == DeleteEntry(s, "flow", h)
ModifyFlowEntry(s, h, v) == SetField(s, "flow", h, "target", v, TRUE)
SetEntryTtl(s, h, v) == SetField(s, "flow", h, "ttl", v, TRUE)

(* The indirect tables. *)
AddIndirectEntry(s, k, m, h) == AddEntry(s, "ind", k, m, h)
ModifyIndirectEntry(s, h, m) == SetField(s, "ind", h, "target", m, m \in DOMAIN s.member)
DeleteIndirectEntry(s, h) == DeleteEntry(s, "ind", h)
SetIndirectEntryTtl(s, h, v) == SetField(s, "ind", h, "ttl", v, TRUE)
SetIndirectDefaultMember(s, m) == SetDefault(s, "ind", m)
ResetIndirectDefaultEntry(s) == ResetDefault(s, "ind")
AddIndirectWsEntry(s, k, g, h) == AddEntry(s, "ws", k, g, h)
ModifyIndirectWsEntry(s, h, g) == SetField(s, "ws", h, "target", g, g \in DOMAIN s.group)
SetIndirectWsDefaultGroup(s, g) == SetDefault(s, "ws", g)

(* Reading a table: all entries (an exception becomes an empty vector), an *)
(* entry by handle, the default entry, an entry by key.                    *)
GetEntries(s, t) == Ok(s, s[t])
GetEntry(s, t, h) == Read(h \in DOMAIN s[t], s, h)
GetDefaultEntry(s, t) == Read(s.default[t] # None, s, s.default[t])
GetEntryFromKey(s, t, k) == Read(k \in KeysOf(s, t), s, k)

-----------------------------------------------------------------------------
(* The action profile: members and groups of members.                      *)

Used(s, t) == {s[t][h].target : h \in DOMAIN s[t]} \cup {s.default[t]}

MemberInUse(s, m) == m \in Used(s, "ind") \/ \E g \in DOMAIN s.group : m \in s.group[g]

AddActionProfileMember(s, v, m) ==
  Try(m \notin DOMAIN s.member, s, [s EXCEPT !.member = WithKey(@, m, v)], m)
DeleteActionProfileMember(s, m) ==
  Try(m \in DOMAIN s.member /\ ~MemberInUse(s, m),
      s, [s EXCEPT !.member = WithoutKey(@, m)], None)
ModifyActionProfileMember(s, m, v) ==
  Try(m \in DOMAIN s.member, s, [s EXCEPT !.member = WithKey(@, m, v)], None)
CreateActionProfileGroup(s, g) ==
  Try(g \notin DOMAIN s.group, s, [s EXCEPT !.group = WithKey(@, g, {})], g)
DeleteActionProfileGroup(s, g) ==
  Try(g \in DOMAIN s.group \ Used(s, "ws"), s, [s EXCEPT !.group = WithoutKey(@, g)], None)
AddMemberToGroup(s, m, g) ==
  Try(g \in DOMAIN s.group /\ m \in DOMAIN s.member /\ m \notin s.group[g],
      s, [s EXCEPT !.group = WithKey(@, g, @[g] \cup {m})], None)
RemoveMemberFromGroup(s, m, g) ==
  Try(g \in DOMAIN s.group /\ m \in s.group[g],
      s, [s EXCEPT !.group = WithKey(@, g, @[g] \ {m})], None)

(* The two reads of everything always answer 0. *)
GetActionProfileMembers(s) == Ok(s, s.member)
GetActionProfileMember(s, m) == Read(m \in DOMAIN s.member, s, m)
GetActionProfileGroups(s) == Ok(s, s.group)
GetActionProfileGroup(s, g) == Read(g \in DOMAIN s.group, s, g)

-----------------------------------------------------------------------------
(* Counters, meters and registers; the named object is an array of Cells.  *)

ReadTableCounters(s, h) == Read(h \in DOMAIN s.flow, s, h)
ResetTableCounters(s) ==
  Ok([s EXCEPT !.flow = [h \in DOMAIN @ |-> [@[h] EXCEPT !.count = 0]]], None)
WriteTableCounters(s, h, v) == SetField(s, "flow", h, "count", v, TRUE)

SetCell(s, array, x, v) ==
  Try(x \in Cells, s, [s EXCEPT ![array] = [@ EXCEPT ![x] = v]], None)
ReadCell(s, array, x) == Read(x \in Cells, s, x)
SetCells(s, array, xs, v) ==
  Try(xs \subseteq Cells,
      s, [s EXCEPT ![array] = [x \in Cells |-> IF x \in xs THEN v ELSE @[x]]], None)

ReadCounter(s, x) == ReadCell(s, "counter", x)
ResetCounter(s) == SetCells(s, "counter", Cells, 0)
WriteCounter(s, x, v) == SetCell(s, "counter", x, v)

(* SetMeterRates, GetMeterRates and ResetMeterRates take a table's name. *)
SetMeterRates(s, isTable, h, v) == SetField(s, "flow", h, "rate", v, isTable)
GetMeterRates(s, isTable, h) == Read(isTable /\ h \in DOMAIN s.flow, s, h)
ResetMeterRates(s, isTable, h) == SetField(s, "flow", h, "rate", 0, isTable)

(* SetMeterArrayRates and MeterSetRates and its kin take a meter's name. *)
SetMeterArrayRates(s, v) == SetCells(s, "meter", Cells, v)
MeterSetRates(s, x, v) == SetCell(s, "meter", x, v)
MeterGetRates(s, x) == ReadCell(s, "meter", x)
MeterResetRates(s, x) == SetCell(s, "meter", x, 0)

RegisterRead(s, x) == ReadCell(s, "register", x)
RegisterWrite(s, x, v) == SetCell(s, "register", x, v)
RegisterReadAll(s) == Ok(s, s.register)
RegisterWriteRange(s, xs, v) == SetCells(s, "register", xs, v)
RegisterReset(s) == SetCells(s, "register", Cells, 0)

ParseVsetAdd(s, v) == Try(v \notin s.vset, s, [s EXCEPT !.vset = @ \cup {v}], None)
ParseVsetRemove(s, v) == Try(v \in s.vset, s, [s EXCEPT !.vset = @ \ {v}], None)
ParseVsetGet(s) == Ok(s, s.vset)
ParseVsetClear(s) == Ok([s EXCEPT !.vset = {}], None)

-----------------------------------------------------------------------------
(* State and configuration of the whole switch.                            *)

(* The mirroring sessions are the switch's own map, not BMv2's: an id out  *)
(* of range never reaches it, a second add replaces the session.           *)
MaxMirrorSessionId == 2^15 - 1

(* Faulty variant: one id too many. *)
InRangeClosed(id) == id \in 0 .. MaxMirrorSessionId + 1

InRange(id) == id \in 0 .. MaxMirrorSessionId
AddMirroringSession(s, id, v) ==
  Try(InRange(id), s, [s EXCEPT !.mirror = WithKey(@, id, v)], None)
DeleteMirroringSession(s, id) ==
  Try(InRange(id) /\ id \in DOMAIN s.mirror, s,
      [s EXCEPT !.mirror = WithoutKey(@, id)], None)
GetMirroringSession(s, id) == Read(id \in DOMAIN s.mirror, s, id)

(* reset_target_state_ resets the multicast engine, and only that. *)
ResetTargetState(s) == [s EXCEPT !.multicast = FALSE]

(* reset_state of BMv2 empties tables, arrays and sets, and calls the hook. *)
ResetState(s) ==
  Ok(ResetTargetState([Fresh(s.active) EXCEPT
       !.loaded = s.loaded, !.swap = s.swap, !.mirror = s.mirror,
       !.multicast = s.multicast]), None)

Serialize(s) == Ok(s, None)

LoadNewConfig(s, enableSwap, config) ==
  Try(enableSwap /\ s.loaded = None, s, [s EXCEPT !.loaded = config], None)
SwapConfigs(s) ==
  Try(s.loaded # None /\ ~s.swap, s, [s EXCEPT !.swap = TRUE], None)
GetConfig(s) == Ok(s, s.active)
GetConfigMd5(s) == Ok(s, s.active)
=============================================================================
