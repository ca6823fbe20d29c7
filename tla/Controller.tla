----------------------------- MODULE Controller -----------------------------
(***************************************************************************)
(* P4Controller (model/p4-controller.cc): a list of registered switches    *)
(* and one method per operation of the run-time interface, each of which   *)
(* checks the index, reads the switch's v1model core pointer, refuses a    *)
(* null one and calls the core.  The pointer is set by DoInitialize, for   *)
(* the v1model architecture only; no constructor gives it a value, so      *)
(* until then, and in a switch of another architecture for ever, it is     *)
(* whatever the memory held: null in some runs, a wild pointer in others.  *)
(***************************************************************************)
EXTENDS RuntimeApi, Sequences

CONSTANTS
  Switches,       \* the P4SwitchNetDevices
  V1Switches,     \* those whose P4SwitchArch is v1model
  SwapEnabled,    \* those with EnableSwap
  Families,       \* the groups of operations a calling program may use
  MaxRegistered,  \* bound: calls of RegisterSwitch by a program of each group
  MaxCalls        \* bound: calls of the other operations by such a program

ASSUME ControllerAssumption ==
  /\ V1Switches \subseteq Switches
  /\ SwapEnabled \subseteq Switches
  /\ Families \subseteq {"flow", "indirect", "arrays", "state"}
  /\ MaxRegistered \in [Families -> Nat]
  /\ MaxCalls \in [Families -> Nat]

VARIABLES
  connected,  \* m_connectedSwitches
  pointer,    \* m_v1modelSwitch of every switch: "null", "wild" or "core"
  started,    \* the simulation has started: DoInitialize has run
  runtime,    \* the state of every v1model core
  last,       \* the last call: its index, its result
  crashed,    \* a wild pointer or an element past the list was used
  calls,      \* number of calls made
  family      \* the operations this program uses

vars == <<connected, pointer, started, runtime, last, crashed, calls, family>>

-----------------------------------------------------------------------------

Init ==
  /\ connected = <<>>
  /\ pointer \in [Switches -> {"null", "wild"}]
  /\ started = FALSE
  /\ runtime \in {[d \in Switches |-> Fresh(config)] : config \in Configs}
  /\ last = [index |-> 0, rc |-> 0]
  /\ crashed = FALSE
  /\ calls = 0
  /\ family \in Families

(* RegisterSwitch appends: a switch registered twice has two indexes. *)
RegisterSwitch(d) ==
  /\ ~crashed /\ Len(connected) < MaxRegistered[family]
  /\ connected' = Append(connected, d)
  /\ UNCHANGED <<pointer, started, runtime, last, crashed, calls, family>>

(* ExecuteCliCommands: the flow table file, when it is there, adds entries *)
(* and multicast groups; when it is not, the switch starts without it.     *)
LoadFlowTable(s, found, k, h) ==
  IF found THEN [AddFlowEntry(s, k, 0, h).state EXCEPT !.multicast = TRUE] ELSE s

(* DoInitialize of every switch, at time 0 of the simulation. *)
Start ==
  /\ ~crashed /\ ~started
  /\ \E found \in BOOLEAN, k \in Keys, h \in Handles :
       runtime' = [d \in Switches |->
         IF d \in V1Switches THEN LoadFlowTable(runtime[d], found, k, h) ELSE runtime[d]]
  /\ pointer' = [d \in Switches |-> IF d \in V1Switches THEN "core" ELSE pointer[d]]
  /\ started' = TRUE
  /\ UNCHANGED <<connected, last, crashed, calls, family>>

-----------------------------------------------------------------------------
(* The shape of every method: the index is checked against the list, the   *)
(* core pointer against null, and the outcome of the core's wrapper is     *)
(* logged; a refusal returns to the caller without a word.                 *)

Indexes == 0 .. MaxRegistered[family]
Device(i) == connected[i + 1]
State(i) == runtime[Device(i)]

(* Faulty variant: the comparison lets the index one past the end through. *)
OutOfRangeLax(i) == i > Len(connected)

OutOfRange(i) == i >= Len(connected)

Refused(i) == last' = [index |-> i, rc |-> -1] /\ UNCHANGED <<runtime, crashed>>

(* Use of memory the program does not own. *)
Crash(i) ==
  /\ last' = [index |-> i, rc |-> -1]
  /\ crashed' = TRUE
  /\ UNCHANGED runtime

(* Faulty variant: every registered switch gets the new state. *)
PerformedEverywhere(i, outcome) ==
  /\ runtime' = [d \in Switches |->
       IF d \in Range(connected) THEN outcome.state ELSE runtime[d]]
  /\ last' = [index |-> i, rc |-> outcome.rc]
  /\ UNCHANGED crashed

Performed(i, outcome) ==
  /\ runtime' = [runtime EXCEPT ![Device(i)] = outcome.state]
  /\ last' = [index |-> i, rc |-> outcome.rc]
  /\ UNCHANGED crashed

Call(i, outcome) ==
  /\ ~crashed /\ calls < MaxCalls[family]
  /\ calls' = calls + 1
  /\ \/ OutOfRange(i) /\ Refused(i)
     \/ ~OutOfRange(i) /\ i >= Len(connected) /\ Crash(i)
     \/ ~OutOfRange(i) /\ i < Len(connected) /\ pointer[Device(i)] = "null" /\ Refused(i)
     \/ ~OutOfRange(i) /\ i < Len(connected) /\ pointer[Device(i)] = "wild" /\ Crash(i)
     \/ ~OutOfRange(i) /\ i < Len(connected) /\ pointer[Device(i)] = "core" /\ Performed(i, outcome)
  /\ UNCHANGED <<connected, pointer, started, family>>

(* A table, profile, array or set the P4 program does not have. *)
UnknownName(i) == Call(i, Failed(State(i)))

-----------------------------------------------------------------------------
(* The direct table. *)

ViewCalls(i) == Call(i, GetNumEntries(State(i), "flow"))

EntryCalls(i) ==
  \/ \E reset \in BOOLEAN : Call(i, ClearFlowTableEntries(State(i), "flow", reset))
  \/ \E k \in Keys, v \in Values, h \in Handles : Call(i, AddFlowEntry(State(i), k, v, h))
  \/ \E v \in Values : Call(i, SetDefaultAction(State(i), v))
  \/ Call(i, ResetDefaultEntry(State(i)))

HandleCalls(i) == \E h \in Handles :
  \/ Call(i, DeleteFlowEntry(State(i), h))
  \/ \E v \in Values : \/ Call(i, ModifyFlowEntry(State(i), h, v))
                        \/ Call(i, SetEntryTtl(State(i), h, v))

(* Counters and meters of the direct table's entries. *)
TableCounterCalls(i) ==
  \/ Call(i, ResetTableCounters(State(i)))
  \/ \E h \in Handles :
       \/ Call(i, ReadTableCounters(State(i), h))
       \/ \E v \in Values : Call(i, WriteTableCounters(State(i), h, v))

TableMeterCalls(i) == \E h \in Handles :
  \/ \E v \in Values : Call(i, SetMeterRates(State(i), TRUE, h, v))
  \/ Call(i, GetMeterRates(State(i), TRUE, h))
  \/ Call(i, ResetMeterRates(State(i), TRUE, h))

-----------------------------------------------------------------------------
(* The action profile and the tables that refer to it. *)

MemberCalls(i) == \E m \in Handles :
  \/ Call(i, DeleteActionProfileMember(State(i), m))
  \/ \E v \in Values : \/ Call(i, AddActionProfileMember(State(i), v, m))
                        \/ Call(i, ModifyActionProfileMember(State(i), m, v))

GroupCalls(i) == \E g \in Handles :
  \/ Call(i, CreateActionProfileGroup(State(i), g))
  \/ Call(i, DeleteActionProfileGroup(State(i), g))
  \/ \E m \in Handles : \/ Call(i, AddMemberToGroup(State(i), m, g))
                         \/ Call(i, RemoveMemberFromGroup(State(i), m, g))

MemberReads(i) ==
  \/ Call(i, GetActionProfileMembers(State(i)))
  \/ \E m \in Handles : Call(i, GetActionProfileMember(State(i), m))

GroupReads(i) ==
  \/ Call(i, GetActionProfileGroups(State(i)))
  \/ \E g \in Handles : Call(i, GetActionProfileGroup(State(i), g))

IndirectCalls(i) == \E h \in Handles :
  \/ Call(i, DeleteIndirectEntry(State(i), h))
  \/ \E v \in Values : Call(i, SetIndirectEntryTtl(State(i), h, v))
  \/ \E m \in Handles : \/ Call(i, ModifyIndirectEntry(State(i), h, m))
                         \/ \E k \in Keys : Call(i, AddIndirectEntry(State(i), k, m, h))

IndirectDefaultCalls(i) ==
  \/ \E m \in Handles : Call(i, SetIndirectDefaultMember(State(i), m))
  \/ Call(i, ResetIndirectDefaultEntry(State(i)))

(* No operation deletes an entry of a table with a selector. *)
IndirectWsCalls(i) == \E g \in Handles :
  \/ Call(i, SetIndirectWsDefaultGroup(State(i), g))
  \/ \E h \in Handles : \/ Call(i, ModifyIndirectWsEntry(State(i), h, g))
                         \/ \E k \in Keys : Call(i, AddIndirectWsEntry(State(i), k, g, h))

-----------------------------------------------------------------------------
(* Printing: all entries, an entry by handle, the default, one by key. *)

PrintFlowEntries(i) == \E t \in Tables : Call(i, GetEntries(State(i), t))

PrintEntries(i) == \E t \in Tables :
  \/ \E h \in Handles : Call(i, GetEntry(State(i), t, h))
  \/ Call(i, GetDefaultEntry(State(i), t))

PrintEntriesFromKey(i) == \E t \in Tables, k \in Keys : Call(i, GetEntryFromKey(State(i), t, k))

-----------------------------------------------------------------------------
(* Arrays.  An index may be one past the last cell. *)

Indices == 0 .. Cardinality(Cells)

CounterCalls(i) ==
  \/ Call(i, ResetCounter(State(i)))
  \/ \E x \in Indices : \/ Call(i, ReadCounter(State(i), x))
                        \/ \E v \in Values : Call(i, WriteCounter(State(i), x, v))

MeterArrayCalls(i) == \E v \in Values : Call(i, SetMeterArrayRates(State(i), v))

(* The three calls with a meter's name and an index: the core's functions  *)
(* they reach take the name of a table, and find none.                     *)
MeterIndexCalls(i) == \E x \in Indices :
  \/ \E v \in Values : Call(i, SetMeterRates(State(i), FALSE, x, v))
  \/ Call(i, GetMeterRates(State(i), FALSE, x))
  \/ Call(i, ResetMeterRates(State(i), FALSE, x))

RegisterCalls(i) ==
  \/ Call(i, RegisterReadAll(State(i)))
  \/ Call(i, RegisterReset(State(i)))
  \/ \E x \in Indices :
       \/ Call(i, RegisterRead(State(i), x))
       \/ \E v \in Values :
            \/ Call(i, RegisterWrite(State(i), x, v))
            \/ \E y \in x .. Cardinality(Cells) + 1 : Call(i, RegisterWriteRange(State(i), x .. y - 1, v))

ParseVsetCalls(i) ==
  \/ Call(i, ParseVsetGet(State(i)))
  \/ Call(i, ParseVsetClear(State(i)))
  \/ \E v \in Values : \/ Call(i, ParseVsetAdd(State(i), v))
                        \/ Call(i, ParseVsetRemove(State(i), v))

-----------------------------------------------------------------------------
(* The switch as a whole. *)

StateCalls(i) ==
  \/ Call(i, ResetState(State(i)))
  \/ Call(i, Serialize(State(i)))
  \/ \E config \in Configs :
       Call(i, LoadNewConfig(State(i), Device(i) \in SwapEnabled, config))
  \/ Call(i, SwapConfigs(State(i)))
  \/ Call(i, GetConfig(State(i)))
  \/ Call(i, GetConfigMd5(State(i)))

(* The program configures mirroring at the core itself. *)
MirroringCalls(i) == \E id \in Sessions :
  /\ i < Len(connected) /\ pointer[Device(i)] = "core"
  /\ \/ \E v \in Values : Call(i, AddMirroringSession(State(i), id, v))
     \/ Call(i, DeleteMirroringSession(State(i), id))
     \/ Call(i, GetMirroringSession(State(i), id))

-----------------------------------------------------------------------------

FlowFamily(i) ==
  \/ ViewCalls(i) \/ EntryCalls(i) \/ HandleCalls(i)
  \/ TableCounterCalls(i) \/ TableMeterCalls(i)
  \/ PrintFlowEntries(i) \/ PrintEntries(i) \/ PrintEntriesFromKey(i)

IndirectFamily(i) ==
  \/ MemberCalls(i) \/ GroupCalls(i) \/ MemberReads(i) \/ GroupReads(i)
  \/ IndirectCalls(i) \/ IndirectDefaultCalls(i) \/ IndirectWsCalls(i)

ArrayFamily(i) ==
  \/ CounterCalls(i) \/ MeterArrayCalls(i) \/ MeterIndexCalls(i)
  \/ RegisterCalls(i) \/ ParseVsetCalls(i)

AnyCall(i) ==
  \/ UnknownName(i)
  \/ family \in {"indirect", "state"} /\ StateCalls(i)
  \/ family = "flow" /\ FlowFamily(i)
  \/ family = "indirect" /\ IndirectFamily(i)
  \/ family = "arrays" /\ ArrayFamily(i)
  \/ family = "state" /\ MirroringCalls(i)

Next ==
  \/ \E d \in Switches : RegisterSwitch(d)
  \/ Start
  \/ \E i \in Indexes : AnyCall(i)

Spec == Init /\ [][Next]_vars

-----------------------------------------------------------------------------
(* Every table, array and set of a switch is well formed; a session's id   *)
(* fits the 15 bits that a cloned packet's register has for it.            *)
MapOf(f, Ids, S) == DOMAIN f \subseteq Ids /\ Range(f) \subseteq S
EntryOf(S) == [key : Keys, target : S, ttl : Values, count : Values, rate : Values]

RuntimeType(s) ==
  /\ s.active \in Configs /\ s.loaded \in Configs \cup {None}
  /\ {s.swap, s.multicast} \subseteq BOOLEAN
  /\ MapOf(s.flow, Handles, EntryOf(Values))
  /\ MapOf(s.ind, Handles, EntryOf(Handles)) /\ MapOf(s.ws, Handles, EntryOf(Handles))
  /\ MapOf(s.member, Handles, Values) /\ MapOf(s.group, Handles, SUBSET Handles)
  /\ {s.counter, s.meter, s.register} \subseteq [Cells -> Values]
  /\ s.vset \subseteq Values /\ MapOf(s.mirror, 0 .. 2^15 - 1, Values)

(* Type invariant: the controller's list, the pointers and every switch's  *)
(* run-time state keep their types.                                        *)
TypeOK ==
  /\ connected \in Seq(Switches) /\ Len(connected) <= MaxRegistered[family]
  /\ pointer \in [Switches -> {"null", "wild", "core"}]
  /\ started \in BOOLEAN /\ crashed \in BOOLEAN
  /\ \A d \in Switches : RuntimeType(runtime[d])
  /\ last \in [index : Indexes, rc : {-1, 0}]
  /\ family \in Families /\ calls \in 0 .. MaxCalls[family]

(* A call never crashes the program by its index, nor through the pointer  *)
(* of a switch whose core exists: only a registered switch whose pointer   *)
(* was never set makes it crash.                                           *)
CrashOnlyWithoutCore ==
  crashed => /\ last.index < Len(connected)
             /\ ~(started /\ Device(last.index) \in V1Switches)

(* After the start the state of a switch changes only by a successful call *)
(* that names one of the switch's indexes, and every other switch keeps    *)
(* its state; a failing call changes nothing at all.                       *)
CallIsContained == [][
  \A d \in Switches : runtime[d] # runtime'[d] /\ started =>
    /\ last'.rc = 0 /\ last'.index < Len(connected)
    /\ d = Device(last'.index)]_vars
=============================================================================
